------------------------------ MODULE CtlProofs -----------------------------
(* Proofs about the commands of valonctl beside the plugin: types for any     *)
(* number of terminals, and what one administrator at a time may rely on.      *)
EXTENDS CtlInv, AllocProofs, TLAPS

-----------------------------------------------------------------------------
(* What the calls preserve                                                    *)

LEMMA DeviceAddType ==
    ASSUME WgTypeOK, NEW k \in Key, NEW ip \in IP, DeviceAdd(k, ip)
    PROVE  WgTypeOK'
  BY SentinelAssumption DEF WgTypeOK, DeviceAdd, Configure, WithAddress, Without, WgPeer

LEMMA DeviceRemoveType ==
    ASSUME WgTypeOK, NEW k \in Key, DeviceRemove(k)
    PROVE  WgTypeOK'
  BY DEF WgTypeOK, DeviceRemove, Unconfigure

LEMMA RegisterType ==
    ASSUME EtcdTypeOK, NEW k \in Key, NEW ip \in IP, NEW a \in Alias, Register(k, ip, a)
    PROVE  EtcdTypeOK'
  BY DEF EtcdTypeOK, Register, Text, Field

LEMMA DeregisterType ==
    ASSUME EtcdTypeOK, NEW k \in Key, Deregister(k)
    PROVE  EtcdTypeOK'
  BY DEF EtcdTypeOK, Deregister, DeletePrefix, NoFields

LEMMA UnaliasType ==
    ASSUME EtcdTypeOK, NEW a \in Alias, Unalias(a)
    PROVE  EtcdTypeOK'
  BY DEF EtcdTypeOK, Unalias

\* A command moves on, and the others stay where they are.
LEMMA Moved ==
    ASSUME CtlTypeOK, CarriesInv, EtcdTypeOK', WgTypeOK', NEW c \in Cmd,
           NEW r \in CtlRecord, Carries(r), ctl' = [ctl EXCEPT ![c] = r]
    PROVE  CtlTypeOK' /\ CarriesInv'
  BY DEF CtlTypeOK, CarriesInv

LEMMA IdleCarries == CtlIdle \in CtlRecord /\ Carries(CtlIdle)
  BY DEF CtlIdle, CtlRecord, CtlPC, Carries

-----------------------------------------------------------------------------
(* Types, for any number of terminals                                         *)

LEMMA AddTypes ==
    ASSUME CtlTypeOK, CarriesInv, NEW c \in Cmd,
           \/ AddStart(c) \/ AddAllocate(c) \/ AddDevice(c)
           \/ AddRegister(c) \/ AddRefused(c) \/ AddRollback(c)
    PROVE  CtlTypeOK' /\ CarriesInv'
  <1>1. EtcdTypeOK /\ WgTypeOK /\ ctl \in [Cmd -> CtlRecord] /\ Carries(ctl[c])
    BY DEF CtlTypeOK, CarriesInv
  <1>2. CASE AddStart(c)
    <2>1. PICK n \in Adds :
            ctl' = [ctl EXCEPT ![c] =
                      [CtlIdle EXCEPT !.pc = IF n.ip = None THEN "allocate" ELSE "device",
                                      !.key = n.key, !.ip = n.ip, !.alias = n.alias]]
      BY <1>2 DEF AddStart
    <2>2. n \in [key : Key, ip : IP \cup {None}, alias : Alias]
      BY CommandAssumption
    <2>. DEFINE r == [CtlIdle EXCEPT !.pc = IF n.ip = None THEN "allocate" ELSE "device",
                                     !.key = n.key, !.ip = n.ip, !.alias = n.alias]
    <2>3. r \in CtlRecord /\ Carries(r)
      BY <2>2 DEF CtlIdle, CtlRecord, CtlPC, Carries
    <2>4. EtcdTypeOK' /\ WgTypeOK'
      BY <1>1, <1>2 DEF AddStart, etcdVars, EtcdTypeOK, WgTypeOK
    <2>. QED
      BY <2>1, <2>3, <2>4, Moved
  <1>3. CASE AddAllocate(c)
    <2>1. PICK ip \in IP : ctl' = [ctl EXCEPT ![c].pc = "device", ![c].ip = ip]
      BY <1>3 DEF AddAllocate
    <2>. DEFINE r == [ctl[c] EXCEPT !.pc = "device", !.ip = ip]
    <2>2. r \in CtlRecord /\ Carries(r) /\ ctl' = [ctl EXCEPT ![c] = r]
      BY <1>1, <1>3, <2>1, ZenonT(40) DEF AddAllocate, At, CtlRecord, CtlPC, Carries
    <2>3. EtcdTypeOK' /\ WgTypeOK'
      BY <1>1, <1>3 DEF AddAllocate, etcdVars, EtcdTypeOK, WgTypeOK
    <2>. QED
      BY <2>2, <2>3, Moved
  <1>4. CASE AddDevice(c)
    <2>. DEFINE r == [ctl[c] EXCEPT !.pc = "register"]
    <2>1. r \in CtlRecord /\ Carries(r) /\ ctl' = [ctl EXCEPT ![c] = r]
      BY <1>1, <1>4 DEF AddDevice, To, At, CtlRecord, CtlPC, Carries
    <2>2. WgTypeOK'
      BY <1>1, <1>4, DeviceAddType DEF AddDevice, At, Carries
    <2>3. EtcdTypeOK'
      BY <1>1, <1>4 DEF AddDevice, etcdVars, EtcdTypeOK
    <2>. QED
      BY <2>1, <2>2, <2>3, Moved
  <1>5. CASE AddRegister(c)
    <2>1. EtcdTypeOK'
      BY <1>1, <1>5, RegisterType DEF AddRegister, At, Carries
    <2>2. WgTypeOK' /\ ctl' = [ctl EXCEPT ![c] = CtlIdle]
      BY <1>1, <1>5 DEF AddRegister, Exit, WgTypeOK
    <2>. QED
      BY <2>1, <2>2, IdleCarries, Moved
  <1>6. CASE AddRefused(c)
    <2>. DEFINE r == [ctl[c] EXCEPT !.pc = "rollback"]
    <2>1. r \in CtlRecord /\ Carries(r) /\ ctl' = [ctl EXCEPT ![c] = r]
      BY <1>1, <1>6 DEF AddRefused, To, At, CtlRecord, CtlPC, Carries
    <2>2. EtcdTypeOK'
      <3>1. CASE UNCHANGED etcdVars
        BY <1>1, <3>1 DEF etcdVars, EtcdTypeOK
      <3>2. CASE Register(ctl[c].key, ctl[c].ip, ctl[c].alias)
        BY <1>1, <1>6, <3>2, RegisterType DEF AddRefused, At, Carries
      <3>. QED
        BY <1>6, <3>1, <3>2 DEF AddRefused
    <2>3. WgTypeOK'
      BY <1>1, <1>6 DEF AddRefused, WgTypeOK
    <2>. QED
      BY <2>1, <2>2, <2>3, Moved
  <1>7. CASE AddRollback(c)
    <2>1. WgTypeOK'
      BY <1>1, <1>7, DeviceRemoveType DEF AddRollback, At, Carries
    <2>2. EtcdTypeOK' /\ ctl' = [ctl EXCEPT ![c] = CtlIdle]
      BY <1>1, <1>7 DEF AddRollback, Exit, etcdVars, EtcdTypeOK
    <2>. QED
      BY <2>1, <2>2, IdleCarries, Moved
  <1>. QED
    BY <1>2, <1>3, <1>4, <1>5, <1>6, <1>7

LEMMA RemoveTypes ==
    ASSUME CtlTypeOK, CarriesInv, NEW c \in Cmd,
           \/ RemoveStart(c) \/ RemoveLookup(c) \/ RemoveDevice(c) \/ RemoveResolve(c)
           \/ RemoveCall(c) \/ RemoveAnswered(c) \/ RemoveUnanswered(c)
           \/ RemoveKeys(c) \/ RemoveAlias(c)
    PROVE  CtlTypeOK' /\ CarriesInv'
  <1>1. EtcdTypeOK /\ WgTypeOK /\ ctl \in [Cmd -> CtlRecord] /\ Carries(ctl[c])
    BY DEF CtlTypeOK, CarriesInv
  <1>2. UNCHANGED <<etcdVars, wg>> => EtcdTypeOK' /\ WgTypeOK'
    BY <1>1 DEF etcdVars, EtcdTypeOK, WgTypeOK
  <1>3. CASE RemoveStart(c)
    <2>1. PICK t \in Targets :
            ctl' = [ctl EXCEPT ![c] = [CtlIdle EXCEPT !.pc = "lookup", !.target = t]]
      BY <1>3 DEF RemoveStart
    <2>. DEFINE r == [CtlIdle EXCEPT !.pc = "lookup", !.target = t]
    <2>2. r \in CtlRecord /\ Carries(r)
      BY CommandAssumption DEF CtlIdle, CtlRecord, CtlPC, Carries
    <2>. QED
      BY <1>2, <1>3, <2>1, <2>2, Moved DEF RemoveStart
  <1>4. CASE RemoveLookup(c)
    <2>1. PICK k \in Key : ctl' = [ctl EXCEPT ![c].pc = "undevice", ![c].victim = k]
      BY <1>4 DEF RemoveLookup
    <2>. DEFINE r == [ctl[c] EXCEPT !.pc = "undevice", !.victim = k]
    <2>2. ctl[c].pc = "lookup"
      BY <1>4 DEF RemoveLookup, At
    <2>3. r \in CtlRecord
      BY <1>1, <2>1 DEF CtlRecord, CtlPC
    <2>4. Carries(r)
      BY <1>1, <2>2 DEF CtlRecord, Carries
    <2>5. ctl' = [ctl EXCEPT ![c] = r]
      BY <1>1, <2>1
    <2>. QED
      BY <1>2, <1>4, <2>3, <2>4, <2>5, Moved DEF RemoveLookup
  <1>5. CASE RemoveDevice(c)
    <2>. DEFINE r == [ctl[c] EXCEPT !.pc = "resolve"]
    <2>1. r \in CtlRecord /\ Carries(r) /\ ctl' = [ctl EXCEPT ![c] = r]
      BY <1>1, <1>5 DEF RemoveDevice, To, At, CtlRecord, CtlPC, Carries
    <2>2. WgTypeOK'
      BY <1>1, <1>5, DeviceRemoveType DEF RemoveDevice, At, Carries, WgTypeOK
    <2>3. EtcdTypeOK'
      BY <1>1, <1>5 DEF RemoveDevice, etcdVars, EtcdTypeOK
    <2>. QED
      BY <2>1, <2>2, <2>3, Moved
  <1>6. CASE RemoveResolve(c)
    <2>1. PICK k \in Key, a \in Alias :
            ctl' = [ctl EXCEPT ![c].pc = "call", ![c].key = k, ![c].alias = a]
      BY <1>1, <1>6 DEF RemoveResolve, EtcdTypeOK
    <2>. DEFINE r == [ctl[c] EXCEPT !.pc = "call", !.key = k, !.alias = a]
    <2>2. ctl[c].pc = "resolve"
      BY <1>6 DEF RemoveResolve, At
    <2>3. r \in CtlRecord
      BY <1>1, <2>1 DEF CtlRecord, CtlPC
    <2>4. Carries(r)
      BY <1>1, <2>2 DEF CtlRecord, Carries
    <2>5. ctl' = [ctl EXCEPT ![c] = r]
      BY <1>1, <2>1
    <2>. QED
      BY <1>2, <1>6, <2>3, <2>4, <2>5, Moved DEF RemoveResolve
  <1>7. CASE RemoveCall(c)
    <2>. DEFINE r == [ctl[c] EXCEPT !.pc = "wait"]
    <2>1. r \in CtlRecord /\ Carries(r) /\ ctl' = [ctl EXCEPT ![c] = r]
      BY <1>1, <1>7 DEF RemoveCall, To, At, CtlRecord, CtlPC, Carries
    <2>. QED
      BY <1>2, <1>7, <2>1, Moved DEF RemoveCall
  <1>8. CASE RemoveAnswered(c)
    <2>. DEFINE r == [ctl[c] EXCEPT !.pc = "keys", !.acked = TRUE]
    <2>1. r \in CtlRecord /\ Carries(r) /\ ctl' = [ctl EXCEPT ![c] = r]
      BY <1>1, <1>8 DEF RemoveAnswered, At, CtlRecord, CtlPC, Carries
    <2>. QED
      BY <1>2, <1>8, <2>1, Moved DEF RemoveAnswered
  <1>9. CASE RemoveUnanswered(c)
    <2>. DEFINE r == [ctl[c] EXCEPT !.pc = "keys"]
    <2>1. r \in CtlRecord /\ Carries(r) /\ ctl' = [ctl EXCEPT ![c] = r]
      BY <1>1, <1>9 DEF RemoveUnanswered, To, CtlRecord, CtlPC, Carries
    <2>. QED
      BY <1>2, <1>9, <2>1, Moved DEF RemoveUnanswered
  <1>10. CASE RemoveKeys(c)
    <2>. DEFINE r == [ctl[c] EXCEPT !.pc = "alias"]
    <2>1. r \in CtlRecord /\ Carries(r) /\ ctl' = [ctl EXCEPT ![c] = r]
      BY <1>1, <1>10 DEF RemoveKeys, To, At, CtlRecord, CtlPC, Carries
    <2>2. EtcdTypeOK' /\ WgTypeOK'
      BY <1>1, <1>10, DeregisterType DEF RemoveKeys, At, Carries, WgTypeOK
    <2>. QED
      BY <2>1, <2>2, Moved
  <1>11. CASE RemoveAlias(c)
    <2>. DEFINE r == [ctl[c] EXCEPT !.pc = "removed"]
    <2>1. r \in CtlRecord /\ Carries(r) /\ ctl' = [ctl EXCEPT ![c] = r]
      BY <1>1, <1>11 DEF RemoveAlias, To, At, CtlRecord, CtlPC, Carries
    <2>2. EtcdTypeOK' /\ WgTypeOK'
      BY <1>1, <1>11, UnaliasType DEF RemoveAlias, At, Carries, WgTypeOK
    <2>. QED
      BY <2>1, <2>2, Moved
  <1>. QED
    BY <1>3, <1>4, <1>5, <1>6, <1>7, <1>8, <1>9, <1>10, <1>11

LEMMA StepTypes ==
    ASSUME CtlTypeOK, CarriesInv, NEW c \in Cmd, CtlStep(c) \/ RemoveCall(c) \/ RemoveAnswered(c)
    PROVE  CtlTypeOK' /\ CarriesInv'
  <1>1. CASE Abort(c)
    <2>1. EtcdTypeOK' /\ WgTypeOK' /\ ctl' = [ctl EXCEPT ![c] = CtlIdle]
      BY <1>1 DEF Abort, Exit, CtlTypeOK, etcdVars, EtcdTypeOK, WgTypeOK
    <2>. QED
      BY <2>1, IdleCarries, Moved
  <1>. QED
    BY <1>1, AddTypes, RemoveTypes DEF CtlStep

LEMMA InitTypes == CommandsInit => CtlTypeOK /\ CarriesInv
  BY IdleCarries
     DEF CommandsInit, EtcdInit, WgInit, CtlInit, CtlTypeOK, EtcdTypeOK, WgTypeOK, NoFields, CarriesInv

\* The plugin's steps, between those of the commands.
LEMMA PluginTypes ==
    ASSUME CtlTypeOK, CarriesInv, PluginActs
    PROVE  CtlTypeOK' /\ CarriesInv'
  <1>1. EtcdTypeOK /\ WgTypeOK /\ ctl \in [Cmd -> CtlRecord]
    BY DEF CtlTypeOK
  <1>2. ASSUME UNCHANGED ctl, EtcdTypeOK', WgTypeOK' PROVE CtlTypeOK' /\ CarriesInv'
    BY <1>1, <1>2 DEF CtlTypeOK, CarriesInv
  <1>3. CASE PluginPuts
    <2>1. PICK n \in Puts : PutFields(n.key, n.ops)
      BY <1>3 DEF PluginPuts
    <2>2. n.key \in Key /\ n.ops \in [Field -> Text \cup {None}]
      BY CommandAssumption
    <2>3. store' \in [Key -> [Field -> Text \cup {None}]]
      BY <1>1, <2>1, <2>2 DEF PutFields, EtcdTypeOK
    <2>. QED
      BY <1>1, <1>2, <1>3, <2>3 DEF PluginPuts, EtcdTypeOK, WgTypeOK
  <1>4. CASE PluginRestores
    <2>1. PICK n \in Puts : n.ops["wg"] \in IP /\ Configure(n.key, n.ops["wg"], FALSE)
      BY <1>4 DEF PluginRestores
    <2>2. n.key \in Key
      BY CommandAssumption
    <2>3. WgTypeOK'
      BY <1>1, <2>1, <2>2, SentinelAssumption DEF WgTypeOK, Configure, WithAddress, Without, WgPeer
    <2>. QED
      BY <1>1, <1>2, <1>4, <2>3 DEF PluginRestores, etcdVars, EtcdTypeOK
  <1>5. CASE PluginAnnounces
    <2>1. PICK n \in AliasPuts :
            \/ aliases' = [aliases EXCEPT ![n.alias] = n.key] /\ UNCHANGED peerAlias
            \/ peerAlias' = [peerAlias EXCEPT ![n.key] = n.alias] /\ UNCHANGED aliases
      BY <1>5 DEF PluginAnnounces
    <2>2. n.key \in Key /\ n.alias \in Alias
      BY CommandAssumption
    <2>3. EtcdTypeOK'
      BY <1>1, <1>5, <2>1, <2>2 DEF PluginAnnounces, EtcdTypeOK
    <2>. QED
      BY <1>1, <1>2, <1>5, <2>3 DEF PluginAnnounces, WgTypeOK
  <1>6. CASE PeerRoams
    <2>1. WgTypeOK'
      BY <1>1, <1>6 DEF PeerRoams, Roam, WgTypeOK, WgPeer
    <2>. QED
      BY <1>1, <1>2, <1>6, <2>1 DEF PeerRoams, etcdVars, EtcdTypeOK
  <1>7. CASE ServerStops
    <2>1. ctl' = [c \in Cmd |-> IF At(c, "wait") THEN [ctl[c] EXCEPT !.pc = "keys"] ELSE ctl[c]]
      BY <1>7 DEF ServerStops, Disconnect
    <2>2. ASSUME NEW c \in Cmd PROVE ctl'[c] \in CtlRecord /\ Carries(ctl'[c])
      <3>1. CASE At(c, "wait")
        <4>1. ctl'[c] = [ctl[c] EXCEPT !.pc = "keys"]
          BY <2>1, <3>1
        <4>. QED
          BY <1>1, <3>1, <4>1 DEF At, CtlRecord, CtlPC, CarriesInv, Carries
      <3>2. CASE ~At(c, "wait")
        BY <1>1, <2>1, <3>2 DEF CarriesInv
      <3>. QED
        BY <3>1, <3>2
    <2>3. EtcdTypeOK' /\ WgTypeOK'
      BY <1>1, <1>7 DEF ServerStops, etcdVars, EtcdTypeOK, WgTypeOK
    <2>. QED
      BY <2>1, <2>2, <2>3 DEF CtlTypeOK, CarriesInv
  <1>. QED
    BY <1>3, <1>4, <1>5, <1>6, <1>7 DEF PluginActs

LEMMA NextTypes == CtlTypeOK /\ CarriesInv /\ [CtlNext]_ctlVars => CtlTypeOK' /\ CarriesInv'
  <1>. SUFFICES ASSUME CtlTypeOK, CarriesInv, [CtlNext]_ctlVars PROVE CtlTypeOK' /\ CarriesInv'
    OBVIOUS
  <1>1. CASE UNCHANGED ctlVars
    BY <1>1 DEF ctlVars, CtlTypeOK, EtcdTypeOK, WgTypeOK, CarriesInv
  <1>2. CASE CtlNext
    BY <1>2, StepTypes, PluginTypes DEF CtlNext
  <1>. QED
    BY <1>1, <1>2

\* No lookup of valonctl hands on what it did not find, with any number of
\* administrators, commands that break off anywhere and a plugin beside them.
THEOREM CtlTypeCorrect == CtlSpec => []CtlTypeOK
  BY InitTypes, NextTypes, PTL DEF CtlSpec

-----------------------------------------------------------------------------
(* One administrator, beside the plugin                                       *)

\* What SameVictim says of one command.
OneVictim(r) == r.pc \in {"call", "wait", "keys", "alias"} => r.key = r.victim

Listed == ListedAliasResolves /\ AnnouncedInv

\* The command moves on with what it knows.
LEMMA MovedAlone ==
    ASSUME CtlTypeOK', CarriesInv', Listed', NEW c \in Cmd, Cmd = {c}, NEW r,
           ctl'[c] = r, AddOf(r), RemoveOf(r)', OneVictim(r)
    PROVE  AloneInv'
  BY DEF AloneInv, StandsInv, SameVictim, OneVictim, Listed, AddOf, RemoveOf

\* ... without having changed etcd.
LEMMA LookedUp ==
    ASSUME AloneInv, CtlTypeOK', CarriesInv', NEW c \in Cmd, Cmd = {c}, NEW r,
           ctl' = [ctl EXCEPT ![c] = r], UNCHANGED etcdVars,
           AddOf(r), RemoveOf(r), OneVictim(r)
    PROVE  AloneInv'
  <1>1. Listed'
    BY DEF AloneInv, Listed, etcdVars, ListedAliasResolves, AnnouncedInv
  <1>2. RemoveOf(r)'
    BY DEF RemoveOf, etcdVars
  <1>3. ctl'[c] = r
    BY DEF AloneInv, CtlTypeOK
  <1>. QED
    BY <1>1, <1>2, <1>3, MovedAlone

LEMMA IdleStands == AddOf(CtlIdle) /\ RemoveOf(CtlIdle) /\ OneVictim(CtlIdle)
  BY DEF AddOf, RemoveOf, OneVictim, CtlIdle

\* An alias in the index of a peer that is listed under it leads to the peer.
LEMMA ListedLeads ==
    ASSUME AloneInv, NEW k \in Key, peerAlias[k] # None
    PROVE  /\ peerAlias[k] \in Alias
           /\ aliases[peerAlias[k]] \in {None, k}
           /\ peerAlias[k] \in DdnsAliases \/ aliases[peerAlias[k]] = k
           /\ \A n \in AliasPuts : peerAlias[k] = n.alias => k = n.key
  BY DEF AloneInv, ListedAliasResolves, AnnouncedInv, CtlTypeOK, EtcdTypeOK

LEMMA AddLooksAlone ==
    ASSUME AloneInv, CtlTypeOK', CarriesInv', OwnAliases, NEW c \in Cmd, Cmd = {c},
           AddStart(c) \/ AddAllocate(c) \/ AddDevice(c) \/ AddRollback(c)
    PROVE  AloneInv'
  <1>1. ctl \in [Cmd -> CtlRecord] /\ AddOf(ctl[c])
    BY DEF AloneInv, CtlTypeOK, StandsInv
  <1>2. CASE AddStart(c)
    <2>1. PICK n \in Adds :
            ctl' = [ctl EXCEPT ![c] =
                      [CtlIdle EXCEPT !.pc = IF n.ip = None THEN "allocate" ELSE "device",
                                      !.key = n.key, !.ip = n.ip, !.alias = n.alias]]
      BY <1>2 DEF AddStart
    <2>. DEFINE r == [CtlIdle EXCEPT !.pc = IF n.ip = None THEN "allocate" ELSE "device",
                                     !.key = n.key, !.ip = n.ip, !.alias = n.alias]
    <2>2. r.pc \in {"allocate", "device"} /\ r.key = n.key /\ r.alias = n.alias
      BY DEF CtlIdle
    <2>3. AddOf(r) /\ RemoveOf(r) /\ OneVictim(r)
      BY <2>2 DEF AddOf, RemoveOf, OneVictim, OwnAliases
    <2>4. UNCHANGED etcdVars
      BY <1>2 DEF AddStart
    <2>. QED
      BY <2>1, <2>3, <2>4, LookedUp
  <1>3. CASE AddAllocate(c)
    <2>1. PICK ip \in IP : ctl' = [ctl EXCEPT ![c].pc = "device", ![c].ip = ip]
      BY <1>3 DEF AddAllocate
    <2>. DEFINE r == [ctl[c] EXCEPT !.pc = "device", !.ip = ip]
    <2>2. /\ ctl' = [ctl EXCEPT ![c] = r]
          /\ r.pc = "device" /\ r.key = ctl[c].key /\ r.alias = ctl[c].alias
          /\ ctl[c].pc = "allocate" /\ UNCHANGED etcdVars
      BY <1>1, <1>3, <2>1 DEF CtlRecord, AddAllocate, At
    <2>3. AddOf(r) /\ RemoveOf(r) /\ OneVictim(r)
      BY <1>1, <2>2 DEF AddOf, RemoveOf, OneVictim
    <2>. QED
      BY <2>2, <2>3, LookedUp
  <1>4. CASE AddDevice(c)
    <2>. DEFINE r == [ctl[c] EXCEPT !.pc = "register"]
    <2>1. /\ ctl' = [ctl EXCEPT ![c] = r]
          /\ r.pc = "register" /\ r.key = ctl[c].key /\ r.alias = ctl[c].alias
          /\ ctl[c].pc = "device" /\ UNCHANGED etcdVars
      BY <1>1, <1>4 DEF CtlRecord, AddDevice, At, To
    <2>2. AddOf(r) /\ RemoveOf(r) /\ OneVictim(r)
      BY <1>1, <2>1 DEF AddOf, RemoveOf, OneVictim
    <2>. QED
      BY <2>1, <2>2, LookedUp
  <1>5. CASE AddRollback(c)
    <2>1. ctl' = [ctl EXCEPT ![c] = CtlIdle] /\ UNCHANGED etcdVars
      BY <1>5 DEF AddRollback, Exit
    <2>. QED
      BY <2>1, IdleStands, LookedUp
  <1>. QED
    BY <1>2, <1>3, <1>4, <1>5

LEMMA RemoveLooksAlone ==
    ASSUME AloneInv, CtlTypeOK', CarriesInv', NEW c \in Cmd, Cmd = {c},
           \/ RemoveStart(c) \/ RemoveLookup(c) \/ RemoveDevice(c) \/ RemoveResolve(c)
           \/ RemoveCall(c) \/ RemoveAnswered(c) \/ RemoveUnanswered(c) \/ Abort(c)
    PROVE  AloneInv'
  <1>1. /\ ctl \in [Cmd -> CtlRecord] /\ Carries(ctl[c]) /\ RemoveOf(ctl[c]) /\ OneVictim(ctl[c])
        /\ EtcdTypeOK
    BY DEF AloneInv, CtlTypeOK, CarriesInv, StandsInv, SameVictim, OneVictim
  <1>2. CASE RemoveStart(c)
    <2>1. PICK t \in Targets :
            ctl' = [ctl EXCEPT ![c] = [CtlIdle EXCEPT !.pc = "lookup", !.target = t]]
      BY <1>2 DEF RemoveStart
    <2>. DEFINE r == [CtlIdle EXCEPT !.pc = "lookup", !.target = t]
    <2>2. AddOf(r) /\ RemoveOf(r) /\ OneVictim(r)
      BY DEF AddOf, RemoveOf, OneVictim, CtlIdle
    <2>. QED
      BY <1>2, <2>1, <2>2, LookedUp DEF RemoveStart
  <1>3. CASE RemoveLookup(c)
    <2>1. PICK k \in Key : /\ ctl[c].target \in {k, peerAlias[k]}
                           /\ ctl' = [ctl EXCEPT ![c].pc = "undevice", ![c].victim = k]
      BY <1>3 DEF RemoveLookup
    <2>2. ctl[c].target # None
      BY <1>1, <1>3, SentinelAssumption DEF RemoveLookup, At, Carries
    <2>. DEFINE r == [ctl[c] EXCEPT !.pc = "undevice", !.victim = k]
    <2>3. r.pc = "undevice" /\ r.victim = k /\ r.target = ctl[c].target
      BY <1>1 DEF CtlRecord
    <2>4. \/ ctl[c].target = k
          \/ /\ ctl[c].target \in Alias /\ aliases[ctl[c].target] \in {None, k}
             /\ \A n \in AliasPuts : ctl[c].target = n.alias => k = n.key
      BY <2>1, <2>2, ListedLeads
    <2>5. AddOf(r) /\ RemoveOf(r) /\ OneVictim(r)
      BY <2>3, <2>4 DEF AddOf, RemoveOf, OneVictim
    <2>6. ctl' = [ctl EXCEPT ![c] = r]
      BY <1>1, <2>1
    <2>. QED
      BY <1>3, <2>5, <2>6, LookedUp DEF RemoveLookup
  <1>4. CASE RemoveDevice(c)
    <2>. DEFINE r == [ctl[c] EXCEPT !.pc = "resolve"]
    <2>1. /\ ctl' = [ctl EXCEPT ![c] = r]
          /\ r.pc = "resolve" /\ r.target = ctl[c].target /\ r.victim = ctl[c].victim
          /\ ctl[c].pc = "undevice" /\ UNCHANGED etcdVars
      BY <1>1, <1>4 DEF CtlRecord, RemoveDevice, At, To
    <2>2. AddOf(r) /\ RemoveOf(r) /\ OneVictim(r)
      BY <1>1, <2>1 DEF AddOf, RemoveOf, OneVictim
    <2>. QED
      BY <2>1, <2>2, LookedUp
  <1>5. CASE RemoveResolve(c)
    <2>1. ctl[c].pc = "resolve" /\ ctl[c].victim \in Key
      BY <1>1, <1>5 DEF RemoveResolve, At, Carries
    <2>2. PICK k \in Key, a \in Alias :
            /\ ctl' = [ctl EXCEPT ![c].pc = "call", ![c].key = k, ![c].alias = a]
            /\ \/ ctl[c].target = k /\ peerAlias[k] = a
               \/ ctl[c].target = a /\ aliases[a] = k
      BY <1>1, <1>5 DEF RemoveResolve, EtcdTypeOK
    <2>3. \/ ctl[c].target = ctl[c].victim
          \/ ctl[c].target \in Alias /\ aliases[ctl[c].target] \in {None, ctl[c].victim}
      BY <1>1, <2>1 DEF RemoveOf
    <2>4. (a \in DdnsAliases \/ aliases[a] = k) /\ k = ctl[c].victim
      <3>1. CASE ctl[c].target = k /\ peerAlias[k] = a
        <4>1. a # None
          BY SentinelAssumption
        <4>2. a \in DdnsAliases \/ aliases[a] = k
          BY <3>1, <4>1, ListedLeads
        <4>3. ctl[c].target \notin Alias
          BY <3>1, CommandAssumption
        <4>. QED
          BY <2>3, <3>1, <4>2, <4>3
      <3>2. CASE ctl[c].target = a /\ aliases[a] = k
        <4>1. ctl[c].target # ctl[c].victim
          BY <2>1, <3>2, CommandAssumption
        <4>2. k # None
          BY SentinelAssumption
        <4>. QED
          BY <2>3, <3>2, <4>1, <4>2
      <3>. QED
        BY <2>2, <3>1, <3>2
    <2>. DEFINE r == [ctl[c] EXCEPT !.pc = "call", !.key = k, !.alias = a]
    <2>5. r.pc = "call" /\ r.key = k /\ r.alias = a /\ r.victim = ctl[c].victim
      BY <1>1 DEF CtlRecord
    <2>6. AddOf(r) /\ RemoveOf(r) /\ OneVictim(r)
      BY <2>4, <2>5 DEF AddOf, RemoveOf, OneVictim
    <2>7. ctl' = [ctl EXCEPT ![c] = r]
      BY <1>1, <2>2
    <2>. QED
      BY <1>5, <2>6, <2>7, LookedUp DEF RemoveResolve
  <1>6. ASSUME NEW pc \in {"wait", "keys"}, NEW acked \in BOOLEAN, ctl[c].pc \in {"call", "wait"},
               ctl' = [ctl EXCEPT ![c] = [ctl[c] EXCEPT !.pc = pc, !.acked = acked]],
               UNCHANGED etcdVars
        PROVE  AloneInv'
    <2>. DEFINE r == [ctl[c] EXCEPT !.pc = pc, !.acked = acked]
    <2>1. r.pc = pc /\ r.key = ctl[c].key /\ r.alias = ctl[c].alias /\ r.victim = ctl[c].victim
      BY <1>1 DEF CtlRecord
    <2>2. AddOf(r) /\ RemoveOf(r) /\ OneVictim(r)
      BY <1>1, <1>6, <2>1 DEF AddOf, RemoveOf, OneVictim
    <2>. QED
      BY <1>6, <2>2, LookedUp
  <1>7. CASE RemoveCall(c)
    <2>1. ctl[c].pc = "call" /\ UNCHANGED etcdVars
      BY <1>7 DEF RemoveCall, At
    <2>2. ctl' = [ctl EXCEPT ![c] = [ctl[c] EXCEPT !.pc = "wait", !.acked = ctl[c].acked]]
      BY <1>1, <1>7 DEF RemoveCall, To, CtlRecord
    <2>3. ctl[c].acked \in BOOLEAN
      BY <1>1 DEF CtlRecord
    <2>. QED
      BY <1>6, <2>1, <2>2, <2>3
  <1>8. CASE RemoveAnswered(c)
    <2>1. ctl[c].pc = "wait" /\ UNCHANGED etcdVars
      BY <1>8 DEF RemoveAnswered, At
    <2>2. ctl' = [ctl EXCEPT ![c] = [ctl[c] EXCEPT !.pc = "keys", !.acked = TRUE]]
      BY <1>1, <1>8 DEF RemoveAnswered, CtlRecord
    <2>. QED
      BY <1>6, <2>1, <2>2
  <1>9. CASE RemoveUnanswered(c)
    <2>1. ctl[c].pc \in {"call", "wait"} /\ UNCHANGED etcdVars
      BY <1>9 DEF RemoveUnanswered
    <2>2. ctl' = [ctl EXCEPT ![c] = [ctl[c] EXCEPT !.pc = "keys", !.acked = ctl[c].acked]]
      BY <1>1, <1>9 DEF RemoveUnanswered, To, CtlRecord
    <2>3. ctl[c].acked \in BOOLEAN
      BY <1>1 DEF CtlRecord
    <2>. QED
      BY <1>6, <2>1, <2>2, <2>3
  <1>10. CASE Abort(c)
    BY <1>10, IdleStands, LookedUp DEF Abort, Exit
  <1>. QED
    BY <1>2, <1>3, <1>4, <1>5, <1>7, <1>8, <1>9, <1>10

\* The transaction of peer add keeps what is stored consistent.
LEMMA RegisterKeeps ==
    ASSUME AloneInv, NEW c \in Cmd, At(c, "register"),
           RegisterFree(ctl[c].alias), Register(ctl[c].key, ctl[c].ip, ctl[c].alias)
    PROVE  Listed'
  <1>1. PICK key \in Key, alias \in Alias :
          /\ key = ctl[c].key /\ alias = ctl[c].alias
          /\ \A n \in AliasPuts : alias = n.alias => key = n.key
    BY DEF AloneInv, CarriesInv, StandsInv, At, Carries, AddOf
  <1>2. /\ aliases[alias] = None
        /\ peerAlias' = [peerAlias EXCEPT ![key] = alias]
        /\ aliases' = [aliases EXCEPT ![alias] = key]
    BY <1>1 DEF RegisterFree, Register
  <1>3. EtcdTypeOK /\ AnnouncedInv
    BY DEF AloneInv, CtlTypeOK
  <1>4. ASSUME NEW k \in Key, peerAlias'[k] # None
        PROVE  \/ aliases'[peerAlias'[k]] = k
               \/ peerAlias'[k] \in DdnsAliases /\ aliases'[peerAlias'[k]] = None
    <2>1. CASE k = key
      BY <1>1, <1>2, <1>3, <2>1 DEF EtcdTypeOK
    <2>2. CASE k # key
      <3>1. peerAlias'[k] = peerAlias[k] /\ peerAlias[k] \in Alias /\ peerAlias[k] # None
        BY <1>2, <1>3, <1>4, <2>2 DEF EtcdTypeOK
      <3>2. peerAlias[k] # alias
        BY <1>1, <1>2, <2>2, <3>1, SentinelAssumption, ListedLeads DEF DdnsAliases
      <3>3. \/ aliases[peerAlias[k]] = k
            \/ peerAlias[k] \in DdnsAliases /\ aliases[peerAlias[k]] = None
        BY <3>1, ListedLeads
      <3>. QED
        BY <1>2, <1>3, <3>1, <3>2, <3>3 DEF EtcdTypeOK
    <2>. QED
      BY <2>1, <2>2
  <1>5. ListedAliasResolves'
    BY <1>4 DEF ListedAliasResolves, DdnsAliases
  <1>6. AnnouncedInv'
    <2>1. ASSUME NEW n \in AliasPuts
          PROVE  /\ aliases'[n.alias] \in {None, n.key}
                 /\ \A k \in Key : peerAlias'[k] = n.alias => k = n.key
      <3>1. n.alias \in Alias
        BY CommandAssumption
      <3>. QED
        BY <1>1, <1>2, <1>3, <3>1 DEF AnnouncedInv, EtcdTypeOK
    <2>. QED
      BY <2>1 DEF AnnouncedInv
  <1>. QED
    BY <1>5, <1>6 DEF Listed

LEMMA RegisterAlone ==
    ASSUME AloneInv, CtlTypeOK', CarriesInv', NEW c \in Cmd, Cmd = {c},
           AddRegister(c) \/ AddRefused(c)
    PROVE  AloneInv'
  <1>1. ctl \in [Cmd -> CtlRecord] /\ At(c, "register")
    BY DEF AloneInv, CtlTypeOK, AddRegister, AddRefused
  <1>2. Listed'
    <2>1. CASE UNCHANGED etcdVars
      BY <2>1 DEF AloneInv, Listed, etcdVars, ListedAliasResolves, AnnouncedInv
    <2>2. CASE RegisterFree(ctl[c].alias) /\ Register(ctl[c].key, ctl[c].ip, ctl[c].alias)
      BY <1>1, <2>2, RegisterKeeps
    <2>. QED
      BY <2>1, <2>2 DEF AddRegister, AddRefused
  <1>3. ctl'[c] = CtlIdle \/ ctl'[c] = [ctl[c] EXCEPT !.pc = "rollback"]
    BY <1>1 DEF AddRegister, AddRefused, Exit, To
  <1>4. PICK r : r = ctl'[c]
    OBVIOUS
  <1>5. r.pc \in {"idle", "rollback"}
    BY <1>1, <1>3, <1>4 DEF CtlIdle, CtlRecord
  <1>6. AddOf(r) /\ RemoveOf(r)' /\ OneVictim(r)
    BY <1>5 DEF AddOf, RemoveOf, OneVictim
  <1>. QED
    BY <1>2, <1>4, <1>6, MovedAlone

LEMMA DeleteAlone ==
    ASSUME AloneInv, CtlTypeOK', CarriesInv', NEW c \in Cmd, Cmd = {c},
           RemoveKeys(c) \/ RemoveAlias(c)
    PROVE  AloneInv'
  <1>1. /\ ctl \in [Cmd -> CtlRecord] /\ Carries(ctl[c]) /\ RemoveOf(ctl[c]) /\ OneVictim(ctl[c])
        /\ EtcdTypeOK /\ ListedAliasResolves /\ AnnouncedInv
    BY DEF AloneInv, CtlTypeOK, CarriesInv, StandsInv, SameVictim, OneVictim
  <1>2. CASE RemoveKeys(c)
    <2>0. PICK r : r = [ctl[c] EXCEPT !.pc = "alias"]
      OBVIOUS
    <2>1. /\ ctl[c].pc = "keys" /\ ctl'[c] = r /\ Deregister(ctl[c].key)
          /\ ctl[c].key \in Key /\ ctl[c].alias \in Alias
      BY <1>1, <1>2, <2>0 DEF RemoveKeys, At, To, Carries
    <2>2. PICK key \in Key, alias \in Alias :
            /\ key = ctl[c].key /\ alias = ctl[c].alias
            /\ alias \in DdnsAliases \/ aliases[alias] = key
      BY <1>1, <2>1 DEF RemoveOf
    <2>3. peerAlias' = [peerAlias EXCEPT ![key] = None] /\ UNCHANGED aliases
      BY <2>1, <2>2 DEF Deregister, DeletePrefix
    <2>4. ListedAliasResolves'
      BY <1>1, <2>3 DEF ListedAliasResolves, EtcdTypeOK
    <2>5. AnnouncedInv'
      <3>1. \A n \in AliasPuts : n.alias # None
        BY CommandAssumption, SentinelAssumption
      <3>. QED
        BY <1>1, <2>3, <3>1 DEF AnnouncedInv, EtcdTypeOK
    <2>6. alias \in DdnsAliases \/ \A k \in Key : peerAlias'[k] # alias
      BY <1>1, <2>2, <2>3, SentinelAssumption DEF ListedAliasResolves, EtcdTypeOK
    <2>7. r.pc = "alias" /\ r.key = key /\ r.alias = alias /\ r.victim = ctl[c].victim
      BY <1>1, <2>0, <2>2 DEF CtlRecord
    <2>8. AddOf(r) /\ RemoveOf(r)' /\ OneVictim(r)
      BY <1>1, <2>1, <2>2, <2>6, <2>7 DEF AddOf, RemoveOf, OneVictim, DdnsAliases
    <2>. QED
      BY <2>1, <2>4, <2>5, <2>8, MovedAlone DEF Listed
  <1>3. CASE RemoveAlias(c)
    <2>0. PICK r : r = [ctl[c] EXCEPT !.pc = "removed"]
      OBVIOUS
    <2>1. ctl[c].pc = "alias" /\ ctl'[c] = r /\ Unalias(ctl[c].alias) /\ ctl[c].alias \in Alias
      BY <1>1, <1>3, <2>0 DEF RemoveAlias, At, To, Carries
    <2>2. ctl[c].alias \in DdnsAliases \/ \A k \in Key : peerAlias[k] # ctl[c].alias
      BY <1>1, <2>1 DEF RemoveOf
    <2>3. ListedAliasResolves'
      BY <1>1, <2>1, <2>2 DEF Unalias, ListedAliasResolves, DdnsAliases, EtcdTypeOK
    <2>4. AnnouncedInv'
      BY <1>1, <2>1, CommandAssumption DEF Unalias, AnnouncedInv, EtcdTypeOK
    <2>5. r.pc = "removed"
      BY <1>1, <2>0 DEF CtlRecord
    <2>6. AddOf(r) /\ RemoveOf(r)' /\ OneVictim(r)
      BY <2>5 DEF AddOf, RemoveOf, OneVictim
    <2>. QED
      BY <2>1, <2>3, <2>4, <2>6, MovedAlone DEF Listed
  <1>. QED
    BY <1>2, <1>3

\* The second Put of an announcement may list a peer under an alias that is gone,
\* the first may bring back an alias of a peer that is gone: neither leads to
\* another peer than the one that announced it.
LEMMA AnnouncesAlone ==
    ASSUME AloneInv, CtlTypeOK', CarriesInv', OwnAliases, PluginAnnounces
    PROVE  AloneInv'
  <1>1. EtcdTypeOK /\ ListedAliasResolves /\ AnnouncedInv /\ StandsInv /\ SameVictim
        /\ UNCHANGED ctl
    BY DEF AloneInv, CtlTypeOK, PluginAnnounces
  <1>2. PICK n \in AliasPuts :
          \/ aliases' = [aliases EXCEPT ![n.alias] = n.key] /\ UNCHANGED peerAlias
          \/ peerAlias' = [peerAlias EXCEPT ![n.key] = n.alias] /\ UNCHANGED aliases
    BY DEF PluginAnnounces
  <1>3. /\ n.key \in Key /\ n.alias \in Alias /\ n.alias # None /\ n.alias \in DdnsAliases
        /\ \A m \in AliasPuts : m.alias \in Alias /\ (m.alias = n.alias => m.key = n.key)
    BY CommandAssumption, SentinelAssumption DEF OwnAliases, DdnsAliases
  <1>4. CASE aliases' = [aliases EXCEPT ![n.alias] = n.key] /\ UNCHANGED peerAlias
    <2>1. \A a \in Alias : aliases'[a] = IF a = n.alias THEN n.key ELSE aliases[a]
      BY <1>1, <1>4 DEF EtcdTypeOK
    <2>2. ListedAliasResolves'
      BY <1>1, <1>4, <2>1 DEF ListedAliasResolves, DdnsAliases, AnnouncedInv, EtcdTypeOK
    <2>3. AnnouncedInv'
      BY <1>1, <1>3, <1>4, <2>1 DEF AnnouncedInv
    <2>4. ASSUME NEW c \in Cmd PROVE RemoveOf(ctl[c])'
      <3>1. RemoveOf(ctl[c]) /\ Carries(ctl[c])
        BY DEF AloneInv, StandsInv, CarriesInv
      <3>. QED
        BY <1>1, <1>3, <1>4, <2>1, <3>1 DEF RemoveOf, Carries, DdnsAliases
    <2>. QED
      BY <1>1, <2>2, <2>3, <2>4 DEF AloneInv, StandsInv, SameVictim, AddOf
  <1>5. CASE peerAlias' = [peerAlias EXCEPT ![n.key] = n.alias] /\ UNCHANGED aliases
    <2>1. \A k \in Key : peerAlias'[k] = IF k = n.key THEN n.alias ELSE peerAlias[k]
      BY <1>1, <1>5 DEF EtcdTypeOK
    <2>2. ListedAliasResolves'
      BY <1>1, <1>3, <1>5, <2>1 DEF ListedAliasResolves, DdnsAliases, AnnouncedInv
    <2>3. AnnouncedInv'
      BY <1>1, <1>3, <1>5, <2>1 DEF AnnouncedInv
    <2>4. ASSUME NEW c \in Cmd PROVE RemoveOf(ctl[c])'
      <3>1. RemoveOf(ctl[c])
        BY DEF AloneInv, StandsInv
      <3>. QED
        BY <1>1, <1>3, <1>5, <2>1, <3>1 DEF RemoveOf, DdnsAliases
    <2>. QED
      BY <1>1, <2>2, <2>3, <2>4 DEF AloneInv, StandsInv, SameVictim, AddOf
  <1>. QED
    BY <1>2, <1>4, <1>5

LEMMA PluginAlone ==
    ASSUME AloneInv, CtlTypeOK', CarriesInv', OwnAliases, PluginActs
    PROVE  AloneInv'
  <1>1. CASE PluginPuts \/ PluginRestores \/ PeerRoams
    <2>1. UNCHANGED <<peerAlias, aliases, ctl>>
      BY <1>1 DEF PluginPuts, PluginRestores, PeerRoams, etcdVars
    <2>. QED
      BY <2>1 DEF AloneInv, StandsInv, AddOf, RemoveOf, ListedAliasResolves, SameVictim, AnnouncedInv
  <1>2. CASE ServerStops
    <2>1. /\ ctl' = [c \in Cmd |-> IF At(c, "wait") THEN [ctl[c] EXCEPT !.pc = "keys"] ELSE ctl[c]]
          /\ UNCHANGED <<peerAlias, aliases>> /\ ctl \in [Cmd -> CtlRecord]
      BY <1>2 DEF ServerStops, Disconnect, etcdVars, AloneInv, CtlTypeOK
    <2>2. ASSUME NEW c \in Cmd PROVE AddOf(ctl'[c]) /\ RemoveOf(ctl'[c]) /\ OneVictim(ctl'[c])
      <3>1. AddOf(ctl[c]) /\ RemoveOf(ctl[c]) /\ OneVictim(ctl[c])
        BY DEF AloneInv, StandsInv, SameVictim, OneVictim
      <3>2. CASE ctl[c].pc = "wait"
        <4>0. PICK r : r = ctl'[c]
          OBVIOUS
        <4>1. /\ r.pc = "keys" /\ r.key = ctl[c].key /\ r.alias = ctl[c].alias
              /\ r.victim = ctl[c].victim
          BY <2>1, <3>2, <4>0 DEF At, CtlRecord
        <4>2. AddOf(r) /\ RemoveOf(r) /\ OneVictim(r)
          BY <3>1, <3>2, <4>1 DEF AddOf, RemoveOf, OneVictim
        <4>. QED
          BY <4>0, <4>2
      <3>3. CASE ctl[c].pc # "wait"
        <4>1. ctl'[c] = ctl[c]
          BY <2>1, <3>3 DEF At
        <4>. QED
          BY <3>1, <4>1
      <3>. QED
        BY <3>2, <3>3
    <2>3. StandsInv' /\ SameVictim'
      BY <2>1, <2>2 DEF StandsInv, SameVictim, OneVictim, AddOf, RemoveOf
    <2>4. ListedAliasResolves' /\ AnnouncedInv'
      BY <2>1 DEF AloneInv, ListedAliasResolves, AnnouncedInv
    <2>. QED
      BY <2>3, <2>4 DEF AloneInv
  <1>. QED
    BY <1>1, <1>2, AnnouncesAlone DEF PluginActs

LEMMA InitAlone == CommandsInit => AloneInv
  <1>. SUFFICES ASSUME CommandsInit PROVE AloneInv
    OBVIOUS
  <1>1. CtlTypeOK /\ CarriesInv
    BY InitTypes
  <1>2. StandsInv /\ SameVictim
    BY DEF CommandsInit, CtlInit, CtlIdle, StandsInv, AddOf, RemoveOf, SameVictim
  <1>3. ListedAliasResolves /\ AnnouncedInv
    BY CommandAssumption, SentinelAssumption
       DEF CommandsInit, EtcdInit, ListedAliasResolves, AnnouncedInv
  <1>. QED
    BY <1>1, <1>2, <1>3 DEF AloneInv

LEMMA NextAlone == OneTerminal /\ OwnAliases /\ AloneInv /\ [CtlNext]_ctlVars => AloneInv'
  <1>. SUFFICES ASSUME OneTerminal, OwnAliases, AloneInv, [CtlNext]_ctlVars PROVE AloneInv'
    OBVIOUS
  <1>1. CtlTypeOK' /\ CarriesInv'
    BY NextTypes DEF AloneInv
  <1>2. CASE UNCHANGED ctlVars
    BY <1>1, <1>2 DEF ctlVars, AloneInv, StandsInv, AddOf, RemoveOf, SameVictim,
       ListedAliasResolves, AnnouncedInv
  <1>3. ASSUME NEW c \in Cmd, CtlStep(c) \/ RemoveCall(c) \/ RemoveAnswered(c) PROVE AloneInv'
    <2>1. Cmd = {c}
      BY DEF OneTerminal
    <2>. QED
      BY <1>1, <1>3, <2>1, AddLooksAlone, RemoveLooksAlone, RegisterAlone, DeleteAlone DEF CtlStep
  <1>. QED
    BY <1>1, <1>2, <1>3, PluginAlone DEF CtlNext

\* The invariant holds as long as one administrator runs one command at a time,
\* each of which may break off anywhere, and peers announce aliases of their own,
\* whatever the plugin does meanwhile.
THEOREM AloneInvariant == ASSUME OneTerminal, OwnAliases PROVE CtlSpec => []AloneInv
  <1>1. AloneInv /\ [CtlNext]_ctlVars => AloneInv'
    BY NextAlone
  <1>. QED
    BY <1>1, InitAlone, PTL DEF CtlSpec

\* peer remove takes off the device the peer that it deletes from etcd, though
\* ListPeers and RemovePeer look an alias up in different places, and the plugin
\* puts aliases in both.
THEOREM RemovesOneVictim == ASSUME OneTerminal, OwnAliases PROVE CtlSpec => []SameVictim
  <1>1. AloneInv => SameVictim
    BY DEF AloneInv
  <1>. QED
    BY <1>1, AloneInvariant, PTL

\* Commands cut short leave no peer listed under an alias that leads elsewhere, or
\* nowhere if the peer does not announce it.
THEOREM AliasesResolve == ASSUME OneTerminal, OwnAliases PROVE CtlSpec => []ListedAliasResolves
  <1>1. AloneInv => ListedAliasResolves
    BY DEF AloneInv
  <1>. QED
    BY <1>1, AloneInvariant, PTL

-----------------------------------------------------------------------------
(* What peer add allocates                                                    *)

LEMMA NetworkIp == \E length \in Nat : DOMAIN Network.ip = 1 .. length /\ Len(Network.ip) = length
  <1>1. Network.ip \in Seq(0 .. Size - 1)
    BY CommandAssumption
  <1>. QED
    BY <1>1

\* Whatever wireguard.network of the configuration is, and whatever is registered:
\* AllocateIP answers the lowest host address that no registered peer has.
THEOREM AllocatesTheLowestFree == CtlSpec => []AllocationExact
  <1>1. AllocationExact
    <2>1. PICK length \in Nat : DOMAIN Network.ip = 1 .. length /\ Len(Network.ip) = length
      BY NetworkIp
    <2> DEFINE A == [DOMAIN Network.ip -> 0 .. Size - 1]
               width == Bits * Len(Network.ip)
               Net == {n \in [ip : A, ones : 1 .. width] : Number(n.ip) % Two[width - n.ones] = 0}
    <2>2. A = Address(length) /\ width = Bits * length
      BY <2>1 DEF Address
    <2>3. ASSUME NEW net \in Net, NEW ip \in A
          PROVE  Allocated(net, UsedIPs, ip) <=> Lowest(net, UsedIPs, ip)
      <3>1. net.ip \in Address(length) /\ net.ones \in 1 .. Bits * length
        BY <2>2
      <3>2. Number(net.ip) % Two[Bits * length - net.ones] = 0
        BY <2>2
      <3>3. IsNetwork(net, length) /\ ip \in Address(length)
        BY <2>2, <3>1, <3>2 DEF IsNetwork
      <3>. HIDE DEF Net, A, width
      <3>. QED
        BY <2>1, <3>3, AllocatesLowest
    <2>. QED
      BY <2>3, Zenon DEF AllocationExact
  <1>. QED
    BY <1>1, PTL
=============================================================================
