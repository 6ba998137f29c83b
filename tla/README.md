# VALON: a TLA+ model, its model checking and its proofs

VALON keeps a WireGuard overlay network findable. One host, *Discovery*, runs
CoreDNS with the `valon` plugin next to the WireGuard hub interface and an etcd
server. Peers announce their LAN endpoint to the plugin, the plugin observes
their NAT endpoint on the WireGuard device, and both are served over DNS and kept
in etcd. An administrator on the Discovery host adds and removes peers with
`valonctl`, which changes the device and etcd directly, behind the plugin's back.

Line references are to the repository's files; `PROJECT.json` maps every
definition to the lines it stands for.

## 1. The system

| Component | State | Operations | Talks to |
|---|---|---|---|
| Peer cache (`cache.go`) | map key -> pointer to PeerInfo (address, two endpoints, dirty flag), RWMutex | Get, Set, Update, GetAll, Delete | shared by all goroutines of the plugin; Get and GetAll hand out pointers that are used after the lock is released |
| etcd sync (`etcd_sync.go`) | its place in the loop | every 10 s: snapshot, write the dirty peers, "clear" the flag | cache, etcd |
| WireGuard monitor (`wg_monitor.go`) | its place in the loop | every 1 s: read the device, load unknown peers from etcd, update address and NAT endpoint | device, cache, etcd |
| Initialization (`valon.go`) | - | load the cache from etcd, put missing peers back on the device, register Discovery itself, start the goroutines | all |
| DDNS API (`ddns.go`) | requests in progress | update an endpoint and an alias; delete a peer | cache, etcd; one goroutine per request |
| DNS handler (`handler.go`) | queries in progress | A, SRV and service discovery answers | cache, etcd (read only) |
| valonctl (`peer_add.go`, `peer_remove.go`, `pkg/client`) | one command's variables | allocate an address, configure the device, register in etcd, roll back; look a peer up, take it off the device, ask the plugin to drop it, delete it in etcd | device, etcd, DDNS API |
| valon-sync (client script) | - | announce the own endpoint, choose the peers' endpoints | DDNS API, DNS, the peer's own device |

What is hard here, and hard to test:

- **Interleaving.** Two loops and any number of requests work on shared entries,
  through pointers that outlive the lock, while `valonctl` changes the device and etcd.
- **Stale state.** One dirty flag decides whether a change survives a restart. The
  sync writes what a snapshot held, a load puts back what etcd held.
- **Crashes and partial failure.** The process stops anywhere; Init tolerates an
  etcd or a device that does not answer; a transaction reported as failed may have
  been applied; a command is interrupted between two servers.
- **Delivery.** The DELETE request of a removal may be lost or late.
- **Order.** Removal works on device, cache and etcd one after the other, against
  goroutines that copy from each of them to the next.

What makes each component correct is stated in section 3. `PROJECT.json` lists every hazard with its line and its properties.

## 2. Modules

    PeerData                    constants, the record of a peer, assumptions
      PeerMap                   the cache as its callers see it
        MapProofs               lemmas about the calls of PeerMap and Etcd
        PeerCache               cache.go with heap objects; refines PeerMap
          CacheInv              inductive invariant of PeerCache
            PeerCacheProofs     the refinement, proved
      Etcd        (external)    the three kinds of keys VALON keeps in etcd
        DnsHandler              handler.go: one query against changing data   (PeerMap, Etcd)
          DnsInv                inductive invariants of DnsHandler
            DnsProofs           what is served was held, what was held is served
      WireGuard   (external)    the device, with cryptokey routing
        EtcdSync                the sync goroutine         (PeerMap, Etcd)
        WgMonitor               the monitor goroutine      (PeerMap, Etcd, WireGuard)
        DdnsApi                 the HTTP handlers          (PeerMap, Etcd)
        Startup                 Init                       (PeerMap, Etcd, WireGuard)
        AdminCalls              valonctl's calls, each atomic in its server
          ValonPlugin           all of them composed, with crashes
            PluginInv           inductive invariants of ValonPlugin
              PluginProofs      theorems and proofs
            PluginClaims        what comments say and the code does not do
          ValonCtl              peer add and peer remove, call by call, the plugin
                                beside them                 (AdminCalls, IPAlloc)
            CtlInv              inductive invariants of ValonCtl
              CtlProofs         theorems and proofs         (AllocProofs)
          ValonSystem           ValonPlugin and ValonCtl composed
            SystemProofs        that it implements both, proved
      PeerKeys                  etcd's keys as texts; refines Etcd's tables
        KeysProofs              the refinement and the readers, proved
    IPAlloc                     the arithmetic of AllocateIP
      AllocProofs               that it finds the lowest free address
    MCPlugin, MCCtl, MCSystem, MCPeerCache, MCDns, MCKeys   instances for the model checker

**State and code.** `cache` is `PeerCache.peers`; `copy` is the part of the map
`GetAll` returned to `syncToEtcd` that its loop has still to visit. An entry of
`copy` is `Live` while the cache still holds the same object and otherwise the
object's last content: only `Update` writes through a pointer, and it goes through
the map. `writing` is an `Update` whose function is under way: `BeginUpdate` and
`EndUpdate` are two steps because readers with a pointer do not take the lock and may
see it halfway. `PeerCache` has the objects and pointers themselves and justifies
all this. `sync`, `poll`, `ddns` and `phase`/`restore` are the program counters
and local variables of the two loops, of the requests and of `Init`; `seen` is the
part of the device's peer list `pollWireGuard` has still to process. `store`,
`peerAlias` and `aliases` are the keys `/valon/peers/<key>/...`,
`/valon/peers/<key>/alias` and `/valon/aliases/<alias>`; `wg` is the device. `ctl` is
each terminal's command, with the variables it carries from call to call.

In `DnsHandler`, `query` is a query's place in `handler.go` with its local variables, and
`answer` the records put into its message so far. A name is what it decodes to: a public key,
an alias, or an alias that base32 happens to decode. The pointer that `Get` or `GetAll` gave is in
`copy`. `held` and `led` are auxiliary: every text the fields asked for could be read as, and
every key the alias led to, from the arrival of the query on. The properties compare the answer with them; no
step depends on them. All the rest of the system is `Change`, `FinishUpdate` and `ChangeAlias`,
which do to the cache and to the index whatever their interfaces allow. That is more than the
plugin and the administrators ever do.

`PeerKeys` takes etcd as it is, a map from texts to values. A text is a sequence of tokens,
and a public key a sequence of tokens with `/` among them that ends with its only `=`. It has the
two ways of composing a key (`path.Join`, `Sprintf`) and the four ways of parsing
one (`loadFromEtcd`, `loadPeerFromEtcd`, `ListPeers`, `getAllUsedIPs`); the other modules see
its tables, `Rows`, `PeerAliases` and `AliasIndex`. In `IPAlloc` an address is a
sequence of bytes of `Bits` bits, `Visited` the values of the loop variable of `AllocateIP`,
and `Allocated` the loop. `Lowest`, on numbers, is what it is to compute. A power of two is
the recursive function `Two`, about which something can be proved.

`ValonCtl` has the plugin as its environment, since both write to the same keys and device: `PluginActs` lets
it put any row of `Puts` (Discovery's own, an address seen on the device, a peer written back after a
removal), put the two texts of any announcement of `AliasPuts`, restore peers, stop, and lets peers roam, whenever and
for whatever reason. `ValonPlugin` has the administrators as its environment in the same way
(`AdminDevice`, `AdminEtcd`, `Deleting`). `ValonSystem` composes the two programs themselves and is shown to
implement both (`ImplementsPlugin`, `ImplementsCommands`).

**Actions.** A loop body is cut where another actor can come between: at each lock,
each etcd request, each device call, and each unlocked read of a shared field.
Errors that only log and continue, refused or malformed requests, and failing device
reads at a tick change nothing and are stuttering steps. `SyncFail` and
`AddRefused` may or may not have had their effect: a deadline says nothing about it.
`Restart` stops the process at any step. A request to etcd that was in flight then
is either applied before the crash or lost; one that etcd applies after the crash, or after its client was
told that it failed, is not covered (`SyncFail` and `AddRefused` apply it at once or never).

**Data.** Keys, addresses, endpoints and aliases are model values. `Empty` is the
empty string, which the code tests everywhere; the update request's `"0.0.0.0:0"`
is `Empty` too, since the handler treats the two alike. `Torn` is what a string
yields that is read in the middle of its assignment (two words, address and length);
it is nobody's text and does not parse as an address. `LastHandshake`, `UpdatedAt`
and `PubKey` are left out: the first two are never read, the third repeats the map key.

**Named bounds.** `Requests`, `Assignments` and `Removals` are the requests peers
send, the additions and the removals administrators make; `Adds` and `Targets` are the same as
arguments of the two commands; `Req` and `Cmd` are the
requests and commands in progress at a time. `Puts` and `AliasPuts` are what the commands' environment may write. `Infos` is what the cache's entries may be
given (in `PeerCache` and `DnsHandler`), `Network` the network addresses are allocated from
and `Bits` the width of a byte. `Base32`, `Named` and `IPv6` say which aliases decode, and which endpoints have
a name or an IPv6 address for a host. There are no counters.

**Deliberately wrong versions.** Next to some definitions stands a variant with a
plausible mistake (`AfterUpdateUnmarked`, `DdnsUpsert`, `UseTwice`, ...). No
specification uses them: substituting one for the definition it precedes makes the
property `PROJECT.json` lists with it fail, which shows that the property has teeth.

## 3. What is checked

| Run | Instance | States | Shows |
|---|---|---|---|
| `PluginSafety` | Discovery and one peer, added and removed, two requests (updates or deletions) in progress, crashes and reboots | 358 k | `TypeOK`, `LoadFillsHole`, `GoneStaysGone` |
| `PluginOverlap` | one peer with two LAN endpoints and an alias, two overlapping requests, crashes and reboots, no removals | 924 k | `CleanMeansStored`, `LanOnlyAnnounced` |
| `PluginLive` | one request at a time, one LAN endpoint, crashes and reboots, no removals, fair | 31 k | `EndpointReachesEtcd`, `AddedPeerIsLearned` |
| `PluginObserve` | one NAT endpoint, no requests, fair | 7 k | `EndpointReachesEtcd` |
| `PeerCache` | two keys, three objects, two contents | 213 k | `LoadsAreReads`, `NoSharing`, and that the cache implements `PeerMap` |
| `CtlAlone` | one terminal, two peers, one of which announces an alias, another alias, a network with two host addresses, one of them Discovery's; a plugin that writes Discovery's row and the one peer's at any time | 198 k | `ListedAliasResolves`, `SameVictim`, `AllocationExact` |
| `System` | plugin and one terminal, one peer | 180 k | `ImplementsPlugin`, `ImplementsCommands` |
| `DnsHandler` | Discovery and one peer, whose entry has one of three contents, two aliases, one of which decodes, fair | 376 k | `ServedWasHeld`, `AnswerComplete`, `PairedSrv`, `QueryAnswered` |
| `PeerKeys` | two public keys with the same beginning, with `/` in the middle and before the end, two aliases | 5 k | `ReadersAgree`, `ImplementsEtcd` |

The properties, in words:

- `CleanMeansStored`: an entry without the dirty flag holds no endpoint that differs
  from the one in etcd; for a peer that is removed, etcd may have none. The sync skips clean entries, so
  a clean entry that differed would be lost at the next restart. Loads make clean
  entries, everything else makes dirty ones; the interesting cases are a load and the
  Update that follows it, and a sync that still writes from an object the cache has
  let go of.
- `LoadFillsHole`: from the monitor's lookup that misses to its `Set`, nobody else
  creates the entry, so that a load never overwrites an announcement. True because
  no handler creates entries; a DDNS handler that did would break it.
- `LanOnlyAnnounced`: while the plugin runs, the LAN endpoint of a peer that stays
  cached changes only to what a request for that peer announced.
- `GoneStaysGone`: once neither server, the cache nor anything in flight knows a
  peer, only an administrator or a request of Discovery's own brings it back.
- `EndpointReachesEtcd`, `AddedPeerIsLearned`: see section 4.
- `ListedAliasResolves`, `SameVictim`: with one administrator, whatever commands were cut short before and
  whatever the plugin writes between their calls. In turn: an alias that a peer is listed under leads to
  that peer, or to nothing if it is one that peers announce over the DDNS API (its two Puts are separate, and the
  second may come after a removal); `peer remove` deletes from etcd the peer it took off the device. An alias in the
  index that no peer is listed under is not forbidden: removals do leave such aliases (see below).
- `AllocationExact`: the address chosen is the lowest host address that etcd does not have in
  use, in numbers; `IPAlloc` computes it with bytes, masks and carries.
- `ServedWasHeld`: a text in an answer is one that the field of that peer held while the
  query ran (a torn one only if an Update overlapped it), and a CNAME leads to a key its alias led to.
- `AnswerComplete`: the other direction. An endpoint or address the peer had, in a form the query can
  use, all the time a query took is in its answer; a peer cached all the time is listed.
- `PairedSrv`: an SRV record and the A record beside it come from one reading of the endpoint.
- `QueryAnswered`: every query is answered, whether etcd answers or not.
- `ImplementsEtcd`: what each request does to the texts is what `Etcd` and `AdminCalls` say it does
  to their tables: the two ways of composing a key meet, and a deletion by prefix takes all of one
  peer and nothing of another whose key begins like it.
- `ReadersAgree`: the four readers find the same peers, fields and values, namely those
  written. `ListPeers` does so only of the peers whose public key has neither `/ip` nor `/endpoint` in it.
- `ImplementsPlugin`: every step of the commands, with the plugin's answers lost or
  late, is one ValonPlugin already allows; all safety proved of `Spec` holds of the
  composed system (for the assignments and removals that contain the commands').
- `ImplementsCommands`: every step of the plugin is one `ValonCtl` allows its environment. In
  particular no handler or loop deletes anything in etcd or takes a peer off the device, on which the
  properties of the commands rest. `System` sends no announcements, to keep the run small; the proof covers them.

**Why these bounds.** Every property but `NoSharing` and the ones of `ValonCtl` is
about one key at a time, and the code treats keys independently, so one peer beside
Discovery (whose own entry is made and restored differently) shows the interleavings.
Two LAN endpoints and `Empty` are announcements that differ from each other and from what
etcd still has; two requests are enough for one to come between the two steps of the other,
and for a deletion to overtake an update. `PluginSafety` needs both of its requests for
that, and leaves the endpoints out: removals and endpoints together are past 5 M states.
The proofs cover that combination. `CtlAlone` has two peers, aliases
and addresses, so that commands can collide, with each other and with what the plugin writes; one of its adds
names the alias the peer announces itself, as the configuration files of README.md:439 do. Its network has three bytes of one bit and a mask
of one, so that the scan carries over two bytes, meets the network, the broadcast and Discovery's
address, and can fail for want of a free one. `DnsHandler` has one query at a time, since queries
change nothing: others would only be more readers. The contents its entries take have each field
present and missing, with a host that is a name, an IPv4 or an IPv6 address. The keys of `PeerKeys` have `/` in
each place but the ones where the run `ClaimKeys` shows that things go wrong. What bounds cannot show, the proofs of
section 5 do.

**Disagreements.** Three runs show a comment or help text the code contradicts; each
checks one property and ends in a counterexample:

| Run | Text | What happens |
|---|---|---|
| `ClaimKeys` | `etcd.go:106` "Use base64 pubkey directly as etcd key" | `path.Join` cleans a public key that begins with `/` or contains `//`: the plugin never finds the peer under its key |
| `ClaimOffline` | `ddns.go:95` "Offline: remove LAN endpoint" | empty fields are never written, so etcd keeps the endpoint and a restart brings it back |
| `ClaimRemoved` | `peer_remove.go:21` "Deletes the peer registration from etcd" | a sync transaction that was under way commits after the deletion |

Other disagreements met while modelling have no run; the models contain the steps:

- `etcd_sync.go:46` "Clear dirty flag after successful sync": `Update` sets the flag again after
  the function that cleared it, so every peer is rewritten on every tick. (Clearing it plainly would lose updates
  that come between the transaction and the clearing: `CleanMeansStored` would fail.)
- `cache.go:19` "thread-safe": fields are read through pointers without the lock, and a torn string may
  reach etcd or a DNS answer (`Torn`).
- `ddns.go:142` "deletes alias from etcd": the key deleted is named after the public key, not the alias.
- `valon.go:89` "peers will be re-added on next sync": no sync touches the device, so a
  peer `BootNoRestore` passes over stays off it until the next restart or `peer add`.
- `peer_add.go:90` "Rollback": a refused second add of a registered peer takes that peer
  off the device (`AddRollback`).
- `etcd.go:211` "removes a peer from etcd": a second alias of the peer stays in the index
  (`RemoveAlias` deletes the one it resolved).
- `etcd.go:134` "next available IP address": nothing is reserved before registration, and `AllocateIP` asks only
  etcd, so an address may be registered twice, and the device then routes it to the peer that was given it
  last. Two terminals can be given one address. One terminal is enough in two ways, both in the graph
  of `CtlAlone`. First, `README.md:215` gives the first peer the second address of the network; before Discovery's
  first sync etcd does not know Discovery's own, the allocation gives it to the first peer, and `registerSelf`
  (`valon.go:249`) with the sync registers it for Discovery too. Second, a peer registered with address A is added again,
  is allocated B and set up on the device, and the command is cut short; the monitor copies B into the cache
  (`wg_monitor.go:91`); an add of another peer is given B, since etcd still has A for the first; the sync then
  writes B for the first. Hence no property says that addresses are unique or that each is routed to the peer
  that is registered with it.
- `handler.go:77` tries base32 first: an alias that happens to decode (`Base32`, "alice" for
  one) is taken for a public key and never looked up. An alias with capital letters is stored as typed,
  while names of queries are in lower case; spelling is not modelled.
- `handler.go`: an endpoint with an IPv6 host gives an A record with no address (`Rdata`), and a port past
  65535 wraps; ports are not modelled.

## 4. Fairness

`FairSpec` assumes of the code only what its scheduling gives. Goroutines are
scheduled and tickers keep ticking. Steps that need the cache's lock are enabled only
now and then, and get their turn because Go's RWMutex starves neither readers nor
writers: strong fairness. etcd is assumed to answer a request that is repeated for
ever (strong fairness of the commit and of the load, per key). A request in
progress goes on. Nothing is assumed of administrators, of peers or of crashes: the
properties speak of what stays true from some time on (`<>[]`), which already says
that crashes stop.

`DnsFairSpec` is the same for a query: strong fairness for the two steps that take the cache's lock,
weak fairness for the others and for the end of an Update that is under way. Of etcd it assumes nothing:
`lookupAlias` has a deadline of one second, which makes `AliasNotFound` possible at any
time, and fair.

The liveness instances of the plugin have no removals, to keep their graphs small: with them
only the safety properties are checked.

## 5. What is proved

For every set of keys, addresses, endpoints and aliases, any contents of entries, any number of requests in progress,
and any requests, additions and removals:

| Module | Theorem | Statement |
|---|---|---|
| `PluginProofs` | `TypeCorrect` | `Spec => []TypeOK` |
| | `LoadsOnlyFillHoles` | `Spec => []LoadFillsHole` |
| | `InvHolds` | `Spec => []IInv`, the inductive invariant |
| | `CleanIsStored` | `Spec => []CleanMeansStored` |
| | `LanIsAnnounced` | `Spec => LanOnlyAnnounced` |
| | `GoneForGood` | `Spec => GoneStaysGone` |
| `PeerCacheProofs` | `PeerCacheTypeCorrect` | `Spec => []TypeOK` |
| | `NoObjectIsShared` | `Spec => []NoSharing` |
| | `LoadsAreCovered` | `Spec => []LoadsAreReads` |
| | `CacheImplementsMap` | `Spec => ImplementsPeerMap` |
| `DnsProofs` | `DnsInvariant` | `DnsSpec => []DnsIInv`, the inductive invariant |
| | `DnsTypeCorrect` | `DnsSpec => []DnsTypeOK` |
| | `ServesWhatWasHeld` | `DnsSpec => []ServedWasHeld` |
| | `SrvIsPaired` | `DnsSpec => []PairedSrv` |
| | `AnswersAreComplete` | `DnsSpec => []AnswerComplete` |
| `CtlProofs` | `CtlTypeCorrect` | `CtlSpec => []CtlTypeOK`, for any number of terminals |
| | `AloneInvariant` | `CtlSpec => []AloneInv`, under `OneTerminal` and `OwnAliases`, as the next two |
| | `AliasesResolve`, `RemovesOneVictim` | `[]ListedAliasResolves`, `[]SameVictim` |
| | `AllocatesTheLowestFree` | `CtlSpec => []AllocationExact`, for any number of terminals |
| `AllocProofs` | `AllocatesLowest` | `Allocated(net, used, ip) <=> Lowest(net, used, ip)` |
| `KeysProofs` | `TextsAreTables` | `KeysSpec => ImplementsEtcd`, under `PlainKeys`, as the next two |
| | `ReadersAgreeAlways` | `KeysSpec => []ReadersAgree`, under `NoFieldWords` too |
| | `PlainIsLoaded` | `KeysSpec => RegisteredIsLoaded` |
| `SystemProofs` | `SystemIsPlugin` | `SysSpec => ImplementsPlugin`, under `WholeScope` |
| | `CleanIsStoredInSystem`, `LoadsOnlyFillHolesInSystem` | `SysSpec => []CleanMeansStored`, `[]LoadFillsHole`, under `WholeScope` |
| | `LanIsAnnouncedInSystem`, `GoneForGoodInSystem` | `SysSpec => LanOnlyAnnounced`, `GoneStaysGone`, under `WholeScope` |
| | `SystemIsCommands` | `SysSpec => ImplementsCommands`, under `WholeScope` and `WholeEnvironment` |
| | `AliasesResolveInSystem`, `RemovesOneVictimInSystem` | `SysSpec => []ListedAliasResolves`, `[]SameVictim`, under all four |
| | `AllocatesTheLowestFreeInSystem` | `SysSpec => []AllocationExact`, under `WholeScope` and `WholeEnvironment` |

They rest on the modules' assumptions about constants: `SelfAssumption` (Discovery's key and
address are a key and an address), `SentinelAssumption` (`None`, `Live` and `Empty` are not data),
`ScopeAssumption` and `CommandAssumption` (requests and commands are well-typed), `InfosAssumption` and
`DnsAssumption` (entries' contents are well-typed, keys are no aliases), `BitsAssumption` (a byte has bits),
`KeyTextAssumption` (a public key is a text that ends with its only `=`, an alias is not `/`). The
six hypotheses that are not assumptions are named where they are used:

- `OneTerminal`: one command at a time. What it adds or removes is free: addresses may be given, Discovery's own
  included, and Discovery itself added and removed.
- `OwnAliases`: an alias that is announced over the DDNS API belongs to one peer; no other announces it and no other is
  added with it. The handler does not check this (`ddns.go:122` puts unconditionally), so it is a rule for
  whoever names peers. The client configurations of README.md:439 to 464 keep it.
- `WholeScope`: the plugin's specification allows any addition of a typed row and any removal.
- `WholeEnvironment`: the commands' specification lets the plugin write any typed fields and announce the aliases of the
  requests that are sent. Like `WholeScope` it says that an environment is not too small.
- `PlainKeys`: no public key begins with `/` or has two in a row. About one key in forty breaks it,
  and `ClaimKeys` shows what then happens; `PlainIsLoaded` proves that nothing of the kind happens to the others.
- `NoFieldWords`: no public key spells `/wg_ip`, `/alias` or `/endpoints/`. The first is impossible, since base64 has no
  `_`; the others are texts of six and eleven characters at given places of a random key, with a chance in the
  order of one in a billion. `loadFromEtcd` and `ListPeers` would cut such a key in two. The shorter words of `ListPeers`,
  `/ip` and `/endpoint`, are no hypothesis: `ReadersAgree` itself says what becomes of keys that spell them.

### The plugin

The invariant is built in three layers (`PluginInv`), each used by the next:

1. `Inv1`: types; nothing runs before Init is done (`QuietBeforeRun`); a live
   snapshot pointer leads to an entry, and a loop's current peer is in its snapshot
   (`SnapshotInv`). Without it a step could work on an entry that is gone.
2. `LockInv` and `LoadFillsHole`: whoever is between `BeginUpdate` and `EndUpdate`
   holds the only lock, on an entry that stays, and will leave it dirty; the
   monitor's Update leaves the LAN endpoint alone. So only the monitor's own `Set`
   fills a hole.
3. `WriteInv` and `CleanMeansStored`: the peer a transaction is being prepared for,
   and every peer whose snapshot entry is frozen, is not clean. `CleanMeansStored` alone
   is not inductive: a commit could change etcd under a clean entry. `WriteInv` says
   that what is being written never belongs to one. The lemmas `KeptIsStored` and
   `KeptIsNotWritten` reduce each action to three questions: does it make an entry
   clean, change a clean one, or write an endpoint of one.

`GoneForGood` needs one more invariant, `RestInv`: Init restores only peers it has loaded, and
a request slot that is free has no alias to put. With the layers above, whatever a loop, a
request or Init is working on is an entry of a snapshot, of the device's list, or of the cache,
so it is not a peer that is gone, and the step is about another one.

Each lemma `<Part><Layer>` (for example `SyncingInv3`) is about one part of `Next`, with
a step per action. `IInv` was first checked by TLC as an invariant of the instances of
`PluginSafety` and `PluginOverlap`.

### The cache

`CacheIInv` is what makes `PeerMap` a fair picture of pointers to shared objects. `NoDangling`:
a pointer that is in the map or kept by a caller leads to an object. `NoSharing`: no object belongs to
two peers, so that an Update changes one entry of the abstract map. `HalfWritten`: between Update's
assignments the object is the old entry in the fields still to come and the new one in the rest; from it
follow both `LoadsAreReads` and that the abstract `writing` ends with the entry it began
with. The refinement maps a pointer that is still the map's to `Live` and any other to its object's
content. Each assignment is then a stuttering step, and each operation the one of
`PeerMap` that has its name.

### DNS queries

`HeldInv` is the heart of `DnsIInv`: whatever a query may read at this moment, from the cache or
through its pointer, is in its history. It needs `QueryInv` (what a query knows where it is) and
`CopyInv` (it has pointers only to peers it asks for), or a step of somebody else might change an
entry that the query sees and the history does not. Then `ServedWasHeld` needs only
that a record is made from a value read. `PairedSrv` follows from `AnswerInv`: when a query comes to an
endpoint, no record of it is there yet.

`AnswerComplete` speaks of a query that is done; `CompleteInv` says the same of one under way, for
what it has passed: each peer and field owed is in the answer or `Pending`. The proof of a step
shows that nothing becomes owed that was not (the history only grows), and that the field it leaves
behind was read as something that yields a record.

### The commands and the composed system

`AloneInv` adds to the two properties what a command relies on between its calls:
`CarriesInv` (it has the values of its next call), `StandsInv` (what it looked up is still so
when it acts) and `AnnouncedInv` (an alias that is announced leads to its peer or nowhere). With one terminal only the
plugin comes between two calls, and it puts aliases but deletes none; an alias that is not announced is the command's
alone, and one that is can only lead to the peer it belongs to, which `OwnAliases` makes inductive. With two terminals, or
an alias of two peers, both properties fail: `remove` deletes at the end an alias that another peer was given meanwhile.
`CtlTypeCorrect` needs `CarriesInv` only and holds for any number of terminals.

`SystemIsPlugin` uses the types of both sides (`Inv1` and `CarriesInv`): every call of a
command has the arguments of an addition or a removal the plugin's specification has, or changes
nothing it sees, and a DELETE request that is sent, lost or delivered late is a request of Discovery's.
So everything proved of `Spec` holds of the system: four of the theorems `...InSystem`.

`SystemIsCommands` is the other direction, and gives the other three. Each step of the plugin is taken in turn: it changes
nothing of etcd and the device, or puts fields of the right types (`SyncingActs`), restores a peer whose address the cache
has (`StartingActs`), or puts an alias that some request named (`ServingActs`, with `RequestedInv`: what a request has still to put
is what it came with). That the handler of a DELETE deletes no alias follows from keys not being aliases.

### Allocation

`AllocationExact` is arithmetic, and holds in every state if the loop computes what it should. The argument of
`AllocProofs`, for addresses of any length and bytes of any width:

1. `Upper(ip, i)` is the number the first `i` bytes spell. It is below `Two[Bits * i]` (`UpperBound`), and different
   addresses have different numbers (`NumberInjective`).
2. `incrementIP` adds one to the number (`IncrementNumber`): for the first `i` bytes it does so if all later bytes
   carry, and leaves them alone otherwise. So the loop variable runs through the numbers in turn (`VisitedNumber`).
3. `Contains`, which compares byte by byte under the mask, holds of an address iff its number divided by the size of
   the network is that of the network (`ContainsUpper`): bytes before the cut must be equal (`CutBefore`), the byte of the cut in
   its upper bits (`CutInByte`), and those after it need not (`OneMoreByte`).
4. Hence the loop sees a row of numbers that begins with the network's, skips the first and the last, and stops
   at the first that is not in use, which is the lowest (`NetworkProps`, `AllocatesLowest`).

Several steps are inductions, and several definitions recursive functions. The library's theorems on both take operators as
parameters, which the provers cannot use; so `UpTo` states induction for a *set* of numbers, from the least
number outside it, and `Recursion` the existence of a recursive function whose step is itself a function.
A network without a mask (`/0`) is left out (`CommandAssumption`): there the scan would never leave the network.

### Keys in etcd

`KeysInv`: every text in etcd is composed of a public key and a field's path, or of an alias, and its value is of that
field. The `=` that ends a public key, and is nowhere else, makes all the rest unambiguous: two
texts are equal only if their keys and fields are; a peer's prefix begins no text of another, so that a
deletion by prefix that lacks the closing `/` takes no other peer with it; and a word found after the `=` is the path's.
`TextsAreTables` takes each request in turn and compares the texts it touches with the row. For
`ReadersAgreeAlways` the first occurrence of each word a reader looks for is located: not in the key (by
`NoFieldWords`, or because the row is not `plain`), not across its end (the `=`), hence at the path. `KeysInv` was
first checked by TLC as an invariant of the instance of `PeerKeys`.

## 6. Only model-checked

- Liveness under fairness, which the prover cannot do: `EndpointReachesEtcd`, `AddedPeerIsLearned`,
  `QueryAnswered`.

Every safety property, action property and refinement that a run finds to hold is also proved, some under a
hypothesis that section 5 names.

## 7. Not modelled

- Base32 and base64 themselves. A label decodes to a public key or it does not. In the same component, valonctl's
  `pkg/encoding` has no caller.
- Alias validation: pure tests of a string, without state. `SanitizeAlias` and `ValidateFQDN`
  have no caller.
- Corefile directives and configuration files (input only), TLS, the read-only commands (`list`,
  `export`, `status` print what the servers answer), printing, deployment files.
- A Corefile reload, which leaves the old goroutines running beside the new ones: no source
  says what a reload should preserve.
- The `valon-sync` script, of which only the requests it sends appear. It works on the
  peer's own device with the answers of one query after another. (It counts peers with
  `((peer_count++))` under `set -e`, which ends the script after the first one.)

## 8. Plan

Everything above is done. What could come next, most useful first:

1. `DnsHandler` over `ValonPlugin` instead of an arbitrary environment: that every step of the running plugin is
   one `Change`, `FinishUpdate` and `ChangeAlias` allow (up to the dirty flag, which no query reads), proved, so that
   what is proved of answers holds beside the plugin.
2. `ValonCtl` with two administrators: under what discipline its properties remain, and the proofs. Also
   under what discipline addresses are unique (no add before Discovery's first sync, or after one that was cut short).
3. That an address put on the device by an add cut short reaches etcd in the end (a liveness property of the monitor and
   the sync; a second address takes the instance of `PluginObserve` past 300 k states under fairness).
4. Two instances of the loops over one etcd: a reload that does not stop the old ones.
5. `ClientSync`: the endpoint choice of `valon-sync` against a plugin whose answers change
   between its queries.
6. Runs of the plugin with two peers beside Discovery.
