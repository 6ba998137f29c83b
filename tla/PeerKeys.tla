------------------------------ MODULE PeerKeys ------------------------------
(* The layout of VALON's keys in etcd.  The other modules take etcd for a     *)
(* table with a row for each public key; here it is what it is, texts with    *)
(* values, composed by valonctl with path.Join and by the plugin with          *)
(* Sprintf, and taken apart again by four readers, each in its own way.  A     *)
(* text is a sequence of tokens: "/", "=", the words the readers look for, and *)
(* model values for runs of anything else.  A public key is base64, which has  *)
(* "/" among its digits, may spell some of the words, and ends with its only   *)
(* "=".                                                                       *)
EXTENDS PeerData, Integers, Sequences

SE == INSTANCE SequencesExt

VARIABLE kv     \* the texts in etcd, with their values

Digits(k) == {k[i] : i \in DOMAIN k}

ASSUME KeyTextAssumption ==
    /\ \A k \in Key : /\ k \in Seq(Digits(k)) /\ Len(k) > 1
                      /\ \A i \in DOMAIN k : k[i] = "=" <=> i = Len(k)
    /\ "/" \notin Alias

-----------------------------------------------------------------------------
(* Composing *)

\* fmt.Sprintf("/valon/peers/%s", rel) and fmt.Sprintf("/valon/aliases/%s", rel)
Peers(rel) == <<"/valon/peers", "/">> \o rel
Aliases(rel) == <<"/valon/aliases", "/">> \o rel

\* path.Join drops the "/" that follow a "/".  Base64 has no "." and no "..".
Clean(text) ==
    LET clean[n \in 0 .. Len(text)] ==
          IF n = 0 THEN <<>>
          ELSE IF n > 1 /\ text[n] = "/" /\ text[n - 1] = "/" THEN clean[n - 1]
          ELSE Append(clean[n - 1], text[n])
    IN clean[Len(text)]

Path == [wg |-> <<"/", "wg_ip">>, lan |-> <<"/", "endpoint", "s", "/", "lan">>,
         nat |-> <<"/", "endpoint", "s", "/", "nated">>, alias |-> <<"/", "alias">>]

-----------------------------------------------------------------------------
(* Taking apart *)

\* strings.Index, counted from 1; 0 if there is none.
Index(text, pattern) ==
    LET starts == {i \in 1 .. Len(text) - Len(pattern) + 1 :
                     \A j \in DOMAIN pattern : text[i + j - 1] = pattern[j]}
    IN IF starts = {} THEN 0 ELSE CHOOSE i \in starts : \A j \in starts : i <= j

Cut(rel, at) == <<SubSeq(rel, 1, at - 1), SubSeq(rel, at + 1, Len(rel))>>

\* relKey up to the first "/" ...
SplitFirst(rel, patterns) == Cut(rel, Index(rel, <<"/">>))

\* The cascade of strings.Index: the first pattern that occurs divides relKey, at
\* its first occurrence, into a public key and the path of a field.
Split(rel, patterns) ==
    LET hit == SE!SelectInSeq(patterns, LAMBDA p : Index(rel, p) # 0)
    IN IF hit = 0 THEN <<>> ELSE Cut(rel, Index(rel, patterns[hit]))

\* The first part of path, or the first two, name field f.
LeadsTo(path, f) ==
    LET name == Tail(Path[f])
    IN SE!IsPrefix(name, path) /\ (Len(name) < Len(path) => path[Len(name) + 1] = "/")

FieldAt(path) ==
    IF \E f \in DOMAIN Path : LeadsTo(path, f) THEN CHOOSE f \in DOMAIN Path : LeadsTo(path, f)
    ELSE None

\* What is read from the texts of S, whose rest is relKey: the field, or none, of
\* the peer and its value.
Parsed(S, patterns) ==
    {<<Split(rel, patterns)[1], FieldAt(Split(rel, patterns)[2]), kv[Peers(rel)]>> :
        rel \in {r \in S : Split(r, patterns) # <<>>}}

\* Get WithPrefix, less the prefix.
Below(prefix) ==
    {SubSeq(t, Len(prefix) + 1, Len(t)) : t \in {u \in DOMAIN kv : SE!IsPrefix(prefix, u)}}

\* loadFromEtcd
LoadedAll == Parsed(Below(Peers(<<>>)), <<Path.wg, Path.alias, <<"/", "endpoint", "s", "/">>>>)

\* ListPeers, with two more words of older versions
Listed ==
    Parsed(Below(Peers(<<>>)), <<Path.wg, <<"/", "ip">>, Path.alias, <<"/", "endpoint">>>>)

\* loadPeerFromEtcd
LoadedOne(k) ==
    LET prefix == Peers(k) \o <<"/">>
    IN {<<p[1], kv[prefix \o p[2]]>> :
          p \in {q \in Field \X Below(prefix) : SE!IsSuffix(Path[q[1]], <<"/">> \o q[2])}}

\* getAllUsedIPs
Used ==
    {kv[t] : t \in {u \in DOMAIN kv : /\ SE!IsPrefix(<<"/valon/peers">>, u)
                                      /\ SE!IsSuffix(Path.wg, u)}}

-----------------------------------------------------------------------------
(* Requests *)

Put(entries) == kv' = [t \in DOMAIN kv \cup DOMAIN entries |->
                         IF t \in DOMAIN entries THEN entries[t] ELSE kv[t]]

DeleteTexts(T) == kv' = [t \in DOMAIN kv \ T |-> kv[t]]

\* EtcdClient.AddPeer
CtlAdd(k, ip, a) ==
    LET prefix == Clean(Peers(k))
        index  == Clean(Aliases(<<a>>))
    IN /\ index \notin DOMAIN kv
       /\ Put([t \in {prefix \o Path.wg, prefix \o Path.alias, index} |->
                 IF t = index THEN k ELSE IF t = prefix \o Path.alias THEN a ELSE ip])

\* Only the two keys AddPeer puts.
CtlRemoveKnown(k) ==
    DeleteTexts({Clean(Peers(k)) \o Path.wg, Clean(Peers(k)) \o Path.alias})

\* EtcdClient.RemovePeer; the prefix does not end with a "/".
CtlRemove(k) == DeleteTexts({t \in DOMAIN kv : SE!IsPrefix(Clean(Peers(k)), t)})

CtlUnalias(a) == DeleteTexts({Clean(Aliases(<<a>>))})

\* The fields writePeerToEtcd puts: those that are not empty.
Synced ==
    {ops \in [Field -> Text \cup {None}] :
        /\ ops["wg"] \in IP \cup {None}
        /\ ops["lan"] \in LanEp \cup {None} /\ ops["nat"] \in NatEp \cup {None}
        /\ \E f \in Field : ops[f] # None}

PluginSync(k, ops) ==
    Put([t \in {Peers(k \o Path[f]) : f \in {g \in Field : ops[g] # None}} |->
           ops[CHOOSE f \in Field : t = Peers(k \o Path[f])]])

\* handleEndpointUpdate
PluginAlias(k, a) == Put([t \in {Aliases(<<a>>)} |-> k])
PluginReverse(k, a) == Put([t \in {Peers(k \o Path.alias)} |-> a])

\* handleEndpointDelete
PluginUnalias(k) == DeleteTexts({Aliases(k)})

KeysInit == kv = [t \in {} |-> None]

KeysNext ==
    \/ \E k \in Key, ip \in IP, a \in Alias : CtlAdd(k, ip, a)
    \/ \E k \in Key : CtlRemove(k)
    \/ \E a \in Alias : CtlUnalias(a)
    \/ \E k \in Key, ops \in Synced : PluginSync(k, ops)
    \/ \E k \in Key, a \in Alias : PluginAlias(k, a)
    \/ \E k \in Key, a \in Alias : PluginReverse(k, a)
    \/ \E k \in Key : PluginUnalias(k)

KeysSpec == KeysInit /\ [][KeysNext]_kv

-----------------------------------------------------------------------------
(* The table the other modules see *)

Value(text) == IF text \in DOMAIN kv THEN kv[text] ELSE None

Rows == [k \in Key |-> [f \in Field |-> Value(Peers(k \o Path[f]))]]
PeerAliases == [k \in Key |-> Value(Peers(k \o Path.alias))]
AliasIndex == [a \in Alias |-> Value(Aliases(<<a>>))]

E == INSTANCE AdminCalls WITH
       store <- Rows, peerAlias <- PeerAliases, aliases <- AliasIndex, wg <- [k \in Key |-> None]

\* What each request does to the texts is what Etcd and AdminCalls say it does to the
\* row of the peer or the alias it is about, and to no other.
RowsFollow ==
    /\ \A k \in Key :
         /\ CtlRemove(k) => E!Deregister(k)
         /\ PluginUnalias(k) => UNCHANGED E!etcdVars
         /\ \A ops \in Synced :
              PluginSync(k, ops) => E!PutFields(k, ops) /\ UNCHANGED <<PeerAliases, AliasIndex>>
         /\ \A a \in Alias :
              /\ \A ip \in IP : CtlAdd(k, ip, a) => E!RegisterFree(a) /\ E!Register(k, ip, a)
              /\ PluginAlias(k, a) =>
                   AliasIndex' = [AliasIndex EXCEPT ![a] = k] /\ UNCHANGED <<Rows, PeerAliases>>
              /\ PluginReverse(k, a) =>
                   PeerAliases' = [PeerAliases EXCEPT ![k] = a] /\ UNCHANGED <<Rows, AliasIndex>>
    /\ \A a \in Alias : CtlUnalias(a) => E!Unalias(a)

\* Whatever texts are in etcd, each request does to them what the row it is about
\* stands for: the two ways of composing meet, and a delete by prefix takes all of
\* one peer and nothing of another whose key begins like it.
ImplementsEtcd == E!EtcdInit /\ [][RowsFollow]_kv

\* A public key that spells one of the words ListPeers looks for besides the fields
\* there are.
Spells(k) == Index(k, <<"/", "ip">>) # 0 \/ Index(k, <<"/", "endpoint">>) # 0

\* The four readers find the same peers with the same fields, under the public keys
\* they were registered with, although these contain "/" in places; ListPeers does
\* of the peers whose keys do not spell one of its words, and while there are no
\* others it finds nothing else.
ReadersAgree ==
    LET held == {<<k, f, Value(Peers(k \o Path[f]))>> : k \in Key, f \in DOMAIN Path}
        rows == {r \in held : r[3] # None}
        plain == {r \in rows : ~Spells(r[1])}
        loaded(k) == E!Loaded(k, Empty).addr
    IN /\ LoadedAll = rows
       /\ plain \subseteq Listed /\ (plain = rows => Listed = rows)
       /\ \A k \in Key : LoadedOne(k) = {<<f, loaded(k)[f]>> : f \in {g \in Field : loaded(k)[g] # Empty}}
       /\ Used = {r[3] : r \in {q \in rows : q[2] = "wg"}}

\* etcd.go:106: "Use base64 pubkey directly as etcd key".  The plugin finds a peer
\* that was just added under its public key.
RegisteredIsLoaded ==
    [][\A k \in Key, ip \in IP, a \in Alias : 
            CtlAdd(k, ip, a) => <<"wg", ip>> \in LoadedOne(k)']_kv
=============================================================================
