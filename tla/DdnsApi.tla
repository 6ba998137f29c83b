------------------------------- MODULE DdnsApi ------------------------------
(* The HTTP handlers of the DDNS API: net/http runs each request on its own  *)
(* goroutine, so requests overlap with each other and with both monitors.    *)
EXTENDS PeerMap, Etcd

CONSTANT Req    \* requests that may be in progress at a time

VARIABLE ddns   \* request -> [pc, key, lan, alias]

ddnsVars == <<ddns, mapVars, etcdVars>>

DdnsPC == {"idle", "update", "write", "alias", "reverse", "delete", "unalias"}

DdnsTypeOK ==
    ddns \in [Req -> [pc : DdnsPC, key : Key, lan : LanEp \cup {Empty},
                      alias : Alias \cup {None}]]

DdnsIdle == [pc |-> "idle", key |-> SelfKey, lan |-> Empty, alias |-> None]

DdnsInit == ddns = [r \in Req |-> DdnsIdle]

Goto(r, pc) == ddns' = [ddns EXCEPT ![r].pc = pc]

Finish(r) == ddns' = [ddns EXCEPT ![r] = DdnsIdle]

\* isAuthorized: Discovery may update any peer, a peer the entry that has its
\* address; the entry is read without the lock.
Authorized(from, k) ==
    \/ from = SelfIP
    \/ cache[k] # None /\ from \in CacheReads(k, "wg")

\* POST /api/endpoint arrives from an address and is authorized.  Empty stands
\* for both "" and "0.0.0.0:0": the peer goes offline.  A request that is
\* refused, or whose endpoint does not parse, changes nothing.
UpdateRequest(r, from, k, lan, alias) ==
    /\ ddns[r].pc = "idle"
    /\ Authorized(from, k)
    /\ ddns' = [ddns EXCEPT ![r] = [pc |-> "update", key |-> k, lan |-> lan, alias |-> alias]]
    /\ UNCHANGED <<mapVars, etcdVars>>

Announced(info, lan) == [info EXCEPT !.addr["lan"] = lan]

DdnsUpdate(r) ==
    /\ ddns[r].pc = "update"
    /\ BeginUpdate(ddns[r].key, Announced(cache[ddns[r].key], ddns[r].lan))
    /\ Goto(r, "write")
    /\ UNCHANGED etcdVars

DdnsWrite(r) ==
    /\ ddns[r].pc = "write"
    /\ EndUpdate(ddns[r].key)
    /\ Goto(r, "alias")
    /\ UNCHANGED etcdVars

\* An Update that made the entry it does not find.
DdnsUpsert(r) ==
    /\ ddns[r].pc = "update"
    /\ Unlocked
    /\ cache[ddns[r].key] = None
    /\ cache' = [cache EXCEPT ![ddns[r].key] =
                   [addr |-> [f \in Field |-> IF f = "lan" THEN ddns[r].lan ELSE Empty],
                    dirty |-> TRUE]]
    /\ Goto(r, "alias")
    /\ UNCHANGED <<copy, writing, etcdVars>>

\* The peer is not in the cache: Update does nothing, the request goes on.
DdnsGone(r) ==
    /\ ddns[r].pc = "update"
    /\ Unlocked
    /\ cache[ddns[r].key] = None
    /\ Goto(r, "alias")
    /\ UNCHANGED <<mapVars, etcdVars>>

DdnsNoAlias(r) ==
    /\ ddns[r].pc = "alias"
    /\ ddns[r].alias = None
    /\ Finish(r)
    /\ UNCHANGED <<mapVars, etcdVars>>

\* Two separate Puts; either may fail, which is only logged.
DdnsPutAlias(r) ==
    /\ ddns[r].pc = "alias"
    /\ ddns[r].alias # None
    /\ \/ aliases' = [aliases EXCEPT ![ddns[r].alias] = ddns[r].key]
       \/ UNCHANGED aliases
    /\ Goto(r, "reverse")
    /\ UNCHANGED <<mapVars, store, peerAlias>>

DdnsPutReverse(r) ==
    /\ ddns[r].pc = "reverse"
    /\ \/ peerAlias' = [peerAlias EXCEPT ![ddns[r].key] = ddns[r].alias]
       \/ UNCHANGED peerAlias
    /\ Finish(r)
    /\ UNCHANGED <<mapVars, store, aliases>>

\* DELETE /api/endpoint/delete, from Discovery's own address only.
DeleteRequest(r, from, k) ==
    /\ ddns[r].pc = "idle"
    /\ from = SelfIP
    /\ ddns' = [ddns EXCEPT ![r].pc = "delete", ![r].key = k]
    /\ UNCHANGED <<mapVars, etcdVars>>

DdnsDelete(r) ==
    /\ ddns[r].pc = "delete"
    /\ Delete(ddns[r].key)
    /\ Goto(r, "unalias")
    /\ UNCHANGED etcdVars

\* Every alias that leads to the peer deleted.
DdnsUnaliasAll(r) ==
    /\ ddns[r].pc = "unalias"
    /\ aliases' = [a \in Alias |-> IF aliases[a] = ddns[r].key THEN None ELSE aliases[a]]
    /\ Finish(r)
    /\ UNCHANGED <<mapVars, store, peerAlias>>

\* The key deleted from etcd is /valon/aliases/<public key>.
DdnsUnalias(r) ==
    /\ ddns[r].pc = "unalias"
    /\ aliases' = [a \in Alias |-> IF a = ddns[r].key THEN None ELSE aliases[a]]
    /\ Finish(r)
    /\ UNCHANGED <<mapVars, store, peerAlias>>

DdnsStep(r) ==
    \/ DdnsUpdate(r) \/ DdnsWrite(r) \/ DdnsGone(r)
    \/ DdnsNoAlias(r) \/ DdnsPutAlias(r) \/ DdnsPutReverse(r)
    \/ DdnsDelete(r) \/ DdnsUnalias(r)
=============================================================================
