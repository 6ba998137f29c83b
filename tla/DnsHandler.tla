------------------------------ MODULE DnsHandler ----------------------------
(* handler.go: one DNS query at a time, answered from the cache and from the *)
(* alias index while the rest of the plugin and the administrators change     *)
(* both in any way they may.  Queries change nothing, so that one at a time    *)
(* is all there is to see of many.  A query holds the pointer Get or GetAll    *)
(* gave it and reads strings through it without the lock.                      *)
EXTENDS PeerMap, Etcd

CONSTANTS
    Infos,      \* key -> the contents Set and Update's functions give its entry
    Base32,     \* the aliases that base32 happens to decode, "alice" for one
    Named,      \* the endpoints whose host is a name instead of an address
    IPv6        \* the endpoints whose host is an IPv6 address

ASSUME DnsAssumption ==
    /\ Infos \in [Key -> SUBSET PeerInfo]
    /\ Base32 \subseteq Alias
    /\ Named \subseteq LanEp \cup NatEp /\ IPv6 \subseteq LanEp \cup NatEp
    /\ Key \cap Alias = {}

VARIABLES
    query,      \* the query in progress, or the last one answered
    answer,     \* the records put into its message: no record, NXDOMAIN
    held,       \* auxiliary: what the fields it asks for read like meanwhile
    led         \* auxiliary: where its alias led meanwhile

dnsVars == <<mapVars, etcdVars, query, answer, held, led>>

Kind == {"A", "SRV", "ALL", "CNAME", "other"}

Record == [owner : Key, type : {"A", "SRV", "CNAME"}, field : Field, value : Text \cup {None}]

Query ==
    [pc : {"idle", "get", "alias", "check", "use", "list", "done"},
     kind : Kind, label : Key \cup Alias \cup {None}, key : Key \cup {None}, field : Field]

DnsTypeOK ==
    /\ MapTypeOK /\ EtcdTypeOK
    /\ query \in Query
    /\ answer \subseteq Record
    /\ held \in [Key -> [Field -> SUBSET (Text \cup {None})]]
    /\ led \subseteq Key \cup {None}

NoQuery == [pc |-> "idle", kind |-> "other", label |-> None, key |-> None, field |-> "wg"]

DnsInit ==
    /\ MapInit /\ EtcdInit
    /\ query = NoQuery
    /\ answer = {}
    /\ held = [k \in Key |-> [f \in Field |-> {}]]
    /\ led = {}

InProgress == query.pc \notin {"idle", "done"}

-----------------------------------------------------------------------------
(* What the query could see at this moment, kept for the properties. *)

\* The query asks for field f of k.
Asks(k, f) ==
    \/ query.kind = "A" /\ k = query.key /\ f = query.field
    \/ query.kind = "SRV" /\ k = query.key /\ f # "wg"
    \/ query.kind = "CNAME" /\ k = query.key /\ f = "wg"
    \/ query.kind = "ALL" /\ f = "wg"

Visible(k, f) ==
    IF ~(InProgress /\ Asks(k, f)) THEN {}
    ELSE IF cache[k] = None THEN {None}
    ELSE CacheReads(k, f)

Led == IF InProgress /\ query.label \in Alias THEN {aliases[query.label]} ELSE {}

Remember ==
    /\ held' = [k \in Key |-> [f \in Field |-> held[k][f] \cup Visible(k, f)']]
    /\ led' = led \cup Led'

-----------------------------------------------------------------------------
(* The query *)

Receive(kind, label, key, field, pc) ==
    /\ ~InProgress
    /\ query' = [pc |-> pc, kind |-> kind, label |-> label, key |-> key, field |-> field]
    /\ answer' = {}
    /\ UNCHANGED <<mapVars, etcdVars>>
    /\ held' = [k \in Key |-> [f \in Field |-> Visible(k, f)']]
    /\ led' = Led'

\* <label>, lan.<label> or nated.<label>: a label that decodes is a public key,
\* though maybe nobody's; any other one is an alias unless it had a prefix.
ReceiveA ==
    \E f \in Field :
        \/ \E k \in Key : Receive("A", k, k, f, "get")
        \/ \E a \in Alias :
              IF a \in Base32 THEN Receive("A", a, None, f, "get")
              ELSE IF f = "wg" THEN Receive("CNAME", a, None, f, "alias")
              ELSE Receive("A", a, None, f, "done")

\* _wireguard._udp.<label>, for which an alias will not do.
ReceiveSRV ==
    \/ \E k \in Key : Receive("SRV", k, k, "lan", "get")
    \/ \E a \in Alias :
          Receive("SRV", a, None, "lan", IF a \in Base32 THEN "get" ELSE "done")

\* _valon._tcp
ReceiveAll == Receive("ALL", None, None, "wg", "get")

\* Another type or an unknown service: NXDOMAIN.
ReceiveOther == Receive("other", None, None, "wg", "done")

Reply == query' = [query EXCEPT !.pc = "done"] /\ copy' = [k \in Key |-> None]

\* v.cache.Get(pubkey) found the peer.
Got ==
    /\ query.key # None /\ cache[query.key] # None
    /\ Get(query.key)
    /\ query' = [query EXCEPT !.pc = IF query.kind = "A" THEN "use" ELSE "check"]

NotGot ==
    /\ Unlocked
    /\ query.key # None => cache[query.key] = None
    /\ Reply
    /\ UNCHANGED <<cache, writing>>

LookUp ==
    /\ query.pc = "get" /\ query.kind # "ALL"
    /\ Got \/ NotGot
    /\ UNCHANGED <<answer, etcdVars>>
    /\ Remember

\* A lookup that took an absent alias for one.
AliasUnchecked ==
    /\ query.pc = "alias"
    /\ query' = [query EXCEPT !.pc = "get", !.key = aliases[query.label]]
    /\ answer' = {[owner |-> query'.key, type |-> "CNAME", field |-> "wg", value |-> None]}
    /\ UNCHANGED <<mapVars, etcdVars>>
    /\ Remember

\* lookupAlias and the CNAME record of returnCNAME ...
AliasFound ==
    /\ query.pc = "alias"
    /\ aliases[query.label] # None
    /\ query' = [query EXCEPT !.pc = "get", !.key = aliases[query.label]]
    /\ answer' = {[owner |-> query'.key, type |-> "CNAME", field |-> "wg", value |-> None]}
    /\ UNCHANGED <<mapVars, etcdVars>>
    /\ Remember

\* A lookup without a deadline.
AliasAwaited ==
    /\ query.pc = "alias"
    /\ aliases[query.label] = None
    /\ Reply
    /\ UNCHANGED <<answer, cache, writing, etcdVars>>
    /\ Remember

\* ... or etcd has no such alias, fails, or does not answer within a second.
AliasNotFound ==
    /\ query.pc = "alias"
    /\ Reply
    /\ UNCHANGED <<answer, cache, writing, etcdVars>>
    /\ Remember

\* How a string that was just read goes into the message.  One that was torn may
\* look like anything or like nothing.
Rdata(v) == IF v \in IPv6 THEN Empty ELSE v

Records(k, f, v) ==
    {[owner |-> k, type |-> t, field |-> f, value |-> IF t = "A" THEN Rdata(v) ELSE v] :
        t \in {u \in {"A", "SRV"} : /\ u = "SRV" => query.kind = "SRV"
                                    /\ u = "A" => v \notin Named}}

Yields(k, f, v) ==
    IF v = Empty THEN {{}} ELSE IF v = Torn THEN {{}, Records(k, f, v)} ELSE {Records(k, f, v)}

\* The field is done with; what comes next.
Advance ==
    \/ /\ query.kind = "SRV" /\ query.field = "lan"
       /\ query' = [query EXCEPT !.pc = "check", !.field = "nat"]
       /\ UNCHANGED copy
    \/ /\ query.kind = "ALL"
       /\ query' = [query EXCEPT !.pc = "list", !.key = None]
       /\ copy' = [copy EXCEPT ![query.key] = None]
    \/ /\ query.kind \in {"A", "CNAME"} \/ (query.kind = "SRV" /\ query.field = "nat")
       /\ Reply

\* The search for endpoints ended by the first one that is missing.
CheckFirst ==
    /\ query.pc = "check"
    /\ \/ Reads(query.key, query.field) # {Empty}
          /\ query' = [query EXCEPT !.pc = "use"] /\ UNCHANGED copy
       \/ Empty \in Reads(query.key, query.field) /\ query.kind = "SRV" /\ Reply
       \/ Empty \in Reads(query.key, query.field) /\ query.kind # "SRV" /\ Advance
    /\ UNCHANGED <<answer, cache, writing, etcdVars>>
    /\ Remember

\* The comparison with the empty string ...
Check ==
    /\ query.pc = "check"
    /\ \/ Reads(query.key, query.field) # {Empty}
          /\ query' = [query EXCEPT !.pc = "use"] /\ UNCHANGED copy
       \/ Empty \in Reads(query.key, query.field) /\ Advance
    /\ UNCHANGED <<answer, cache, writing, etcdVars>>
    /\ Remember

\* A LAN endpoint that is missing made up for by the NAT endpoint.
UseFallback ==
    /\ query.pc = "use"
    /\ \E v \in Reads(query.key, query.field), n \in Reads(query.key, "nat") :
         \E rs \in Yields(query.key, query.field, IF v = Empty THEN n ELSE v) :
             answer' = answer \cup rs
    /\ Advance
    /\ UNCHANGED <<cache, writing, etcdVars>>
    /\ Remember

\* The field read once for the SRV record and once more for its address.
UseTwice ==
    /\ query.pc = "use"
    /\ \E v, w \in Reads(query.key, query.field) :
         \E rs \in Yields(query.key, query.field, v), ts \in Yields(query.key, query.field, w) :
             answer' = answer \cup {r \in rs : r.type = "SRV"} \cup {r \in ts : r.type = "A"}
    /\ Advance
    /\ UNCHANGED <<cache, writing, etcdVars>>
    /\ Remember

\* ... and the second reading, or, for an A query, the only one.
Use ==
    /\ query.pc = "use"
    /\ \E v \in Reads(query.key, query.field) :
         \E rs \in Yields(query.key, query.field, v) : answer' = answer \cup rs
    /\ Advance
    /\ UNCHANGED <<cache, writing, etcdVars>>
    /\ Remember

\* Service discovery: the peers of GetAll, in map order.
Discover ==
    /\ query.pc = "get" /\ query.kind = "ALL"
    /\ GetAll
    /\ query' = [query EXCEPT !.pc = IF \A k \in Key : cache[k] = None THEN "done" ELSE "list"]
    /\ UNCHANGED <<answer, etcdVars>>
    /\ Remember

DiscoverPeer ==
    /\ query.pc = "list"
    /\ \E k \in Key :
         /\ copy[k] # None
         /\ query' = [query EXCEPT !.pc = "check", !.key = k]
         /\ answer' = answer \cup {[owner |-> k, type |-> "SRV", field |-> "wg", value |-> None]}
    /\ UNCHANGED <<mapVars, etcdVars>>
    /\ Remember

DiscoverEnd ==
    /\ query.pc = "list"
    /\ \A k \in Key : copy[k] = None
    /\ Reply
    /\ UNCHANGED <<answer, cache, writing, etcdVars>>
    /\ Remember

QueryStep ==
    \/ LookUp \/ AliasFound \/ AliasNotFound \/ Check \/ Use
    \/ Discover \/ DiscoverPeer \/ DiscoverEnd

-----------------------------------------------------------------------------
(* Everybody else *)

Change ==
    /\ \E k \in Key :
         Delete(k) \/ \E info \in Infos[k] : Set(k, info) \/ BeginUpdate(k, info)
    /\ UNCHANGED <<query, answer, etcdVars>>
    /\ Remember

FinishUpdate ==
    /\ writing # None /\ EndUpdate(writing.key)
    /\ UNCHANGED <<query, answer, etcdVars>>
    /\ Remember

ChangeAlias ==
    /\ \E a \in Alias, k \in Key \cup {None} : aliases' = [aliases EXCEPT ![a] = k]
    /\ UNCHANGED <<query, answer, mapVars, store, peerAlias>>
    /\ Remember

DnsNext ==
    \/ ReceiveA \/ ReceiveSRV \/ ReceiveAll \/ ReceiveOther
    \/ QueryStep
    \/ Change \/ FinishUpdate \/ ChangeAlias

DnsSpec == DnsInit /\ [][DnsNext]_dnsVars

\* A reader that waits for the lock gets it (RWMutex lets no writer in ahead of
\* it twice) and a function passed to Update returns.  Nothing is assumed of etcd.
DnsFairSpec ==
    /\ DnsSpec
    /\ SF_dnsVars(LookUp \/ Discover)
    /\ WF_dnsVars(AliasNotFound \/ Check \/ Use \/ DiscoverPeer \/ DiscoverEnd)
    /\ WF_dnsVars(FinishUpdate)

-----------------------------------------------------------------------------

\* Whatever is deleted, replaced or half assigned while a query is answered, a
\* string it serves as a field of a peer is one that field had in the meantime (a
\* torn one only if an Update overlapped it), and a CNAME leads where its alias led.
ServedWasHeld ==
    \A r \in answer :
        /\ r.type = "A" => \E v \in held[r.owner][r.field] : r.value = Rdata(v)
        /\ r.type = "SRV" /\ r.value # None => r.value \in held[r.owner][r.field]
        /\ r.type = "CNAME" => r.owner \in led

\* The peer had the field, in a form the query can use, all the time.
Owed(k, f) ==
    /\ Asks(k, f)
    /\ held[k][f] # {}
    /\ held[k][f] \cap {None, Empty, Torn} = {}
    /\ query.kind # "SRV" => held[k][f] \cap Named = {}

\* The peer was in the cache all the time service discovery took.
Listed(k) == query.kind = "ALL" /\ held[k]["wg"] # {} /\ None \notin held[k]["wg"]

\* What a peer had all the time is in the answer: no change of anything else
\* makes its address vanish, for the others in the list or for itself.  A peer that
\* was cached all the time is listed even without an address.
AnswerComplete ==
    query.pc = "done" =>
        \A k \in Key :
            /\ \A f \in Field :
                 Owed(k, f) => \E r \in answer : r.owner = k /\ r.field = f /\ r.value # None
            /\ Listed(k) => \E r \in answer : r.owner = k

\* The port of an SRV record and the address of its target come from one
\* endpoint, even when the field changes between the two readings of it.
PairedSrv ==
    \A r, s \in answer :
        r.type = "SRV" /\ r.value # None /\ s.type = "A" /\ r.owner = s.owner /\ r.field = s.field
            => s.value = Rdata(r.value)

\* Every query is answered, etcd or no etcd.
QueryAnswered == InProgress ~> ~InProgress
=============================================================================
