------------------------------ MODULE DnsProofs -----------------------------
(* Proofs that DnsInv's invariant holds of DnsHandler for every value of its *)
(* constants, and with it what its answers are made of.                      *)
EXTENDS DnsInv, MapProofs

-----------------------------------------------------------------------------
(* What the parts of an action preserve.                                     *)

\* The auxiliary variables keep their types, grow, and miss nothing.
LEMMA RememberStep ==
    ASSUME DnsTypeOK, MapTypeOK', EtcdTypeOK', LiveInv', Remember
    PROVE  /\ held' \in [Key -> [Field -> SUBSET (Text \cup {None})]]
           /\ led' \subseteq Key \cup {None}
           /\ \A k \in Key, f \in Field : held[k][f] \subseteq held'[k][f]
           /\ led \subseteq led'
           /\ \A k \in Key, f \in Field : Visible(k, f)' \subseteq held'[k][f]
           /\ Led' \subseteq led'
  <1>1. ASSUME NEW k \in Key, NEW f \in Field PROVE Visible(k, f)' \subseteq Text \cup {None}
    BY SentinelAssumption
       DEF Visible, CacheReads, Racing, MapTypeOK, Writing, PeerInfo, Text
  <1>2. Led' \subseteq Key \cup {None}
    BY DEF Led, EtcdTypeOK
  <1>. QED
    BY <1>1, <1>2 DEF Remember, DnsTypeOK
\* What is read through a pointer has been recorded: it is what the cache holds, or
\* what it held when the pointer's object left it.
LEMMA HeldStep ==
    ASSUME MapTypeOK, HeldInv, MapTypeOK', LiveInv', CopyMoves, CopyInv',
           \A k \in Key, f \in Field : held[k][f] \subseteq held'[k][f],
           \A k \in Key, f \in Field : Visible(k, f)' \subseteq held'[k][f],
           Led' \subseteq led',
           \A k \in Key, f \in Field : copy'[k] \notin {None, Live} /\ Asks(k, f)' => Asks(k, f)
    PROVE  HeldInv'
  <1>1. SUFFICES ASSUME NEW k \in Key, NEW f \in Field, copy'[k] # None, Asks(k, f)'
                 PROVE  Reads(k, f)' \subseteq held'[k][f]
    BY DEF HeldInv
  <1>2. CASE copy'[k] = Live
    <2>1. InProgress' /\ cache'[k] # None
      BY <1>1, <1>2 DEF CopyInv, LiveInv, InProgress
    <2>2. Reads(k, f)' = Visible(k, f)'
      BY <1>1, <1>2, <2>1 DEF Reads, Visible
    <2>. QED
      BY <2>2
  <1>3. CASE copy'[k] # Live
    <2>1. Asks(k, f) /\ copy[k] # None /\ Reads(k, f) \subseteq held[k][f]
      BY <1>1, <1>3 , SentinelAssumption DEF CopyMoves, HeldInv
    <2>2. copy'[k].addr[f] \in Reads(k, f)
      BY <1>1, <1>3 DEF CopyMoves, Reads, CacheReads
    <2>3. Reads(k, f)' = {copy'[k].addr[f]}
      BY <1>3 DEF Reads
    <2>. QED
      BY <2>1, <2>2, <2>3
  <1>. QED
    BY <1>2, <1>3

\* A record serves what was held, and led where the alias led.
Served(r) ==
    /\ r.type = "A" => \E v \in held[r.owner][r.field] : r.value = Rdata(v)
    /\ r.type = "SRV" /\ r.value # None => r.value \in held[r.owner][r.field]
    /\ r.type = "CNAME" => r.owner \in led

LEMMA Step ==
    ASSUME DnsIInv, Remember,
           MapTypeOK', EtcdTypeOK', LiveInv', CopyMoves,
           query' \in Query, answer' \subseteq Record,
           QueryInv', CopyInv', AnswerInv', PairedSrv',
           \A k \in Key, f \in Field : copy'[k] \notin {None, Live} /\ Asks(k, f)' => Asks(k, f),
           \A r \in answer' : r \notin answer => Served(r)'
    PROVE  DnsIInv'
  <1>1. /\ held' \in [Key -> [Field -> SUBSET (Text \cup {None})]]
        /\ led' \subseteq Key \cup {None}
        /\ \A k \in Key, f \in Field : held[k][f] \subseteq held'[k][f]
        /\ led \subseteq led'
        /\ \A k \in Key, f \in Field : Visible(k, f)' \subseteq held'[k][f]
        /\ Led' \subseteq led'
    BY RememberStep DEF DnsIInv
  <1>2. DnsTypeOK'
    BY <1>1 DEF DnsTypeOK
  <1>3. HeldInv'
    BY <1>1, HeldStep DEF DnsIInv, DnsTypeOK
  <1>4. ServedWasHeld'
    <2>1. SUFFICES ASSUME NEW r \in answer' PROVE Served(r)'
      BY DEF ServedWasHeld, Served
    <2>2. r.owner \in Key /\ r.field \in Field
      BY DEF Record
    <2>3. r \in answer => Served(r)
      BY DEF DnsIInv, ServedWasHeld, Served
    <2>. QED
      BY <1>1, <2>2, <2>3 DEF Served, Rdata
  <1>. QED
    BY <1>2, <1>3, <1>4 DEF DnsIInv

-----------------------------------------------------------------------------
(* The actions, in turn.                                                     *)

LEMMA InitInv == DnsInit => DnsIInv
  <1>. SUFFICES ASSUME DnsInit PROVE DnsIInv
    OBVIOUS
  <1>1. DnsTypeOK
    BY SentinelAssumption
       DEF DnsInit, DnsTypeOK, MapInit, MapTypeOK, EtcdInit, EtcdTypeOK, NoFields, NoQuery, Query,
           Kind, Field
  <1>2. LiveInv /\ QueryInv /\ CopyInv
    BY SentinelAssumption
       DEF DnsInit, MapInit, NoQuery, LiveInv, QueryInv, CopyInv, Reading, InProgress
  <1>3. HeldInv
    BY DEF DnsInit, MapInit, NoQuery, HeldInv, Visible, Led, InProgress
  <1>4. AnswerInv /\ ServedWasHeld /\ PairedSrv
    BY DEF DnsInit, NoQuery, AnswerInv, ServedWasHeld, PairedSrv
  <1>. QED
    BY <1>1, <1>2, <1>3, <1>4 DEF DnsIInv

\* What the rest of the plugin does to the cache takes no pointer from the query.
LEMMA OthersStep ==
    ASSUME DnsIInv, Remember, UNCHANGED <<query, answer>>,
           MapTypeOK', EtcdTypeOK', LiveInv', CopyMoves,
           \A k \in Key : copy'[k] = None <=> copy[k] = None
    PROVE  DnsIInv'
  <1>1. query' \in Query /\ answer' \subseteq Record
    BY DEF DnsIInv, DnsTypeOK
  <1>2. \A k \in Key, f \in Field : Asks(k, f)' <=> Asks(k, f)
    BY DEF Asks
  <1>3. QueryInv'
    BY DEF DnsIInv, DnsTypeOK, Query, QueryInv, Reading, InProgress, Asks
  <1>4. CopyInv'
    BY DEF DnsIInv, CopyInv
  <1>5. AnswerInv' /\ PairedSrv'
    BY DEF DnsIInv, AnswerInv, InProgress, PairedSrv, Rdata
  <1>. QED
    BY <1>1, <1>2, <1>3, <1>4, <1>5, Step

LEMMA ChangeStep == DnsIInv /\ Change => DnsIInv'
  <1>. SUFFICES ASSUME DnsIInv, Change PROVE DnsIInv'
    OBVIOUS
  <1>1. PICK k \in Key : Delete(k) \/ \E info \in Infos[k] : Set(k, info) \/ BeginUpdate(k, info)
    BY DEF Change
  <1>2. Infos[k] \subseteq PeerInfo
    BY DnsAssumption
  <1>3. MapTypeOK /\ LiveInv /\ EtcdTypeOK
    BY DEF DnsIInv, DnsTypeOK
  <1>4. EtcdTypeOK'
    BY <1>3 DEF Change, etcdVars, EtcdTypeOK
  <1>5. UNCHANGED <<query, answer>> /\ Remember
    BY DEF Change
  <1>6. CASE Delete(k)
    <2>1. MapTypeOK' /\ LiveInv'
      BY <1>3, <1>6, DeleteType, DeleteLive
    <2>2. [addr |-> [f \in Field |-> Empty], dirty |-> FALSE] \in PeerInfo
      BY DEF PeerInfo, Text
    <2>3. CopyMoves
      BY <1>3, <1>6, <2>2, CallMoves
    <2>4. \A j \in Key : copy'[j] = None <=> copy[j] = None
      BY <1>3, <1>6, SentinelAssumption DEF Delete, Detached, MapTypeOK, LiveInv
    <2>. QED
      BY <1>4, <1>5, <2>1, <2>3, <2>4, OthersStep
  <1>7. ASSUME NEW info \in Infos[k], Set(k, info) PROVE DnsIInv'
    <2>1. MapTypeOK' /\ LiveInv' /\ CopyMoves
      BY <1>2, <1>3, <1>7, SetType, SetLive, CallMoves
    <2>2. \A j \in Key : copy'[j] = None <=> copy[j] = None
      BY <1>3, <1>7, SentinelAssumption DEF Set, Detached, MapTypeOK, LiveInv
    <2>. QED
      BY <1>4, <1>5, <2>1, <2>2, OthersStep
  <1>8. ASSUME NEW info \in Infos[k], BeginUpdate(k, info) PROVE DnsIInv'
    <2>1. MapTypeOK' /\ LiveInv' /\ CopyMoves
      BY <1>2, <1>3, <1>8, BeginUpdateType, BeginUpdateLive, CallMoves
    <2>2. \A j \in Key : copy'[j] = None <=> copy[j] = None
      BY <1>8 DEF BeginUpdate
    <2>. QED
      BY <1>4, <1>5, <2>1, <2>2, OthersStep
  <1>. QED
    BY <1>1, <1>6, <1>7, <1>8

LEMMA FinishUpdateStep == DnsIInv /\ FinishUpdate => DnsIInv'
  <1>. SUFFICES ASSUME DnsIInv, FinishUpdate PROVE DnsIInv'
    OBVIOUS
  <1>1. MapTypeOK /\ LiveInv /\ EtcdTypeOK
    BY DEF DnsIInv, DnsTypeOK
  <1>2. writing # None /\ EndUpdate(writing.key) /\ writing.key \in Key /\ writing.info \in PeerInfo
    BY <1>1 DEF FinishUpdate, MapTypeOK, Writing
  <1>3. MapTypeOK' /\ LiveInv' /\ CopyMoves
    BY <1>1, <1>2, EndUpdateType, EndUpdateLive, CallMoves
  <1>4. EtcdTypeOK' /\ UNCHANGED <<query, answer>> /\ Remember
    BY <1>1 DEF FinishUpdate, etcdVars, EtcdTypeOK
  <1>5. \A j \in Key : copy'[j] = None <=> copy[j] = None
    BY <1>2 DEF EndUpdate
  <1>. QED
    BY <1>3, <1>4, <1>5, OthersStep

LEMMA ChangeAliasStep == DnsIInv /\ ChangeAlias => DnsIInv'
  <1>. SUFFICES ASSUME DnsIInv, ChangeAlias PROVE DnsIInv'
    OBVIOUS
  <1>1. MapTypeOK /\ LiveInv /\ EtcdTypeOK
    BY DEF DnsIInv, DnsTypeOK
  <1>2. MapTypeOK' /\ LiveInv' /\ CopyMoves
    BY <1>1 DEF ChangeAlias, mapVars, MapTypeOK, LiveInv, CopyMoves
  <1>3. EtcdTypeOK' /\ UNCHANGED <<query, answer>> /\ Remember
    BY <1>1 DEF ChangeAlias, EtcdTypeOK
  <1>4. \A j \in Key : copy'[j] = None <=> copy[j] = None
    BY DEF ChangeAlias, mapVars
  <1>. QED
    BY <1>2, <1>3, <1>4, OthersStep

\* A query begins with nothing held but what it can see.
LEMMA ReceiveStep ==
    ASSUME DnsIInv, NEW kind \in Kind, NEW label \in Key \cup Alias \cup {None},
           NEW key \in Key \cup {None}, NEW field \in Field, NEW pc \in {"get", "alias", "done"},
           Receive(kind, label, key, field, pc),
           pc = "alias" => label \in Alias /\ kind = "CNAME",
           pc # "done" => kind # "other",
           kind = "SRV" => pc # "alias" /\ field = "lan",
           kind \in {"CNAME", "ALL"} => field = "wg"
    PROVE  DnsIInv'
  <1>1. MapTypeOK' /\ EtcdTypeOK' /\ LiveInv'
    BY DEF DnsIInv, DnsTypeOK, Receive, mapVars, etcdVars, MapTypeOK, EtcdTypeOK, LiveInv
  <1>2. \A k \in Key : copy'[k] = None
    BY DEF DnsIInv, CopyInv, Receive, InProgress, mapVars
  <1>3. /\ query' = [pc |-> pc, kind |-> kind, label |-> label, key |-> key, field |-> field]
        /\ answer' = {}
        /\ held' = [k \in Key |-> [f \in Field |-> Visible(k, f)']]
        /\ led' = Led'
    BY DEF Receive
  <1>4. DnsTypeOK'
    <2>1. query' \in Query
      BY <1>3 DEF Query
    <2>2. ASSUME NEW k \in Key, NEW f \in Field PROVE Visible(k, f)' \subseteq Text \cup {None}
      BY <1>1, SentinelAssumption
         DEF Visible, CacheReads, Racing, MapTypeOK, Writing, PeerInfo, Text
    <2>3. Led' \subseteq Key \cup {None}
      BY <1>1, <2>1 DEF Led, EtcdTypeOK
    <2>. QED
      BY <1>1, <1>3, <2>1, <2>2, <2>3 DEF DnsTypeOK
  <1>5. QueryInv'
    BY <1>3 DEF QueryInv, Reading, InProgress
  <1>6. CopyInv' /\ HeldInv'
    BY <1>2, <1>3 DEF CopyInv, HeldInv
  <1>7. AnswerInv' /\ ServedWasHeld' /\ PairedSrv'
    BY <1>3 DEF AnswerInv, ServedWasHeld, PairedSrv
  <1>. QED
    BY <1>1, <1>4, <1>5, <1>6, <1>7 DEF DnsIInv

LEMMA ReceiveSteps ==
    DnsIInv /\ (ReceiveA \/ ReceiveSRV \/ ReceiveAll \/ ReceiveOther) => DnsIInv'
  <1>. SUFFICES ASSUME DnsIInv, ReceiveA \/ ReceiveSRV \/ ReceiveAll \/ ReceiveOther
                PROVE  DnsIInv'
    OBVIOUS
  <1>1. ASSUME NEW f \in Field, NEW k \in Key, Receive("A", k, k, f, "get") PROVE DnsIInv'
    BY <1>1, ReceiveStep DEF Kind
  <1>2. ASSUME NEW f \in Field, NEW a \in Alias,
               IF a \in Base32 THEN Receive("A", a, None, f, "get")
               ELSE IF f = "wg" THEN Receive("CNAME", a, None, f, "alias")
               ELSE Receive("A", a, None, f, "done")
        PROVE DnsIInv'
    BY <1>2, ReceiveStep DEF Kind
  <1>3. ASSUME NEW k \in Key, Receive("SRV", k, k, "lan", "get") PROVE DnsIInv'
    BY <1>3, ReceiveStep DEF Kind, Field
  <1>4. ASSUME NEW a \in Alias,
               Receive("SRV", a, None, "lan", IF a \in Base32 THEN "get" ELSE "done")
        PROVE DnsIInv'
    BY <1>4, ReceiveStep DEF Kind, Field
  <1>5. CASE ReceiveAll
    BY <1>5, ReceiveStep DEF ReceiveAll, Kind, Field
  <1>6. CASE ReceiveOther
    BY <1>6, ReceiveStep DEF ReceiveOther, Kind, Field
  <1>7. CASE ReceiveA
    BY <1>1, <1>2, <1>7 DEF ReceiveA
  <1>8. CASE ReceiveSRV
    BY <1>3, <1>4, <1>8 DEF ReceiveSRV
  <1>. QED
    BY <1>5, <1>6, <1>7, <1>8

\* A reply adds nothing and drops every pointer.
LEMMA ReplyStep ==
    ASSUME DnsIInv, InProgress, Reply, UNCHANGED <<answer, cache, writing, etcdVars>>, Remember
    PROVE  DnsIInv'
  <1>1. /\ query' = [query EXCEPT !.pc = "done"] /\ query \in Query
        /\ copy' = [k \in Key |-> None]
    BY DEF Reply, DnsIInv, DnsTypeOK
  <1>2. MapTypeOK' /\ EtcdTypeOK' /\ LiveInv' /\ CopyMoves
    BY <1>1, SentinelAssumption
       DEF DnsIInv, DnsTypeOK, etcdVars, MapTypeOK, EtcdTypeOK, LiveInv, CopyMoves
  <1>3. query' \in Query /\ answer' \subseteq Record
    BY <1>1 DEF DnsIInv, DnsTypeOK, Query
  <1>4. QueryInv' /\ CopyInv'
    BY <1>1 DEF Query, QueryInv, Reading, InProgress, CopyInv
  <1>5. AnswerInv'
    BY <1>1 DEF Query, DnsIInv, AnswerInv, InProgress
  <1>6. PairedSrv'
    BY DEF DnsIInv, PairedSrv, Rdata
  <1>. QED
    BY <1>1, <1>2, <1>3, <1>4, <1>5, <1>6, Step

LEMMA LookUpStep == DnsIInv /\ LookUp => DnsIInv'
  <1>. SUFFICES ASSUME DnsIInv, LookUp PROVE DnsIInv'
    OBVIOUS
  <1>1. CASE NotGot
    BY <1>1, ReplyStep DEF LookUp, NotGot, InProgress
  <1>2. CASE Got
    <2>1. /\ query \in Query /\ query.key \in Key /\ cache[query.key] # None /\ Get(query.key)
          /\ query' = [query EXCEPT !.pc = IF query.kind = "A" THEN "use" ELSE "check"]
          /\ query.pc = "get" /\ query.kind \in {"A", "SRV", "CNAME"}
      BY <1>2 DEF Got, LookUp, DnsIInv, DnsTypeOK, Query, QueryInv, InProgress, Kind
    <2>2. MapTypeOK /\ LiveInv
      BY DEF DnsIInv, DnsTypeOK
    <2>3. MapTypeOK' /\ LiveInv'
      BY <2>1, <2>2, GetType, GetLive
    <2>4. [addr |-> [f \in Field |-> Empty], dirty |-> FALSE] \in PeerInfo
      BY DEF PeerInfo, Text
    <2>5. CopyMoves
      BY <2>1, <2>2, <2>4, CallMoves
    <2>6. EtcdTypeOK' /\ query' \in Query /\ answer' \subseteq Record
      BY <2>1 DEF LookUp, DnsIInv, DnsTypeOK, etcdVars, EtcdTypeOK, Query
    <2>7. \A k \in Key, f \in Field : Asks(k, f)' <=> Asks(k, f)
      BY <2>1 DEF Asks, Query
    <2>8. copy' = [copy EXCEPT ![query.key] = Live]
      BY <2>1 DEF Get
    <2>9. copy'[query.key] # None
      BY <2>1, <2>2, <2>8, SentinelAssumption DEF MapTypeOK
    <2>10. QueryInv'
      <3>1. /\ query'.pc = IF query.kind = "A" THEN "use" ELSE "check"
            /\ query'.kind = query.kind /\ query'.key = query.key /\ query'.field = query.field
        BY <2>1 DEF Query
      <3>2. /\ query.kind = "SRV" => query.field = "lan"
            /\ query.kind = "CNAME" => query.field = "wg"
        BY <2>1 DEF DnsIInv, QueryInv, InProgress
      <3>3. Asks(query.key, query.field)'
        BY <2>1, <3>1, <3>2 DEF Asks
      <3>. QED
        BY <2>1, <2>9, <3>1, <3>2, <3>3, SentinelAssumption DEF QueryInv, Reading, InProgress
    <2>11. CopyInv'
      BY <2>1, <2>2, <2>8 DEF DnsIInv, CopyInv, MapTypeOK, Query
    <2>12. AnswerInv'
      BY <2>1 DEF LookUp, DnsIInv, AnswerInv, InProgress, Query
    <2>13. PairedSrv'
      BY DEF LookUp, DnsIInv, PairedSrv, Rdata
    <2>. QED
      BY <2>3, <2>5, <2>6, <2>7, <2>10, <2>11, <2>12, <2>13, Step DEF LookUp
  <1>. QED
    BY <1>1, <1>2 DEF LookUp

LEMMA AliasFoundStep == DnsIInv /\ AliasFound => DnsIInv'
  <1>. SUFFICES ASSUME DnsIInv, AliasFound PROVE DnsIInv'
    OBVIOUS
  <1>1. /\ query \in Query /\ query.pc = "alias" /\ query.kind = "CNAME" /\ query.label \in Alias
        /\ query.field = "wg"
        /\ query' = [query EXCEPT !.pc = "get", !.key = aliases[query.label]]
        /\ query'.key = aliases[query.label] /\ aliases[query.label] \in Key
        /\ answer' = {[owner |-> query'.key, type |-> "CNAME", field |-> "wg", value |-> None]}
    BY DEF AliasFound, DnsIInv, DnsTypeOK, EtcdTypeOK, Query, QueryInv, InProgress
  <1>2. MapTypeOK' /\ EtcdTypeOK' /\ LiveInv' /\ CopyMoves
    BY DEF AliasFound, DnsIInv, DnsTypeOK, mapVars, etcdVars, MapTypeOK, EtcdTypeOK, LiveInv,
           CopyMoves
  <1>3. query' \in Query /\ answer' \subseteq Record
    <2>1. query' \in Query
      BY <1>1 DEF Query
    <2>2. query'.key \in Key
      BY <1>1
    <2>3. [owner |-> query'.key, type |-> "CNAME", field |-> "wg", value |-> None] \in Record
      BY <2>2 DEF Record, Field
    <2>. QED
      BY <1>1, <2>1, <2>3
  <1>4. \A k \in Key : copy[k] = None /\ copy'[k] = None
    BY <1>1 DEF DnsIInv, CopyInv, AliasFound, mapVars
  <1>5. QueryInv' /\ CopyInv'
    BY <1>1, <1>4 DEF QueryInv, Reading, InProgress, CopyInv, Query
  <1>6. AnswerInv' /\ PairedSrv'
    BY <1>1 DEF AnswerInv, PairedSrv, InProgress, Query
  <1>7. ASSUME NEW r \in answer' PROVE Served(r)'
    <2>1. Led = {query'.key} /\ Led \subseteq led
      BY <1>1 DEF Led, InProgress, DnsIInv, HeldInv
    <2>2. led \subseteq led'
      BY DEF AliasFound, Remember
    <2>. QED
      BY <1>1, <1>7, <2>1, <2>2 DEF Served
  <1>8. \A r \in answer' : r \notin answer => Served(r)'
    BY <1>7
  <1>9. Remember
    BY DEF AliasFound
  <1>. QED
    BY <1>2, <1>3, <1>4, <1>5, <1>6, <1>8, <1>9, Step

LEMMA AliasNotFoundStep == DnsIInv /\ AliasNotFound => DnsIInv'
  BY ReplyStep DEF AliasNotFound, InProgress

LEMMA DiscoverEndStep == DnsIInv /\ DiscoverEnd => DnsIInv'
  BY ReplyStep DEF DiscoverEnd, InProgress

LEMMA DiscoverStep == DnsIInv /\ Discover => DnsIInv'
  <1>. SUFFICES ASSUME DnsIInv, Discover PROVE DnsIInv'
    OBVIOUS
  <1>1. /\ query \in Query /\ query.pc = "get" /\ query.kind = "ALL" /\ query.field = "wg"
        /\ query' = [query EXCEPT !.pc = IF \A k \in Key : cache[k] = None THEN "done" ELSE "list"]
        /\ GetAll /\ MapTypeOK /\ LiveInv
    BY DEF Discover, DnsIInv, DnsTypeOK, QueryInv, InProgress
  <1>2. query'.pc = (IF \A k \in Key : cache[k] = None THEN "done" ELSE "list")
        /\ query'.kind = "ALL" /\ query'.field = "wg" /\ query'.key = query.key
        /\ query' \in Query
    BY <1>1 DEF Query
  <1>3. MapTypeOK' /\ LiveInv'
    BY <1>1, GetAllType, GetAllLive
  <1>4. [addr |-> [f \in Field |-> Empty], dirty |-> FALSE] \in PeerInfo
    BY DEF PeerInfo, Text
  <1>5. CopyMoves
    BY <1>1, <1>4, CallMoves, SelfAssumption
  <1>6. EtcdTypeOK' /\ answer' \subseteq Record /\ Remember /\ UNCHANGED answer
    BY DEF Discover, DnsIInv, DnsTypeOK, etcdVars, EtcdTypeOK
  <1>7. \A k \in Key, f \in Field : Asks(k, f)' <=> Asks(k, f)
    BY <1>1, <1>2 DEF Asks
  <1>8. QueryInv'
    BY <1>2 DEF QueryInv, Reading, InProgress
  <1>9. CopyInv'
    BY <1>1, <1>2 DEF CopyInv, GetAll
  <1>10. AnswerInv' /\ PairedSrv'
    BY <1>1, <1>2, <1>6 DEF DnsIInv, AnswerInv, PairedSrv, Rdata
  <1>. QED
    BY <1>2, <1>3, <1>5, <1>6, <1>7, <1>8, <1>9, <1>10, Step

LEMMA DiscoverPeerStep == DnsIInv /\ DiscoverPeer => DnsIInv'
  <1>. SUFFICES ASSUME DnsIInv, DiscoverPeer PROVE DnsIInv'
    OBVIOUS
  <1>1. /\ query \in Query /\ query.pc = "list" /\ query.kind = "ALL" /\ query.field = "wg"
        /\ UNCHANGED mapVars
    BY DEF DiscoverPeer, DnsIInv, DnsTypeOK, QueryInv, InProgress
  <1>2. PICK k \in Key :
          /\ copy[k] # None
          /\ query' = [query EXCEPT !.pc = "check", !.key = k]
          /\ answer' = answer \cup {[owner |-> k, type |-> "SRV", field |-> "wg", value |-> None]}
    BY DEF DiscoverPeer
  <1>3. query'.pc = "check" /\ query'.kind = "ALL" /\ query'.field = "wg" /\ query'.key = k
        /\ query' \in Query
    BY <1>1, <1>2 DEF Query
  <1>4. MapTypeOK' /\ LiveInv' /\ CopyMoves
    BY <1>1 DEF mapVars, DnsIInv, DnsTypeOK, MapTypeOK, LiveInv, CopyMoves
  <1>5. EtcdTypeOK' /\ Remember
    BY DEF DiscoverPeer, DnsIInv, DnsTypeOK, etcdVars, EtcdTypeOK
  <1>6. [owner |-> k, type |-> "SRV", field |-> "wg", value |-> None] \in Record
    BY DEF Record, Field
  <1>7. answer' \subseteq Record
    BY <1>2, <1>6 DEF DnsIInv, DnsTypeOK
  <1>8. \A j \in Key, f \in Field : Asks(j, f)' <=> Asks(j, f)
    BY <1>1, <1>3 DEF Asks
  <1>9. QueryInv'
    BY <1>1, <1>2, <1>3, SentinelAssumption DEF QueryInv, Reading, InProgress, Asks, mapVars
  <1>10. CopyInv'
    BY <1>1, <1>3 DEF CopyInv
  <1>11. AnswerInv'
    BY <1>1, <1>2, <1>3 DEF DnsIInv, AnswerInv
  <1>12. PairedSrv'
    BY <1>3, <1>11 DEF AnswerInv, PairedSrv
  <1>13. \A r \in answer' : r \notin answer => Served(r)'
    BY <1>2 DEF Served
  <1>. QED
    BY <1>3, <1>4, <1>5, <1>7, <1>8, <1>9, <1>10, <1>11, <1>12, <1>13, Step

\* Where a query goes when it is done with a field.
LEMMA AdvanceMoves ==
    ASSUME DnsIInv, Reading, Advance, UNCHANGED <<cache, writing, etcdVars>>
    PROVE  /\ MapTypeOK' /\ EtcdTypeOK' /\ LiveInv' /\ CopyMoves
           /\ query' \in Query /\ QueryInv' /\ CopyInv'
           /\ query'.kind = query.kind
           /\ (InProgress /\ query.kind = "SRV")' => query.field = "lan" /\ query'.field = "nat"
           /\ \A k \in Key, f \in Field : copy'[k] \notin {None, Live} /\ Asks(k, f)' => Asks(k, f)
  <1>1. /\ query \in Query /\ query.key \in Key /\ copy[query.key] # None
        /\ Asks(query.key, query.field)
        /\ query.kind \in {"CNAME", "ALL"} => query.field = "wg"
    BY DEF DnsIInv, DnsTypeOK, Query, QueryInv, Reading, InProgress
  <1>2. EtcdTypeOK'
    BY DEF DnsIInv, DnsTypeOK, etcdVars, EtcdTypeOK
  <1>3. CASE /\ query.kind = "SRV" /\ query.field = "lan"
             /\ query' = [query EXCEPT !.pc = "check", !.field = "nat"]
             /\ UNCHANGED copy
    <2>1. /\ query'.pc = "check" /\ query'.field = "nat" /\ query'.kind = "SRV"
          /\ query'.key = query.key /\ query' \in Query
      BY <1>1, <1>3 DEF Query, Field
    <2>2. MapTypeOK' /\ LiveInv' /\ CopyMoves
      BY <1>3 DEF DnsIInv, DnsTypeOK, MapTypeOK, LiveInv, CopyMoves
    <2>3. \A k \in Key, f \in Field : Asks(k, f)' <=> Asks(k, f)
      BY <1>3, <2>1 DEF Asks
    <2>4. Asks(query.key, query.field)'
      BY <2>1 DEF Asks
    <2>5. QueryInv'
      BY <1>1, <1>3, <2>1, <2>4, SentinelAssumption DEF QueryInv, Reading, InProgress
    <2>6. CopyInv'
      BY <1>3, <2>1 DEF DnsIInv, CopyInv
    <2>. QED
      BY <1>2, <1>3, <2>1, <2>2, <2>3, <2>5, <2>6
  <1>4. CASE /\ query.kind = "ALL"
             /\ query' = [query EXCEPT !.pc = "list", !.key = None]
             /\ copy' = [copy EXCEPT ![query.key] = None]
    <2>1. /\ query'.pc = "list" /\ query'.field = "wg" /\ query'.kind = "ALL"
          /\ query' \in Query
      BY <1>1, <1>4 DEF Query
    <2>2. MapTypeOK' /\ LiveInv' /\ CopyMoves
      BY <1>1, <1>4, SentinelAssumption DEF DnsIInv, DnsTypeOK, MapTypeOK, LiveInv, CopyMoves
    <2>3. \A k \in Key, f \in Field : Asks(k, f)' <=> Asks(k, f)
      BY <1>4, <2>1 DEF Asks
    <2>4. QueryInv'
      BY <2>1 DEF QueryInv, Reading, InProgress
    <2>5. CopyInv'
      BY <2>1 DEF CopyInv
    <2>. QED
      BY <1>2, <1>4, <2>1, <2>2, <2>3, <2>4, <2>5
  <1>5. CASE Reply
    <2>1. /\ query'.pc = "done" /\ query'.kind = query.kind /\ query' \in Query
          /\ copy' = [k \in Key |-> None]
      BY <1>1, <1>5 DEF Reply, Query
    <2>2. MapTypeOK' /\ LiveInv' /\ CopyMoves
      BY <2>1, SentinelAssumption DEF DnsIInv, DnsTypeOK, MapTypeOK, LiveInv, CopyMoves
    <2>3. QueryInv' /\ CopyInv'
      BY <2>1 DEF QueryInv, Reading, InProgress, CopyInv
    <2>. QED
      BY <1>2, <2>1, <2>2, <2>3 DEF InProgress
  <1>. QED
    BY <1>3, <1>4, <1>5 DEF Advance

LEMMA CheckStep == DnsIInv /\ Check => DnsIInv'
  <1>. SUFFICES ASSUME DnsIInv, Check PROVE DnsIInv'
    OBVIOUS
  <1>1. /\ Reading /\ UNCHANGED answer /\ Remember
        /\ UNCHANGED <<cache, writing, etcdVars>>
        /\ answer' \subseteq Record
    BY DEF Check, Reading, DnsIInv, DnsTypeOK
  <1>2. CASE query' = [query EXCEPT !.pc = "use"] /\ UNCHANGED copy
    <2>1. /\ query'.pc = "use" /\ query'.kind = query.kind /\ query'.key = query.key
          /\ query'.field = query.field /\ query' \in Query
      BY <1>2 DEF DnsIInv, DnsTypeOK, Query
    <2>2. MapTypeOK' /\ EtcdTypeOK' /\ LiveInv' /\ CopyMoves
      BY <1>1, <1>2
         DEF DnsIInv, DnsTypeOK, etcdVars, MapTypeOK, EtcdTypeOK, LiveInv, CopyMoves
    <2>3. \A k \in Key, f \in Field : Asks(k, f)' <=> Asks(k, f)
      BY <2>1 DEF Asks
    <2>4. Asks(query.key, query.field) <=> Asks(query.key, query.field)'
      BY <2>1 DEF Asks
    <2>5. QueryInv'
      BY <1>1, <1>2, <2>1, <2>4 DEF DnsIInv, QueryInv, Reading, InProgress
    <2>6. CopyInv'
      BY <1>2, <2>1 DEF DnsIInv, CopyInv
    <2>7. AnswerInv'
      BY <1>1, <2>1 DEF DnsIInv, AnswerInv, Reading, InProgress
    <2>8. PairedSrv'
      BY <1>1 DEF DnsIInv, PairedSrv, Rdata
    <2>. QED
      BY <1>1, <2>1, <2>2, <2>3, <2>5, <2>6, <2>7, <2>8, Step
  <1>3. CASE Advance
    <2>1. AnswerInv'
      BY <1>1, <1>3, AdvanceMoves DEF DnsIInv, AnswerInv, Reading, InProgress
    <2>2. PairedSrv'
      BY <1>1 DEF DnsIInv, PairedSrv, Rdata
    <2>. QED
      BY <1>1, <1>3, <2>1, <2>2, AdvanceMoves, Step
  <1>. QED
    BY <1>2, <1>3 DEF Check

\* The records of one reading belong to it.
LEMMA YieldsOfOneReading ==
    ASSUME NEW k \in Key, NEW f \in Field, NEW v \in Text, NEW rs \in Yields(k, f, v), NEW r \in rs
    PROVE  /\ r \in Record /\ r.owner = k /\ r.field = f /\ r.type \in {"A", "SRV"}
           /\ r.type = "SRV" => query.kind = "SRV" /\ r.value = v
           /\ r.type = "A" => r.value = Rdata(v)
  <1>1. r \in Records(k, f, v)
    BY DEF Yields
  <1>2. PICK t \in {"A", "SRV"} :
          /\ t = "SRV" => query.kind = "SRV"
          /\ r = [owner |-> k, type |-> t, field |-> f, value |-> IF t = "A" THEN Rdata(v) ELSE v]
    BY <1>1 DEF Records
  <1>3. Rdata(v) \in Text
    BY DEF Rdata, Text
  <1>. QED
    BY <1>2, <1>3 DEF Record

LEMMA UseStep == DnsIInv /\ Use => DnsIInv'
  <1>. SUFFICES ASSUME DnsIInv, Use PROVE DnsIInv'
    OBVIOUS
  <1>1. /\ Reading /\ InProgress /\ Remember /\ Advance
        /\ UNCHANGED <<cache, writing, etcdVars>>
    BY DEF Use, Reading, InProgress
  <1>2. /\ query.key \in Key /\ query.field \in Field /\ copy[query.key] # None
        /\ Asks(query.key, query.field)
    BY <1>1 DEF DnsIInv, DnsTypeOK, Query, QueryInv
  <1>3. PICK v \in Reads(query.key, query.field) :
          \E rs \in Yields(query.key, query.field, v) : answer' = answer \cup rs
    BY DEF Use
  <1>4. PICK rs \in Yields(query.key, query.field, v) : answer' = answer \cup rs
    BY <1>3
  <1>5. v \in Text
    BY <1>2, ReadsType DEF DnsIInv, DnsTypeOK, LiveInv
  <1>6. \A r \in rs :
          /\ r \in Record /\ r.owner = query.key /\ r.field = query.field
          /\ r.type \in {"A", "SRV"}
          /\ r.type = "SRV" => query.kind = "SRV" /\ r.value = v
          /\ r.type = "A" => r.value = Rdata(v)
    BY <1>2, <1>5, YieldsOfOneReading
  <1>7. answer' \subseteq Record
    BY <1>4, <1>6 DEF DnsIInv, DnsTypeOK
  <1>8. \A r \in answer' : r \notin answer => Served(r)'
    <2>1. v \in held[query.key][query.field]
      BY <1>2 DEF DnsIInv, HeldInv
    <2>2. v \in held'[query.key][query.field]
      BY <1>1, <1>2, <2>1 DEF Remember
    <2>. QED
      BY <1>4, <1>6, <2>2 DEF Served, Rdata
  <1>9. query.kind = "SRV" => query.field \in {"lan", "nat"}
    BY <1>2 DEF Asks, Field
  <1>10. /\ query'.kind = query.kind
         /\ (InProgress /\ query.kind = "SRV")' => query.field = "lan" /\ query'.field = "nat"
    BY <1>1, AdvanceMoves
  <1>11. AnswerInv'
    BY <1>1, <1>4, <1>6, <1>10 DEF DnsIInv, AnswerInv
  <1>12. PairedSrv'
    <2>1. CASE query.kind # "SRV"
      BY <1>10, <1>11, <2>1 DEF AnswerInv, PairedSrv
    <2>2. CASE query.kind = "SRV"
      <3>1. \A r \in answer : r.field # query.field
        BY <1>1, <1>9, <2>2 DEF DnsIInv, AnswerInv
      <3>2. SUFFICES ASSUME NEW r \in answer', NEW s \in answer',
                            r.type = "SRV", r.value # None, s.type = "A",
                            r.owner = s.owner, r.field = s.field
                     PROVE  s.value = Rdata(r.value)
        BY DEF PairedSrv, Rdata
      <3>3. CASE r \in answer
        BY <1>4, <1>6, <3>1, <3>2, <3>3 DEF DnsIInv, PairedSrv
      <3>4. CASE r \in rs
        BY <1>4, <1>6, <3>1, <3>2, <3>4
      <3>. QED
        BY <1>4, <3>3, <3>4
    <2>. QED
      BY <2>1, <2>2
  <1>. QED
    BY <1>1, <1>7, <1>8, <1>11, <1>12, AdvanceMoves, Step

LEMMA StutterInv == DnsIInv /\ UNCHANGED dnsVars => DnsIInv'
  <1>. SUFFICES ASSUME DnsIInv, UNCHANGED dnsVars PROVE DnsIInv'
    OBVIOUS
  <1>. USE DEF DnsIInv, dnsVars, mapVars, etcdVars
  <1>1. DnsTypeOK' /\ LiveInv' /\ QueryInv' /\ CopyInv'
    BY DEF DnsTypeOK, MapTypeOK, EtcdTypeOK, LiveInv, QueryInv, Reading, InProgress, Asks, CopyInv
  <1>2. HeldInv'
    BY DEF HeldInv, Visible, InProgress, Asks, CacheReads, Racing, Reads, Led
  <1>3. AnswerInv' /\ ServedWasHeld' /\ PairedSrv'
    BY DEF AnswerInv, InProgress, ServedWasHeld, PairedSrv, Rdata
  <1>. QED
    BY <1>1, <1>2, <1>3

LEMMA NextInv == DnsIInv /\ [DnsNext]_dnsVars => DnsIInv'
  <1>. SUFFICES ASSUME DnsIInv, [DnsNext]_dnsVars PROVE DnsIInv'
    OBVIOUS
  <1>1. CASE ReceiveA \/ ReceiveSRV \/ ReceiveAll \/ ReceiveOther
    BY <1>1, ReceiveSteps
  <1>2. CASE QueryStep
    BY <1>2, LookUpStep, AliasFoundStep, AliasNotFoundStep, CheckStep, UseStep,
       DiscoverStep, DiscoverPeerStep, DiscoverEndStep DEF QueryStep
  <1>3. CASE Change \/ FinishUpdate \/ ChangeAlias
    BY <1>3, ChangeStep, FinishUpdateStep, ChangeAliasStep
  <1>4. CASE UNCHANGED dnsVars
    BY <1>4, StutterInv
  <1>. QED
    BY <1>1, <1>2, <1>3, <1>4 DEF DnsNext

-----------------------------------------------------------------------------
(* The theorems                                                              *)

\* The invariant holds of every reachable state, whatever the plugin and the
\* administrators do to the cache and to the aliases while a query is answered.
THEOREM DnsInvariant == DnsSpec => []DnsIInv
  BY InitInv, NextInv, PTL DEF DnsSpec

\* Every variable of the handler keeps its type: ServeDNS never follows a nil
\* pointer into a record.
THEOREM DnsTypeCorrect == DnsSpec => []DnsTypeOK
  <1>1. DnsIInv => DnsTypeOK
    BY DEF DnsIInv
  <1>. QED
    BY <1>1, DnsInvariant, PTL

\* What handler.go serves as a field of a peer is what that field was at some
\* moment of the query, for any number of peers, aliases and concurrent changes.
THEOREM ServesWhatWasHeld == DnsSpec => []ServedWasHeld
  <1>1. DnsIInv => ServedWasHeld
    BY DEF DnsIInv
  <1>. QED
    BY <1>1, DnsInvariant, PTL

\* A port and an address that returnSRV puts into one answer for one endpoint of a
\* peer come from one reading of it.
THEOREM SrvIsPaired == DnsSpec => []PairedSrv
  <1>1. DnsIInv => PairedSrv
    BY DEF DnsIInv
  <1>. QED
    BY <1>1, DnsInvariant, PTL

-----------------------------------------------------------------------------
(* Complete answers: CompleteInv says it of the part of the work that a query *)
(* has behind it.                                                             *)

\* What is owed after a step was owed before it: held only grows, and it held
\* something as soon as the query asked for the field.
LEMMA OwedBefore ==
    ASSUME DnsIInv, Remember, InProgress \/ UNCHANGED query,
           query'.kind = query.kind, query'.key = query.key \/ query.kind = "ALL",
           query.kind = "A" => query'.field = query.field,
           NEW k \in Key
    PROVE  /\ \A f \in Field : Owed(k, f)' => Owed(k, f)
           /\ Listed(k)' => Listed(k)
  <1>1. \A f \in Field : held[k][f] \subseteq held'[k][f]
    BY DEF Remember
  <1>2. \A f \in Field : Asks(k, f)' => Asks(k, f)
    BY DEF Asks
  <1>3. CASE InProgress
    <2>1. \A f \in Field : Asks(k, f) => held[k][f] # {}
      BY <1>3 DEF DnsIInv, HeldInv, Visible, CacheReads
    <2>2. query.kind = "ALL" => Asks(k, "wg")
      BY DEF Asks
    <2>. QED
      BY <1>1, <1>2, <2>1, <2>2 DEF Owed, Listed, Field
  <1>4. CASE ~InProgress /\ UNCHANGED query
    <2>1. \A f \in Field : held'[k][f] = held[k][f]
      BY <1>4 DEF Remember, Visible, InProgress
    <2>. QED
      BY <1>2, <1>4, <2>1 DEF Owed, Listed, Field
  <1>. QED
    BY <1>3, <1>4

\* A step that passes no field by keeps what has been answered.
LEMMA NothingPassed ==
    ASSUME DnsIInv, CompleteInv, Remember, InProgress \/ UNCHANGED query,
           query'.kind = query.kind, query'.key = query.key \/ query.kind = "ALL",
           query.kind = "A" => query'.field = query.field,
           answer \subseteq answer',
           query'.pc = "alias" => query'.key = None,
           (Reading /\ query.kind = "ALL")' => \E r \in answer' : r.owner = query'.key,
           \A k \in Key, f \in Field : Pending(k, f) /\ Asks(k, f)' => Pending(k, f)'
    PROVE  CompleteInv'
  <1>1. ASSUME NEW k \in Key, NEW f \in Field, Owed(k, f)', ~Pending(k, f)'
        PROVE  \E r \in answer' : r.owner = k /\ r.field = f /\ r.value # None
    <2>1. Owed(k, f) /\ ~Pending(k, f)
      BY <1>1, OwedBefore DEF Owed
    <2>. QED
      BY <2>1 DEF CompleteInv
  <1>2. ASSUME NEW k \in Key, Listed(k)', ~Pending(k, "wg")'
        PROVE  \E r \in answer' : r.owner = k
    <2>1. Asks(k, "wg")'
      BY <1>2 DEF Listed, Asks
    <2>2. Listed(k) /\ ~Pending(k, "wg")
      BY <1>2, <2>1, OwedBefore DEF Field
    <2>. QED
      BY <2>2 DEF CompleteInv
  <1>. QED
    BY <1>1, <1>2 DEF CompleteInv

\* Nothing is owed, nothing is wrong.
LEMMA NothingOwed ==
    ASSUME ~Reading', query'.pc = "alias" => query'.key = None,
           \A k \in Key, f \in Field : ~Owed(k, f)' \/ Pending(k, f)',
           \A k \in Key : ~Listed(k)' \/ Pending(k, "wg")'
    PROVE  CompleteInv'
  BY DEF CompleteInv

LEMMA CompleteReceive ==
    DnsIInv /\ (ReceiveA \/ ReceiveSRV \/ ReceiveAll \/ ReceiveOther) => CompleteInv'
  <1>. SUFFICES ASSUME DnsIInv, ReceiveA \/ ReceiveSRV \/ ReceiveAll \/ ReceiveOther
                PROVE  CompleteInv'
    OBVIOUS
  <1>1. /\ query'.pc \in {"get", "alias", "done"}
        /\ query'.pc \in {"alias", "done"} => query'.key = None
        /\ query'.pc = "done" => query'.kind # "ALL" /\ query'.kind # "CNAME"
    BY DEF ReceiveA, ReceiveSRV, ReceiveAll, ReceiveOther, Receive
  <1>2. query'.pc = "done" => \A k \in Key, f \in Field : ~Asks(k, f)'
    BY <1>1, SentinelAssumption DEF Asks
  <1>3. query'.pc # "done" => \A k \in Key, f \in Field : Pending(k, f)'
    BY <1>1 DEF Pending
  <1>. QED
    BY <1>1, <1>2, <1>3, NothingOwed DEF Owed, Listed, Reading, Field

LEMMA CompleteLookUp == DnsIInv /\ CompleteInv /\ LookUp => CompleteInv'
  <1>. SUFFICES ASSUME DnsIInv, CompleteInv, LookUp PROVE CompleteInv'
    OBVIOUS
  <1>1. query \in Query /\ query.kind \in {"A", "SRV", "CNAME"} /\ query.pc = "get" /\ InProgress
    BY DEF LookUp, DnsIInv, DnsTypeOK, Query, QueryInv, InProgress, Kind
  <1>2. CASE NotGot
    <2>1. /\ query'.pc = "done" /\ query'.kind = query.kind /\ query'.key = query.key
          /\ query'.field = query.field
      BY <1>1, <1>2 DEF NotGot, Reply, Query
    <2>2. ASSUME NEW k \in Key, NEW f \in Field, Owed(k, f)' PROVE FALSE
      <3>1. Asks(k, f) /\ k = query.key
        BY <1>1, <2>1, <2>2 DEF Owed, Asks
      <3>2. cache[k] = None
        BY <1>2, <3>1, SentinelAssumption DEF NotGot
      <3>3. None \in held[k][f]
        BY <1>1, <3>1, <3>2 DEF DnsIInv, HeldInv, Visible
      <3>4. None \in held'[k][f]
        BY <3>3 DEF LookUp, Remember
      <3>. QED
        BY <2>2, <3>4 DEF Owed
    <2>3. \A k \in Key : ~Listed(k)'
      BY <1>1, <2>1 DEF Listed
    <2>. QED
      BY <2>1, <2>2, <2>3, NothingOwed DEF Reading
  <1>3. CASE Got
    <2>1. /\ query'.pc \in {"check", "use"} /\ query'.kind = query.kind /\ query'.key = query.key
          /\ query'.field = query.field
      BY <1>1, <1>3 DEF Got, Query
    <2>2. copy'[query.key] # None
      BY <1>3, SentinelAssumption DEF Got, Get, DnsIInv, DnsTypeOK, MapTypeOK, Query
    <2>3. query.kind = "SRV" => query.field = "lan"
      BY <1>1 DEF DnsIInv, QueryInv
    <2>4. \A k \in Key, f \in Field : Asks(k, f)' => Pending(k, f)'
      BY <1>1, <2>1, <2>2, <2>3 DEF Asks, Pending
    <2>. QED
      BY <1>1, <2>1, <2>4, NothingPassed DEF LookUp
  <1>. QED
    BY <1>2, <1>3 DEF LookUp

LEMMA CompleteAlias ==
    DnsIInv /\ CompleteInv /\ (AliasFound \/ AliasNotFound) => CompleteInv'
  <1>. SUFFICES ASSUME DnsIInv, CompleteInv, AliasFound \/ AliasNotFound PROVE CompleteInv'
    OBVIOUS
  <1>1. query \in Query /\ query.pc = "alias" /\ query.kind = "CNAME" /\ query.key = None
    BY DEF AliasFound, AliasNotFound, DnsIInv, DnsTypeOK, QueryInv, CompleteInv
  <1>2. CASE AliasFound
    BY <1>1, <1>2, NothingOwed DEF AliasFound, Pending, Reading, Query
  <1>3. CASE AliasNotFound
    <2>1. query'.pc = "done" /\ query'.kind = "CNAME" /\ query'.key = None
      BY <1>1, <1>3 DEF AliasNotFound, Reply, Query
    <2>. QED
      BY <2>1, SentinelAssumption, NothingOwed DEF Owed, Asks, Listed, Reading
  <1>. QED
    BY <1>2, <1>3

LEMMA CompleteDiscover == DnsIInv /\ CompleteInv /\ Discover => CompleteInv'
  <1>. SUFFICES ASSUME DnsIInv, CompleteInv, Discover PROVE CompleteInv'
    OBVIOUS
  <1>1. query \in Query /\ query.kind = "ALL" /\ query.pc = "get" /\ InProgress
    BY DEF Discover, DnsIInv, DnsTypeOK, InProgress
  <1>2. /\ query'.pc = (IF \A k \in Key : cache[k] = None THEN "done" ELSE "list")
        /\ query'.kind = "ALL"
    BY <1>1 DEF Discover, Query
  <1>3. ASSUME NEW k \in Key, ~Pending(k, "wg")' PROVE None \in held'[k]["wg"]
    <2>1. cache[k] = None
      BY <1>2, <1>3, SentinelAssumption DEF Discover, GetAll, Pending
    <2>2. None \in held[k]["wg"]
      BY <1>1, <2>1 DEF DnsIInv, HeldInv, Visible, Asks, Field
    <2>. QED
      BY <2>2 DEF Discover, Remember, Field
  <1>4. \A k \in Key, f \in Field : Owed(k, f)' => f = "wg"
    BY <1>2 DEF Owed, Asks
  <1>5. \A k \in Key : ~Listed(k)' \/ Pending(k, "wg")'
    BY <1>3 DEF Listed
  <1>6. \A k \in Key, f \in Field : ~Owed(k, f)' \/ Pending(k, f)'
    BY <1>3, <1>4 DEF Owed
  <1>. QED
    BY <1>2, <1>5, <1>6, NothingOwed DEF Reading

LEMMA CompleteDiscoverPeer == DnsIInv /\ CompleteInv /\ DiscoverPeer => CompleteInv'
  <1>. SUFFICES ASSUME DnsIInv, CompleteInv, DiscoverPeer PROVE CompleteInv'
    OBVIOUS
  <1>1. query \in Query /\ query.pc = "list" /\ query.kind = "ALL" /\ InProgress
        /\ UNCHANGED mapVars
    BY DEF DiscoverPeer, DnsIInv, DnsTypeOK, QueryInv, InProgress
  <1>2. PICK k \in Key :
          /\ query' = [query EXCEPT !.pc = "check", !.key = k]
          /\ answer' = answer \cup {[owner |-> k, type |-> "SRV", field |-> "wg", value |-> None]}
    BY DEF DiscoverPeer
  <1>3. query'.pc = "check" /\ query'.kind = "ALL" /\ query'.key = k
    BY <1>1, <1>2 DEF Query
  <1>4. \A j \in Key, f \in Field : Pending(j, f) => Pending(j, f)'
    BY <1>1, <1>3 DEF Pending, mapVars
  <1>5. answer \subseteq answer' /\ \E r \in answer' : r.owner = k
    <2>1. [owner |-> k, type |-> "SRV", field |-> "wg", value |-> None].owner = k
      OBVIOUS
    <2>2. [owner |-> k, type |-> "SRV", field |-> "wg", value |-> None] \in answer'
      BY <1>2
    <2>. QED
      BY <1>2, <2>1, <2>2
  <1>6. Remember
    BY DEF DiscoverPeer
  <1>. QED
    BY <1>1, <1>3, <1>4, <1>5, <1>6, NothingPassed

LEMMA CompleteDiscoverEnd == DnsIInv /\ CompleteInv /\ DiscoverEnd => CompleteInv'
  <1>. SUFFICES ASSUME DnsIInv, CompleteInv, DiscoverEnd PROVE CompleteInv'
    OBVIOUS
  <1>1. query \in Query /\ query.pc = "list" /\ query.kind = "ALL" /\ InProgress
        /\ \A k \in Key : copy[k] = None
    BY DEF DiscoverEnd, DnsIInv, DnsTypeOK, QueryInv, InProgress
  <1>2. query'.pc = "done" /\ query'.kind = "ALL"
    BY <1>1 DEF DiscoverEnd, Reply, Query
  <1>3. \A k \in Key, f \in Field : ~Pending(k, f)
    BY <1>1 DEF Pending
  <1>. QED
    BY <1>1, <1>2, <1>3, NothingPassed DEF DiscoverEnd, Reading

\* Only the field at hand is passed by.
LEMMA AdvancePasses ==
    ASSUME DnsIInv, Reading, Advance
    PROVE  /\ query'.kind = query.kind /\ query'.pc # "alias"
           /\ query'.key = query.key \/ query.kind = "ALL"
           /\ query.kind = "A" => query'.field = query.field
           /\ ~(Reading /\ query.kind = "ALL")'
           /\ \A k \in Key, f \in Field :
                Pending(k, f) /\ Asks(k, f)' => Pending(k, f)' \/ (k = query.key /\ f = query.field)
  <1>1. /\ query \in Query /\ query.key \in Key /\ copy \in [Key -> PeerInfo \cup {None, Live}]
        /\ Asks(query.key, query.field) /\ query.pc \in {"check", "use"}
        /\ query.kind \in {"CNAME", "ALL"} => query.field = "wg"
    BY DEF DnsIInv, DnsTypeOK, MapTypeOK, Query, QueryInv, Reading, InProgress
  <1>2. CASE /\ query.kind = "SRV" /\ query.field = "lan"
             /\ query' = [query EXCEPT !.pc = "check", !.field = "nat"]
             /\ UNCHANGED copy
    <2>1. /\ query'.pc = "check" /\ query'.field = "nat" /\ query'.kind = "SRV"
          /\ query'.key = query.key
      BY <1>1, <1>2 DEF Query
    <2>. QED
      BY <1>1, <1>2, <2>1 DEF Asks, Pending, Reading
  <1>3. CASE /\ query.kind = "ALL"
             /\ query' = [query EXCEPT !.pc = "list", !.key = None]
             /\ copy' = [copy EXCEPT ![query.key] = None]
    <2>1. /\ query'.pc = "list" /\ query'.field = "wg" /\ query'.kind = "ALL"
      BY <1>1, <1>3 DEF Query
    <2>2. query.field = "wg"
      BY <1>1, <1>3
    <2>3. \A k \in Key : k # query.key => copy'[k] = copy[k]
      BY <1>1, <1>3
    <2>. QED
      BY <1>1, <1>3, <2>1, <2>2, <2>3 DEF Asks, Pending, Reading
  <1>4. CASE /\ query.kind \in {"A", "CNAME"} \/ (query.kind = "SRV" /\ query.field = "nat")
             /\ Reply
    <2>1. /\ query'.pc = "done" /\ query'.kind = query.kind /\ query'.key = query.key
          /\ query'.field = query.field
      BY <1>1, <1>4 DEF Reply, Query
    <2>2. ASSUME NEW k \in Key, NEW f \in Field, Pending(k, f), Asks(k, f)'
          PROVE  k = query.key /\ f = query.field
      BY <1>1, <1>4, <2>1, <2>2 DEF Asks, Pending, Field
    <2>. QED
      BY <2>1, <2>2 DEF Reading
  <1>. QED
    BY <1>2, <1>3, <1>4 DEF Advance

\* To go on with nothing owed for the field at hand, or with what is owed for it.
LEMMA AdvanceCompletes ==
    ASSUME DnsIInv, CompleteInv, Reading, Advance, Remember, answer \subseteq answer',
           NEW own \in Key, NEW at \in Field, own = query.key, at = query.field,
           Owed(own, at)' => \E r \in answer' : r.owner = own /\ r.field = at /\ r.value # None
    PROVE  CompleteInv'
  <1>1. InProgress
    BY DEF Reading, InProgress
  <1>2. \A k \in Key :
          /\ \A f \in Field : Owed(k, f)' => Owed(k, f)
          /\ Listed(k)' => Listed(k)
    BY <1>1, AdvancePasses, OwedBefore
  <1>3. ASSUME NEW k \in Key, NEW f \in Field, Owed(k, f)', ~Pending(k, f)'
        PROVE  \E r \in answer' : r.owner = k /\ r.field = f /\ r.value # None
    <2>1. CASE k = own /\ f = at
      BY <1>3, <2>1
    <2>2. CASE ~(k = own /\ f = at)
      <3>1. Owed(k, f) /\ ~Pending(k, f)
        BY <1>2, <1>3, <2>2, AdvancePasses DEF Owed
      <3>. QED
        BY <3>1 DEF CompleteInv
    <2>. QED
      BY <2>1, <2>2
  <1>4. ASSUME NEW k \in Key, Listed(k)', ~Pending(k, "wg")'
        PROVE  \E r \in answer' : r.owner = k
    <2>1. Listed(k) /\ query.kind = "ALL" /\ Asks(k, "wg")'
      BY <1>2, <1>4 DEF Listed, Asks
    <2>2. CASE k = query.key
      BY <2>1, <2>2 DEF CompleteInv
    <2>3. CASE k # query.key
      <3>1. ~Pending(k, "wg")
        BY <1>4, <2>1, <2>3, AdvancePasses DEF Field
      <3>. QED
        BY <2>1, <3>1 DEF CompleteInv
    <2>. QED
      BY <2>2, <2>3
  <1>. QED
    BY <1>3, <1>4, AdvancePasses DEF CompleteInv

LEMMA CompleteCheck == DnsIInv /\ CompleteInv /\ Check => CompleteInv'
  <1>. SUFFICES ASSUME DnsIInv, CompleteInv, Check PROVE CompleteInv'
    OBVIOUS
  <1>1. /\ query \in Query /\ query.pc = "check" /\ Reading /\ InProgress /\ Remember
        /\ UNCHANGED answer
    BY DEF Check, DnsIInv, DnsTypeOK, Reading, InProgress
  <1>2. CASE query' = [query EXCEPT !.pc = "use"] /\ UNCHANGED copy
    <2>1. /\ query'.pc = "use" /\ query'.kind = query.kind /\ query'.key = query.key
          /\ query'.field = query.field
      BY <1>1, <1>2 DEF Query
    <2>2. \A k \in Key, f \in Field : Pending(k, f) => Pending(k, f)'
      BY <1>1, <1>2, <2>1 DEF Pending
    <2>3. (Reading /\ query.kind = "ALL")' => \E r \in answer' : r.owner = query'.key
      BY <1>1, <2>1 DEF CompleteInv
    <2>. QED
      BY <1>1, <2>1, <2>2, <2>3, NothingPassed
  <1>3. CASE Empty \in Reads(query.key, query.field) /\ Advance
    <2>1. PICK own \in Key, at \in Field : own = query.key /\ at = query.field
      BY <1>1 DEF DnsIInv, DnsTypeOK, Query, QueryInv
    <2>2. copy[own] # None /\ Asks(own, at)
      BY <1>1, <2>1 DEF DnsIInv, QueryInv
    <2>3. Empty \in held[own][at]
      BY <1>3, <2>1, <2>2 DEF DnsIInv, HeldInv
    <2>4. Empty \in held'[own][at]
      BY <1>1, <2>3 DEF Remember
    <2>5. ~Owed(own, at)'
      BY <2>4 DEF Owed
    <2>. QED
      BY <1>1, <1>3, <2>1, <2>5, AdvanceCompletes
  <1>. QED
    BY <1>2, <1>3 DEF Check

\* A reading that was neither empty nor torn is in the answer, unless an A record
\* would have to be made of a name.
LEMMA YieldsSomething ==
    ASSUME NEW k \in Key, NEW f \in Field, NEW v \in Text, v \notin {Empty, Torn},
           query.kind # "SRV" => v \notin Named, NEW rs \in Yields(k, f, v)
    PROVE  \E r \in rs : r.owner = k /\ r.field = f /\ r.value # None
  <1>1. rs = Records(k, f, v) /\ v # None /\ Rdata(v) # None
    BY SentinelAssumption DEF Yields, Rdata, Text
  <1>2. CASE query.kind = "SRV"
    <2>1. [owner |-> k, type |-> "SRV", field |-> f, value |-> v] \in rs
      BY <1>1, <1>2 DEF Records
    <2>. QED
      BY <1>1, <2>1
  <1>3. CASE query.kind # "SRV"
    <2>1. [owner |-> k, type |-> "A", field |-> f, value |-> Rdata(v)] \in rs
      BY <1>1, <1>3 DEF Records
    <2>. QED
      BY <1>1, <2>1
  <1>. QED
    BY <1>2, <1>3

LEMMA CompleteUse == DnsIInv /\ CompleteInv /\ Use => CompleteInv'
  <1>. SUFFICES ASSUME DnsIInv, CompleteInv, Use PROVE CompleteInv'
    OBVIOUS
  <1>1. /\ Reading /\ InProgress /\ Remember /\ Advance
    BY DEF Use, Reading, InProgress
  <1>2. PICK own \in Key, at \in Field : own = query.key /\ at = query.field
    BY <1>1 DEF DnsIInv, DnsTypeOK, Query, QueryInv
  <1>3. copy[own] # None /\ Asks(own, at)
    BY <1>1, <1>2 DEF DnsIInv, QueryInv
  <1>4. PICK v \in Reads(own, at) : \E rs \in Yields(own, at, v) : answer' = answer \cup rs
    BY <1>2 DEF Use
  <1>5. PICK rs \in Yields(own, at, v) : answer' = answer \cup rs
    BY <1>4
  <1>6. v \in Text
    BY <1>3, ReadsType DEF DnsIInv, DnsTypeOK, LiveInv
  <1>7. v \in held'[own][at]
    BY <1>1, <1>3 DEF DnsIInv, HeldInv, Remember
  <1>8. query'.kind = query.kind
    BY <1>1, AdvancePasses
  <1>9. ASSUME Owed(own, at)'
        PROVE  \E r \in answer' : r.owner = own /\ r.field = at /\ r.value # None
    <2>1. v \notin {Empty, Torn} /\ (query.kind # "SRV" => v \notin Named)
      BY <1>7, <1>8, <1>9 DEF Owed
    <2>2. \E r \in rs : r.owner = own /\ r.field = at /\ r.value # None
      BY <1>6, <2>1, YieldsSomething
    <2>. QED
      BY <1>5, <2>2
  <1>. QED
    BY <1>1, <1>2, <1>5, <1>9, AdvanceCompletes

LEMMA CompleteOthers ==
    DnsIInv /\ CompleteInv /\ (Change \/ FinishUpdate \/ ChangeAlias) => CompleteInv'
  <1>. SUFFICES ASSUME DnsIInv, CompleteInv, Change \/ FinishUpdate \/ ChangeAlias
                PROVE  CompleteInv'
    OBVIOUS
  <1>1. UNCHANGED <<query, answer>> /\ Remember
    BY DEF Change, FinishUpdate, ChangeAlias
  <1>2. MapTypeOK /\ LiveInv
    BY DEF DnsIInv, DnsTypeOK
  <1>3. \A k \in Key : copy[k] # None => copy'[k] # None
    <2>1. CASE Change
      BY <1>2, <2>1, SentinelAssumption
         DEF Change, Delete, Set, BeginUpdate, Detached, MapTypeOK, LiveInv
    <2>2. CASE FinishUpdate
      BY <2>2 DEF FinishUpdate, EndUpdate
    <2>3. CASE ChangeAlias
      BY <2>3 DEF ChangeAlias, mapVars
    <2>. QED
      BY <2>1, <2>2, <2>3
  <1>4. \A k \in Key, f \in Field : Pending(k, f) => Pending(k, f)'
    BY <1>1, <1>3 DEF Pending
  <1>5. /\ query'.pc = "alias" => query'.key = None
        /\ (Reading /\ query.kind = "ALL")' => \E r \in answer' : r.owner = query'.key
    BY <1>1 DEF CompleteInv, Reading
  <1>. QED
    BY <1>1, <1>4, <1>5, NothingPassed

LEMMA CompleteStutter == CompleteInv /\ UNCHANGED dnsVars => CompleteInv'
  BY DEF dnsVars, mapVars, CompleteInv, Reading, Owed, Asks, Pending, Listed

LEMMA CompleteInit == DnsInit => CompleteInv
  BY DEF DnsInit, NoQuery, CompleteInv, Reading, Owed, Listed

LEMMA CompleteNext == DnsIInv /\ CompleteInv /\ [DnsNext]_dnsVars => CompleteInv'
  <1>. SUFFICES ASSUME DnsIInv, CompleteInv, [DnsNext]_dnsVars PROVE CompleteInv'
    OBVIOUS
  <1>1. CASE ReceiveA \/ ReceiveSRV \/ ReceiveAll \/ ReceiveOther
    BY <1>1, CompleteReceive
  <1>2. CASE QueryStep
    BY <1>2, CompleteLookUp, CompleteAlias, CompleteCheck, CompleteUse, CompleteDiscover,
       CompleteDiscoverPeer, CompleteDiscoverEnd DEF QueryStep
  <1>3. CASE Change \/ FinishUpdate \/ ChangeAlias
    BY <1>3, CompleteOthers
  <1>4. CASE UNCHANGED dnsVars
    BY <1>4, CompleteStutter
  <1>. QED
    BY <1>1, <1>2, <1>3, <1>4 DEF DnsNext

\* No change of a peer makes handler.go lose another one, or a field of the same one
\* that stood all the time: whatever goes on in the cache, for any number of peers.
THEOREM AnswersAreComplete == DnsSpec => []AnswerComplete
  <1>1. CompleteInv => AnswerComplete
    <2>1. query.pc = "done" => \A k \in Key, f \in Field : ~Pending(k, f)
      BY DEF Pending
    <2>2. "wg" \in Field
      BY DEF Field
    <2>. QED
      BY <2>1, <2>2 DEF CompleteInv, AnswerComplete
  <1>. QED
    BY <1>1, DnsInvariant, CompleteInit, CompleteNext, PTL DEF DnsSpec
=============================================================================
