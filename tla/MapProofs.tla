------------------------------ MODULE MapProofs -----------------------------
(* Lemmas about the calls of the cache and of etcd, for the proofs about the  *)
(* modules that make them.                                                   *)
EXTENDS PeerMap, Etcd, TLAPS

-----------------------------------------------------------------------------
(* Types                                                                     *)

LEMMA LoadedType ==
    ASSUME EtcdTypeOK, NEW k \in Key, NEW ip \in IP \cup {Empty}
    PROVE  Loaded(k, ip) \in PeerInfo
  BY DEF Loaded, EtcdTypeOK, PeerInfo, Text, Field

LEMMA AfterUpdateType ==
    ASSUME NEW info \in PeerInfo
    PROVE  AfterUpdate(info) \in PeerInfo /\ AfterUpdate(info).dirty
           /\ AfterUpdate(info).addr = info.addr
  BY DEF AfterUpdate, PeerInfo

LEMMA SetType ==
    ASSUME MapTypeOK, NEW k \in Key, NEW info \in PeerInfo, Set(k, info)
    PROVE  MapTypeOK'
  BY DEF MapTypeOK, Set, Detached

LEMMA DeleteType ==
    ASSUME MapTypeOK, NEW k \in Key, Delete(k)
    PROVE  MapTypeOK'
  BY DEF MapTypeOK, Delete, Detached

LEMMA GetAllType ==
    ASSUME MapTypeOK, GetAll
    PROVE  MapTypeOK'
  BY DEF MapTypeOK, GetAll

LEMMA GetType ==
    ASSUME MapTypeOK, NEW k \in Key, Get(k)
    PROVE  MapTypeOK'
  BY DEF MapTypeOK, Get

LEMMA BeginUpdateType ==
    ASSUME MapTypeOK, NEW k \in Key, NEW info \in PeerInfo, BeginUpdate(k, info)
    PROVE  MapTypeOK'
  BY AfterUpdateType DEF MapTypeOK, BeginUpdate, Writing

LEMMA EndUpdateType ==
    ASSUME MapTypeOK, NEW k \in Key, EndUpdate(k)
    PROVE  MapTypeOK'
  BY DEF MapTypeOK, EndUpdate, Writing

LEMMA ClearedType ==
    ASSUME MapTypeOK, NEW k \in Key
    PROVE  Cleared(k) \in [Key -> PeerInfo \cup {None}]
  BY DEF MapTypeOK, Cleared, AfterUpdate, PeerInfo

LEMMA PutFieldsType ==
    ASSUME EtcdTypeOK, NEW k \in Key, NEW ops \in [Field -> Text \cup {None}], PutFields(k, ops)
    PROVE  store' \in [Key -> [Field -> Text \cup {None}]]
  BY DEF EtcdTypeOK, PutFields

LEMMA CacheReadsType ==
    ASSUME MapTypeOK, NEW k \in Key, NEW f \in Field, cache[k] # None
    PROVE  CacheReads(k, f) \subseteq Text
  BY SentinelAssumption DEF MapTypeOK, CacheReads, Racing, Writing, PeerInfo, Text

LEMMA ReadsType ==
    ASSUME MapTypeOK, NEW k \in Key, NEW f \in Field, copy[k] # None,
           copy[k] = Live => cache[k] # None
    PROVE  Reads(k, f) \subseteq Text
  BY CacheReadsType DEF MapTypeOK, Reads, PeerInfo

-----------------------------------------------------------------------------
(* LiveInv                                                                   *)

LEMMA SetLive ==
    ASSUME MapTypeOK, LiveInv, NEW k \in Key, NEW info \in PeerInfo, Set(k, info)
    PROVE  LiveInv'
  BY SentinelAssumption DEF MapTypeOK, LiveInv, Set, Detached, Unlocked

LEMMA DeleteLive ==
    ASSUME MapTypeOK, LiveInv, NEW k \in Key, Delete(k)
    PROVE  LiveInv'
  BY SentinelAssumption DEF MapTypeOK, LiveInv, Delete, Detached, Unlocked

LEMMA GetAllLive ==
    ASSUME MapTypeOK, LiveInv, GetAll
    PROVE  LiveInv'
  BY SentinelAssumption DEF MapTypeOK, LiveInv, GetAll

LEMMA GetLive ==
    ASSUME MapTypeOK, LiveInv, NEW k \in Key, Get(k)
    PROVE  LiveInv'
  BY SentinelAssumption DEF MapTypeOK, LiveInv, Get

LEMMA BeginUpdateLive ==
    ASSUME MapTypeOK, LiveInv, NEW k \in Key, NEW info \in PeerInfo, BeginUpdate(k, info)
    PROVE  LiveInv'
  BY SentinelAssumption DEF MapTypeOK, LiveInv, BeginUpdate

LEMMA EndUpdateLive ==
    ASSUME MapTypeOK, LiveInv, NEW k \in Key, writing.key = k, EndUpdate(k)
    PROVE  LiveInv'
  BY SentinelAssumption DEF MapTypeOK, LiveInv, EndUpdate, Writing
\* What a step does to the pointers: it drops some, takes some, and lets others be
\* frozen at what the cache held.
CopyMoves ==
    \A k \in Key : copy'[k] \in {None, Live, copy[k]} \/ (copy[k] = Live /\ copy'[k] = cache[k])

LEMMA CallMoves ==
    ASSUME MapTypeOK, NEW k \in Key, NEW info \in PeerInfo,
           Set(k, info) \/ Delete(k) \/ BeginUpdate(k, info) \/ EndUpdate(k) \/ Get(k) \/ GetAll
    PROVE  CopyMoves
  BY DEF CopyMoves, MapTypeOK, Set, Delete, Detached, BeginUpdate, EndUpdate, Get, GetAll
=============================================================================
