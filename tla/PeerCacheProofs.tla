--------------------------- MODULE PeerCacheProofs --------------------------
(* Proofs that PeerCache implements PeerMap for any number of peers and of    *)
(* objects, and that what PeerMap says of racing reads covers all of them.     *)
EXTENDS CacheInv, TLAPS

LEMMA InitInv == Init => CacheIInv
  BY SentinelAssumption
     DEF Init, CacheIInv, TypeOK, NoDangling, NoSharing, HalfWritten, Unlocked

LEMMA SetInv ==
    ASSUME CacheIInv, NEW k \in Key, NEW info \in Infos, Set(k, info)
    PROVE  CacheIInv'
  <1>1. PICK o \in Obj : /\ heap[o] = None
                         /\ heap' = [heap EXCEPT ![o] = info]
                         /\ peers' = [peers EXCEPT ![k] = o]
    BY DEF Set
  <1>2. UNCHANGED <<held, lock>> /\ Unlocked /\ info \in PeerInfo /\ o # None /\ info # None
    BY InfosAssumption, SentinelAssumption DEF Set
  <1>3. TypeOK'
    BY <1>1, <1>2 DEF CacheIInv, TypeOK
  <1>4. NoDangling'
    BY <1>1, <1>2 DEF CacheIInv, TypeOK, NoDangling, Unlocked
  <1>5. NoSharing'
    BY <1>1, <1>2 DEF CacheIInv, TypeOK, NoDangling, NoSharing
  <1>. QED
    BY <1>2, <1>3, <1>4, <1>5 DEF CacheIInv, HalfWritten, Unlocked

LEMMA BeginInv ==
    ASSUME CacheIInv, NEW k \in Key, NEW info \in Infos, Begin(k, info)
    PROVE  CacheIInv'
  <1>1. /\ UNCHANGED <<peers, heap, held>> /\ peers[k] # None /\ heap[peers[k]] \in PeerInfo
        /\ lock' = [key |-> k, old |-> heap[peers[k]],
                    info |-> [info EXCEPT !.dirty = TRUE], todo |-> Field, at |-> None]
    BY DEF Begin, CacheIInv, TypeOK, NoDangling
  <1>2. [info EXCEPT !.dirty = TRUE] \in PeerInfo /\ [info EXCEPT !.dirty = TRUE].dirty
    BY InfosAssumption DEF PeerInfo
  <1>3. TypeOK'
    BY <1>1, <1>2 DEF CacheIInv, TypeOK, Updating
  <1>4. NoDangling' /\ NoSharing'
    BY <1>1 DEF CacheIInv, NoDangling, NoSharing, Unlocked
  <1>5. HalfWritten'
    BY <1>1, <1>2, InfosAssumption DEF HalfWritten
  <1>. QED
    BY <1>3, <1>4, <1>5 DEF CacheIInv

LEMMA UpdatingInv ==
    ASSUME CacheIInv, Assigned \/ End \/ \E f \in Field : Assign(f)
    PROVE  CacheIInv'
  <1>1. /\ ~Unlocked /\ lock.key \in Key /\ lock.old \in PeerInfo /\ lock.info \in PeerInfo
        /\ lock.todo \subseteq Field /\ lock.at \in Field \cup {None}
        /\ lock \in Updating
        /\ peers[lock.key] \in Obj /\ heap[peers[lock.key]] \in PeerInfo
    BY DEF Assigned, End, Assign, CacheIInv, TypeOK, NoDangling, Unlocked, Updating
  <1>2. ASSUME NEW f \in Field, Assign(f) PROVE CacheIInv'
    <2>1. /\ UNCHANGED <<peers, heap, held>> /\ lock.at = None /\ f \in lock.todo
          /\ lock' = [lock EXCEPT !.at = f, !.todo = @ \ {f}]
      BY <1>2 DEF Assign
    <2>2. /\ lock'.key = lock.key /\ lock'.old = lock.old /\ lock'.info = lock.info
          /\ lock'.at = f /\ lock'.todo = lock.todo \ {f}
      BY <1>1, <2>1
    <2>3. TypeOK'
      BY <1>1, <2>1 DEF CacheIInv, TypeOK, Updating
    <2>4. NoDangling' /\ NoSharing'
      BY <1>1, <2>1, <2>2 DEF CacheIInv, NoDangling, NoSharing, Unlocked
    <2>5. HalfWritten'
      BY <1>1, <2>1, <2>2, InfosAssumption DEF CacheIInv, HalfWritten
    <2>. QED
      BY <2>3, <2>4, <2>5 DEF CacheIInv
  <1>3. CASE Assigned
    <2>1. /\ UNCHANGED <<peers, held>> /\ lock.at \in Field
          /\ heap' = [heap EXCEPT ![peers[lock.key]].addr[lock.at] = lock.info.addr[lock.at]]
          /\ lock' = [lock EXCEPT !.at = None]
      BY <1>1, <1>3 DEF Assigned
    <2>2. /\ lock'.key = lock.key /\ lock'.old = lock.old /\ lock'.info = lock.info
          /\ lock'.at = None /\ lock'.todo = lock.todo
      BY <1>1, <2>1
    <2>3. \A f \in Field : heap'[peers[lock.key]].addr[f]
                             = IF f = lock.at THEN lock.info.addr[f] ELSE heap[peers[lock.key]].addr[f]
      BY <1>1, <2>1 DEF CacheIInv, TypeOK, PeerInfo
    <2>4. heap' \in [Obj -> PeerInfo \cup {None}]
      BY <1>1, <2>1 DEF CacheIInv, TypeOK, PeerInfo
    <2>5. heap'[peers[lock.key]] # None
      <3>1. heap'[peers[lock.key]] = [heap[peers[lock.key]] EXCEPT !.addr[lock.at] = lock.info.addr[lock.at]]
        BY <1>1, <2>1 DEF CacheIInv, TypeOK
      <3>2. heap'[peers[lock.key]] \in PeerInfo
        BY <1>1, <2>1, <3>1 DEF PeerInfo
      <3>. QED
        BY <3>2, SentinelAssumption
    <2>6. TypeOK'
      BY <1>1, <2>1, <2>4 DEF CacheIInv, TypeOK, Updating
    <2>7. NoDangling' /\ NoSharing'
      BY <1>1, <2>1, <2>2, <2>5 DEF CacheIInv, TypeOK, NoDangling, NoSharing, Unlocked
    <2>8. HalfWritten'
      BY <1>1, <2>1, <2>2, <2>3, InfosAssumption DEF CacheIInv, HalfWritten
    <2>. QED
      BY <2>6, <2>7, <2>8 DEF CacheIInv
  <1>4. CASE End
    <2>1. /\ UNCHANGED <<peers, held>> /\ lock' = None
          /\ heap' = [heap EXCEPT ![peers[lock.key]].dirty = TRUE]
      BY <1>4 DEF End
    <2>2. heap'[peers[lock.key]] = [heap[peers[lock.key]] EXCEPT !.dirty = TRUE]
      BY <1>1, <2>1 DEF CacheIInv, TypeOK
    <2>3. heap'[peers[lock.key]] \in PeerInfo
      BY <1>1, <2>2 DEF PeerInfo
    <2>4. TypeOK'
      BY <1>1, <2>1, <2>3 DEF CacheIInv, TypeOK, PeerInfo
    <2>5. NoDangling' /\ NoSharing'
      BY <1>1, <2>1, <2>3, SentinelAssumption DEF CacheIInv, TypeOK, NoDangling, NoSharing, Unlocked
    <2>. QED
      BY <2>1, <2>4, <2>5 DEF CacheIInv, HalfWritten, Unlocked
  <1>. QED
    BY <1>2, <1>3, <1>4

LEMMA PointersInv ==
    ASSUME CacheIInv,
           GetAll \/ (\E k \in Key : Get(k) \/ Delete(k) \/ Drop(k)) \/ \E o \in Obj : Collect(o)
    PROVE  CacheIInv'
  <1>1. TypeOK'
    BY DEF CacheIInv, TypeOK, GetAll, Get, Delete, Drop, Collect
  <1>2. ASSUME UNCHANGED <<heap, lock>>, GetAll \/ \E k \in Key : Get(k) \/ Delete(k) \/ Drop(k)
        PROVE  NoDangling' /\ NoSharing' /\ HalfWritten'
    BY <1>2 DEF CacheIInv, TypeOK, GetAll, Get, Delete, Drop, NoDangling, NoSharing, HalfWritten, Unlocked
  <1>3. ASSUME NEW o \in Obj, Collect(o) PROVE NoDangling' /\ NoSharing' /\ HalfWritten'
    <2>1. /\ UNCHANGED <<peers, held, lock>>
          /\ \A k \in Key : peers[k] # o /\ held[k] # o
          /\ heap' = [heap EXCEPT ![o] = None]
      BY <1>3 DEF Collect
    <2>2. NoDangling' /\ NoSharing'
      BY <2>1 DEF CacheIInv, TypeOK, NoDangling, NoSharing, Unlocked
    <2>3. ~Unlocked => heap'[peers[lock.key]] = heap[peers[lock.key]]
      BY <2>1 DEF CacheIInv, TypeOK, NoDangling, Unlocked, Updating
    <2>. QED
      BY <2>1, <2>2, <2>3 DEF CacheIInv, HalfWritten, Unlocked
  <1>4. GetAll \/ (\E k \in Key : Get(k) \/ Delete(k) \/ Drop(k)) => UNCHANGED <<heap, lock>>
    BY DEF GetAll, Get, Delete, Drop
  <1>. QED
    BY <1>1, <1>2, <1>3, <1>4 DEF CacheIInv

LEMMA NextInv == CacheIInv /\ [Next]_heapVars => CacheIInv'
  <1>. SUFFICES ASSUME CacheIInv, [Next]_heapVars PROVE CacheIInv'
    OBVIOUS
  <1>1. CASE UNCHANGED heapVars
    BY <1>1 DEF heapVars, CacheIInv, TypeOK, NoDangling, NoSharing, HalfWritten, Unlocked
  <1>2. CASE Next
    BY <1>2, SetInv, BeginInv, UpdatingInv, PointersInv DEF Next
  <1>. QED
    BY <1>1, <1>2

\* Pointers, objects and the lock of cache.go agree: the invariant holds however many
\* callers keep whichever pointers.
THEOREM CacheInvariant == Spec => []CacheIInv
  BY InitInv, NextInv, PTL DEF Spec

\* The map, its objects and the kept pointers have their types.
THEOREM PeerCacheTypeCorrect == Spec => []TypeOK
  <1>1. CacheIInv => TypeOK
    BY DEF CacheIInv
  <1>. QED
    BY <1>1, CacheInvariant, PTL

\* Update writes to the object of one peer only, and no other pointer is to it.
THEOREM NoObjectIsShared == Spec => []NoSharing
  <1>1. CacheIInv => NoSharing
    BY DEF CacheIInv
  <1>. QED
    BY <1>1, CacheInvariant, PTL


-----------------------------------------------------------------------------
(* Refinement                                                                 *)

\* The entry the map has for a peer, in the abstraction.
LEMMA ContentType ==
    ASSUME CacheIInv, NEW k \in Key
    PROVE  /\ Content(k) = None <=> peers[k] = None
           /\ Content(k) \in PeerInfo \cup {None}
           /\ Snapshot(k) \in PeerInfo \cup {None, Live}
           /\ Snapshot(k) = Live <=> held[k] # None /\ held[k] = peers[k]
  BY SentinelAssumption
     DEF CacheIInv, TypeOK, NoDangling, Unlocked, Updating, Content, Snapshot

LEMMA InitMaps == Init => M!MapInit
  BY DEF Init, M!MapInit, Content, Snapshot, Unlocked

LEMMA SetMaps ==
    ASSUME CacheIInv, NEW k \in Key, NEW info \in Infos, Set(k, info)
    PROVE  M!Set(k, info)
  <1>1. PICK o \in Obj : /\ heap[o] = None
                         /\ heap' = [heap EXCEPT ![o] = info]
                         /\ peers' = [peers EXCEPT ![k] = o]
    BY DEF Set
  <1>2. UNCHANGED <<held, lock>> /\ Unlocked /\ o # None
    BY InfosAssumption DEF Set
  <1>3. \A j \in Key : Content(j)' = IF j = k THEN info ELSE Content(j)
    BY <1>1, <1>2 DEF CacheIInv, TypeOK, NoDangling, Content, Unlocked
  <1>4. \A j \in Key : Snapshot(j)' = IF j = k /\ Snapshot(j) = Live THEN Content(j) ELSE Snapshot(j)
    BY <1>1, <1>2, SentinelAssumption
       DEF CacheIInv, TypeOK, NoDangling, Content, Snapshot, Unlocked
  <1>5. M!Unlocked /\ UNCHANGED (IF Unlocked THEN None ELSE [key |-> lock.key, info |-> lock.info])
    BY <1>2 DEF M!Unlocked, Unlocked
  <1>. QED
    BY <1>3, <1>4, <1>5 DEF M!Set, M!Detached

LEMMA DeleteMaps ==
    ASSUME CacheIInv, NEW k \in Key, Delete(k)
    PROVE  M!Delete(k)
  <1>1. UNCHANGED <<heap, held, lock>> /\ Unlocked /\ peers' = [peers EXCEPT ![k] = None]
    BY DEF Delete
  <1>2. \A j \in Key : Content(j)' = IF j = k THEN None ELSE Content(j)
    BY <1>1 DEF CacheIInv, TypeOK, NoDangling, Content, Unlocked
  <1>3. \A j \in Key : Snapshot(j)' = IF j = k /\ Snapshot(j) = Live THEN Content(j) ELSE Snapshot(j)
    BY <1>1, SentinelAssumption
       DEF CacheIInv, TypeOK, NoDangling, Content, Snapshot, Unlocked
  <1>4. M!Unlocked /\ UNCHANGED (IF Unlocked THEN None ELSE [key |-> lock.key, info |-> lock.info])
    BY <1>1 DEF M!Unlocked, Unlocked
  <1>. QED
    BY <1>2, <1>3, <1>4 DEF M!Delete, M!Detached

LEMMA PointersMap ==
    ASSUME CacheIInv
    PROVE  /\ GetAll => M!GetAll
           /\ \A k \in Key : Get(k) => M!Get(k)
           /\ \A k \in Key : Drop(k) => M!Forget(k)
  <1>1. UNCHANGED <<peers, heap, lock>> =>
            /\ \A j \in Key : Content(j)' = Content(j)
            /\ UNCHANGED (IF Unlocked THEN None ELSE [key |-> lock.key, info |-> lock.info])
    BY DEF Content, Unlocked
  <1>2. ASSUME GetAll PROVE M!GetAll
    <2>1. M!Unlocked /\ \A j \in Key : Snapshot(j)' = IF Content(j) = None THEN None ELSE Live
      BY <1>2, ContentType DEF GetAll, Unlocked, M!Unlocked, Snapshot
    <2>. QED
      BY <1>1, <1>2, <2>1 DEF GetAll, M!GetAll
  <1>3. ASSUME NEW k \in Key, Get(k) PROVE M!Get(k)
    <2>1. \A j \in Key : Snapshot(j)' = IF j # k THEN Snapshot(j)
                                        ELSE IF Content(j) = None THEN None ELSE Live
      BY <1>3, ContentType DEF CacheIInv, TypeOK, Get, Snapshot
    <2>2. M!Unlocked
      BY <1>3 DEF Get, Unlocked, M!Unlocked
    <2>. QED
      BY <1>1, <1>3, <2>1, <2>2 DEF Get, M!Get
  <1>4. ASSUME NEW k \in Key, Drop(k) PROVE M!Forget(k)
    <2>1. \A j \in Key : Snapshot(j)' = IF j = k THEN None ELSE Snapshot(j)
      BY <1>4 DEF CacheIInv, TypeOK, Drop, Snapshot
    <2>. QED
      BY <1>1, <1>4, <2>1 DEF Drop, M!Forget
  <1>. QED
    BY <1>2, <1>3, <1>4

LEMMA BeginMaps ==
    ASSUME CacheIInv, NEW k \in Key, NEW info \in Infos, Begin(k, info)
    PROVE  M!BeginUpdate(k, info)
  <1>1. /\ UNCHANGED <<peers, heap, held>> /\ Unlocked /\ peers[k] # None
        /\ lock' = [key |-> k, old |-> heap[peers[k]],
                    info |-> [info EXCEPT !.dirty = TRUE], todo |-> Field, at |-> None]
    BY DEF Begin
  <1>2. ~Unlocked'
    <2>1. heap[peers[k]] \in PeerInfo
      BY <1>1 DEF CacheIInv, TypeOK, NoDangling
    <2>2. lock' \in Updating
      BY <1>1, <2>1, InfosAssumption DEF Updating, PeerInfo
    <2>. QED
      BY <2>2, InfosAssumption DEF Unlocked
  <1>3. \A j \in Key : Content(j)' = Content(j) /\ Snapshot(j)' = Snapshot(j)
    BY <1>1, <1>2 DEF Content, Snapshot, Unlocked
  <1>. QED
    BY <1>1, <1>2, <1>3, ContentType
       DEF M!BeginUpdate, M!Unlocked, M!AfterUpdate, Unlocked

\* Half of an Update is not seen in the map, nor is the collection of garbage.
LEMMA StuttersMap ==
    ASSUME CacheIInv,
           Assigned \/ (\E f \in Field : Assign(f)) \/ (\E o \in Obj : Collect(o)) \/ UNCHANGED heapVars
    PROVE  UNCHANGED M!mapVars
  <1>1. SUFFICES /\ \A j \in Key : Content(j)' = Content(j) /\ Snapshot(j)' = Snapshot(j)
                 /\ UNCHANGED (IF Unlocked THEN None ELSE [key |-> lock.key, info |-> lock.info])
    BY DEF M!mapVars
  <1>2. CASE UNCHANGED heapVars
    BY <1>2 DEF heapVars, Content, Snapshot, Unlocked
  <1>3. ASSUME NEW f \in Field, Assign(f) PROVE <1>1!1
    <2>1. /\ UNCHANGED <<peers, heap, held>> /\ ~Unlocked /\ lock \in Updating
          /\ lock' = [lock EXCEPT !.at = f, !.todo = @ \ {f}]
      BY <1>3 DEF Assign, CacheIInv, TypeOK, Unlocked
    <2>2. lock'.key = lock.key /\ lock'.old = lock.old /\ lock'.info = lock.info /\ lock' \in Updating
      BY <2>1 DEF Updating
    <2>3. ~Unlocked'
      BY <2>2, InfosAssumption DEF Unlocked
    <2>. QED
      BY <2>1, <2>2, <2>3 DEF Content, Snapshot
  <1>4. CASE Assigned
    <2>1. /\ UNCHANGED <<peers, held>> /\ ~Unlocked /\ lock \in Updating
          /\ lock' = [lock EXCEPT !.at = None]
          /\ peers[lock.key] \in Obj
          /\ heap' = [heap EXCEPT ![peers[lock.key]] = heap'[peers[lock.key]]]
      BY <1>4 DEF Assigned, CacheIInv, TypeOK, NoDangling, Unlocked, Updating
    <2>2. lock'.key = lock.key /\ lock'.old = lock.old /\ lock'.info = lock.info /\ lock' \in Updating
      BY <2>1 DEF Updating
    <2>3. ~Unlocked'
      BY <2>2, InfosAssumption DEF Unlocked
    <2>4. \A j \in Key : j # lock.key /\ peers[j] # None => heap'[peers[j]] = heap[peers[j]]
      BY <2>1 DEF CacheIInv, TypeOK, NoSharing, Updating
    <2>5. \A j \in Key : held[j] # None /\ held[j] # peers[j] => heap'[held[j]] = heap[held[j]]
      BY <2>1 DEF CacheIInv, TypeOK, NoSharing, NoDangling, Updating
    <2>. QED
      BY <2>1, <2>2, <2>3, <2>4, <2>5 DEF Content, Snapshot
  <1>5. ASSUME NEW o \in Obj, Collect(o) PROVE <1>1!1
    BY <1>5 DEF Collect, CacheIInv, TypeOK, Content, Snapshot, Unlocked
  <1>. QED
    BY <1>2, <1>3, <1>4, <1>5

LEMMA EndMaps ==
    ASSUME CacheIInv, End
    PROVE  \E k \in Key :
             /\ ~Unlocked /\ lock.key = k
             /\ M!EndUpdate(k)
  <1>1. /\ ~Unlocked /\ lock \in Updating /\ lock.at = None /\ lock.todo = {} /\ lock' = None
        /\ UNCHANGED <<peers, held>>
        /\ heap' = [heap EXCEPT ![peers[lock.key]].dirty = TRUE]
        /\ lock.key \in Key /\ lock.info \in PeerInfo
        /\ peers[lock.key] \in Obj /\ heap[peers[lock.key]] \in PeerInfo
    BY DEF End, CacheIInv, TypeOK, NoDangling, Unlocked, Updating
  <1>2. Unlocked'
    BY <1>1 DEF Unlocked
  <1>3. heap'[peers[lock.key]] = [heap[peers[lock.key]] EXCEPT !.dirty = TRUE]
    BY <1>1 DEF CacheIInv, TypeOK
  <1>4. heap'[peers[lock.key]] = lock.info
    <2>1. \A f \in Field : heap[peers[lock.key]].addr[f] = lock.info.addr[f]
      BY <1>1, InfosAssumption DEF CacheIInv, HalfWritten
    <2>2. heap[peers[lock.key]].addr = lock.info.addr
      BY <1>1, <2>1 DEF PeerInfo
    <2>3. lock.info.dirty = TRUE
      BY <1>1 DEF CacheIInv, HalfWritten, PeerInfo
    <2>. QED
      BY <1>1, <1>3, <2>2, <2>3, ZenonT(40) DEF PeerInfo
  <1>5. \A j \in Key : j # lock.key /\ peers[j] # None => heap'[peers[j]] = heap[peers[j]]
    BY <1>1 DEF CacheIInv, TypeOK, NoSharing
  <1>6. \A j \in Key : held[j] # None /\ held[j] # peers[j] => heap'[held[j]] = heap[held[j]]
    BY <1>1 DEF CacheIInv, TypeOK, NoSharing, NoDangling
  <1>7. \A j \in Key : Content(j)' = IF j = lock.key THEN lock.info ELSE Content(j)
    BY <1>1, <1>2, <1>4, <1>5, InfosAssumption DEF Content
  <1>8. \A j \in Key : Snapshot(j)' = Snapshot(j)
    BY <1>1, <1>6 DEF Snapshot
  <1>9. M!EndUpdate(lock.key)
    <2>1. [key |-> lock.key, info |-> lock.info] # None
      BY <1>1, SentinelAssumption
    <2>. QED
      BY <1>1, <1>2, <1>7, <1>8, <2>1 DEF M!EndUpdate
  <1>. QED
    BY <1>1, <1>9

LEMMA NextMaps == CacheIInv /\ [Next]_heapVars => [M!MapNext]_M!mapVars
  <1>. SUFFICES ASSUME CacheIInv, [Next]_heapVars PROVE [M!MapNext]_M!mapVars
    OBVIOUS
  <1>1. CASE GetAll
    BY <1>1, PointersMap DEF M!MapNext
  <1>2. ASSUME NEW k \in Key, Get(k) \/ Delete(k) \/ Drop(k) PROVE M!MapNext
    BY <1>2, PointersMap, DeleteMaps DEF M!MapNext
  <1>3. ASSUME NEW k \in Key, NEW info \in Infos, Set(k, info) \/ Begin(k, info) PROVE M!MapNext
    <2>1. info \in M!PeerInfo
      BY InfosAssumption DEF PeerInfo, M!PeerInfo, Field, M!Field, Text, M!Text
    <2>. QED
      BY <1>3, <2>1, SetMaps, BeginMaps DEF M!MapNext
  <1>4. CASE End
    <2>1. PICK k \in Key : ~Unlocked /\ lock.key = k /\ M!EndUpdate(k)
      BY <1>4, EndMaps
    <2>2. ~Unlocked /\ lock.info \in PeerInfo
      BY <2>1 DEF CacheIInv, TypeOK, Unlocked, Updating
    <2>3. [key |-> lock.key, info |-> lock.info] # None
      BY <2>1, <2>2, SentinelAssumption
    <2>4. /\ (IF Unlocked THEN None ELSE [key |-> lock.key, info |-> lock.info]) # None
          /\ (IF Unlocked THEN None ELSE [key |-> lock.key, info |-> lock.info]).key = k
      BY <2>1, <2>2, <2>3
    <2>. QED
      BY <2>1, <2>4 DEF M!MapNext
  <1>5. CASE Assigned \/ (\E f \in Field : Assign(f)) \/ (\E o \in Obj : Collect(o))
             \/ UNCHANGED heapVars
    BY <1>5, StuttersMap
  <1>. QED
    BY <1>1, <1>2, <1>3, <1>4, <1>5 DEF Next

\* cache.go's map of pointers, with callers that keep pointers after the lock is
\* released, is PeerMap's map with live and frozen snapshots.
THEOREM CacheImplementsMap == Spec => ImplementsPeerMap
  BY InitMaps, NextMaps, CacheInvariant, PTL DEF Spec, ImplementsPeerMap, M!MapSpec

\* A load through any pointer a caller may have kept returns what PeerMap's Reads
\* allows: no outcome of a race with Update is missing in the modules built on it.
THEOREM LoadsAreCovered == Spec => []LoadsAreReads
  <1>1. CacheIInv => LoadsAreReads
    <2>. SUFFICES ASSUME CacheIInv PROVE LoadsAreReads
      OBVIOUS
    <2>1. ASSUME NEW k \in Key, NEW f \in Field, peers[k] # None
          PROVE  Load(peers[k], f) \subseteq M!CacheReads(k, f)
      <3>1. CASE ~Unlocked /\ lock.key = k
        <4>1. /\ Content(k) = lock.old
              /\ heap[peers[k]].addr[f] \in {lock.old.addr[f], lock.info.addr[f]}
          BY <2>1, <3>1 DEF CacheIInv, HalfWritten, Content
        <4>2. lock.at = f => heap[peers[k]].addr[f] = lock.old.addr[f]
          BY <3>1 DEF CacheIInv, HalfWritten
        <4>3. [key |-> lock.key, info |-> lock.info] # None
          BY <3>1, SentinelAssumption DEF CacheIInv, TypeOK, Unlocked, Updating
        <4>. QED
          BY <2>1, <3>1, <4>1, <4>2, <4>3 DEF Load, M!CacheReads, M!Racing
      <3>2. CASE ~(~Unlocked /\ lock.key = k)
        <4>1. Content(k) = heap[peers[k]]
          BY <2>1, <3>2 DEF Content
        <4>2. Load(peers[k], f) = {heap[peers[k]].addr[f]}
          BY <2>1, <3>2 DEF Load, CacheIInv, TypeOK, NoSharing, Unlocked, Updating
        <4>. QED
          BY <4>1, <4>2 DEF M!CacheReads
      <3>. QED
        BY <3>1, <3>2
    <2>2. ASSUME NEW k \in Key, NEW f \in Field, held[k] # None
          PROVE  Load(held[k], f) \subseteq M!Reads(k, f)
      <3>1. CASE held[k] = peers[k]
        BY <2>1, <2>2, <3>1 DEF M!Reads, Snapshot
      <3>2. CASE held[k] # peers[k]
        <4>1. Snapshot(k) = heap[held[k]] /\ Snapshot(k) # Live
          BY <2>2, <3>2, ContentType DEF Snapshot
        <4>2. Load(held[k], f) = {heap[held[k]].addr[f]}
          BY <2>2, <3>2 DEF Load, CacheIInv, TypeOK, NoSharing, NoDangling, Unlocked, Updating
        <4>. QED
          BY <4>1, <4>2 DEF M!Reads
      <3>. QED
        BY <3>1, <3>2
    <2>. QED
      BY <2>1, <2>2 DEF LoadsAreReads
  <1>. QED
    BY <1>1, CacheInvariant, PTL
=============================================================================
