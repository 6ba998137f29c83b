------------------------------ MODULE PeerMap -------------------------------
(* The PeerCache as its callers see it: one locked map, and the pointers Get *)
(* and GetAll hand out.  A snapshot is shallow: its entry for k is a pointer,   *)
(* Live as long as the map still holds that object and frozen at its last    *)
(* content once Set or Delete took the object out of the map, for only       *)
(* Update writes through a pointer and it goes through the map.              *)
EXTENDS PeerData

VARIABLES
    cache,      \* the map: key -> PeerInfo, or None
    copy,       \* the pointers one caller has taken and not yet dropped
    writing     \* the Update in progress under the lock: [key, info] or None

mapVars == <<cache, copy, writing>>

Writing == [key : Key, info : PeerInfo]

MapTypeOK ==
    /\ cache \in [Key -> PeerInfo \cup {None}]
    /\ copy \in [Key -> PeerInfo \cup {None, Live}]
    /\ writing \in Writing \cup {None}

MapInit ==
    /\ cache = [k \in Key |-> None]
    /\ copy = [k \in Key |-> None]
    /\ writing = None

Unlocked == writing = None

\* The snapshot's pointer to k, when the map is about to let go of its object.
Detached(k) == [copy EXCEPT ![k] = IF @ = Live THEN cache[k] ELSE @]

Set(k, info) ==
    /\ Unlocked
    /\ cache' = [cache EXCEPT ![k] = info]
    /\ copy' = Detached(k)
    /\ UNCHANGED writing

Delete(k) ==
    /\ Unlocked
    /\ cache' = [cache EXCEPT ![k] = None]
    /\ copy' = Detached(k)
    /\ UNCHANGED writing

GetAll ==
    /\ Unlocked
    /\ copy' = [k \in Key |-> IF cache[k] = None THEN None ELSE Live]
    /\ UNCHANGED <<cache, writing>>

Get(k) ==
    /\ Unlocked
    /\ copy' = [copy EXCEPT ![k] = IF cache[k] = None THEN None ELSE Live]
    /\ UNCHANGED <<cache, writing>>

\* Update, had it left the dirty flag to its function.
AfterUpdateUnmarked(info) == info

\* What Update makes of the entry its function left.
AfterUpdate(info) == [info EXCEPT !.dirty = TRUE]

\* Update(k, fn) in two steps, because readers that hold a pointer do not take
\* the lock: fn's assignments are under way between them.
BeginUpdate(k, info) ==
    /\ Unlocked
    /\ cache[k] # None
    /\ writing' = [key |-> k, info |-> AfterUpdate(info)]
    /\ UNCHANGED <<cache, copy>>

EndUpdate(k) ==
    /\ writing # None
    /\ cache' = [cache EXCEPT ![k] = writing.info]
    /\ writing' = None
    /\ UNCHANGED copy

\* The entry Update(k, func(p) { p.dirty = false }) leaves.  It touches no
\* string and only the caller reads dirty without the lock, so one step is enough.
Cleared(k) ==
    IF cache[k] = None THEN cache
    ELSE [cache EXCEPT ![k] = AfterUpdate([@ EXCEPT !.dirty = FALSE])]

\* The holder of the snapshot is done with k.
Forget(k) ==
    /\ copy' = [copy EXCEPT ![k] = None]
    /\ UNCHANGED <<cache, writing>>

\* What reading a field of the cached object through a pointer may yield when
\* the reader does not hold the lock: either value of an assignment under way,
\* or a torn string.
Racing(k) == writing # None /\ writing.key = k

CacheReads(k, f) ==
    IF Racing(k) /\ writing.info.addr[f] # cache[k].addr[f]
    THEN {cache[k].addr[f], writing.info.addr[f], Torn}
    ELSE {cache[k].addr[f]}

\* The same through the snapshot's pointer.
Reads(k, f) == IF copy[k] = Live THEN CacheReads(k, f) ELSE {copy[k].addr[f]}

DirtyReads(k) ==
    IF copy[k] # Live THEN {copy[k].dirty}
    ELSE {cache[k].dirty} \cup (IF Racing(k) THEN {writing.info.dirty} ELSE {})

\* The map on its own, under any calls: what PeerCache implements.
MapNext ==
    \/ GetAll
    \/ \E k \in Key :
         \/ Get(k)
         \/ \E info \in PeerInfo : Set(k, info) \/ BeginUpdate(k, info)
         \/ Delete(k)
         \/ writing # None /\ writing.key = k /\ EndUpdate(k)
         \/ Forget(k)

MapSpec == MapInit /\ [][MapNext]_mapVars

\* A pointer is Live only as long as the cache has the entry, and an Update in
\* progress is on an entry of the cache.
LiveInv ==
    /\ \A k \in Key : copy[k] = Live => cache[k] # None
    /\ writing # None => cache[writing.key] # None
=============================================================================
