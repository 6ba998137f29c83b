------------------------------ MODULE PeerCache -----------------------------
(* cache.go as it is: a map of pointers to heap objects, a lock around the   *)
(* map, and callers that keep pointers after the lock is released.  PeerMap, *)
(* which the other modules use, is the abstraction shown correct here: its    *)
(* Live and frozen snapshot entries, and the outcomes of racing reads.        *)
EXTENDS PeerData

CONSTANTS
    Obj,    \* addresses of PeerInfo objects
    Infos   \* the contents Set and Update's functions give an object

\* An Update under way, and the fields that are left of it.
Updating == [key : Key, old : PeerInfo, info : PeerInfo, todo : SUBSET Field, at : Field \cup {None}]

ASSUME InfosAssumption ==
    /\ Infos \subseteq PeerInfo
    /\ None \notin Obj \cup Field \cup Updating

VARIABLES
    peers,  \* the map: key -> object, or None
    heap,   \* object -> its content, or None while it is not allocated
    held,   \* the pointers a caller kept from Get or GetAll
    lock    \* the Update that holds the write lock: [key, old, info, todo, at],
            \* todo the fields it has not assigned and at the one it is assigning

heapVars == <<peers, heap, held, lock>>

\* Update never works on an object that is not in the map.
TypeOK ==
    /\ peers \in [Key -> Obj \cup {None}]
    /\ heap \in [Obj -> PeerInfo \cup {None}]
    /\ held \in [Key -> Obj \cup {None}]
    /\ lock \in Updating \cup {None}

Init ==
    /\ peers = [k \in Key |-> None]
    /\ heap = [o \in Obj |-> None]
    /\ held = [k \in Key |-> None]
    /\ lock = None

Unlocked == lock = None

\* Set, had it kept a pointer to one variable for entries that look the same.
SetShared(k, info) ==
    /\ Unlocked
    /\ \E o \in Obj :
         /\ heap[o] \in {None, info}
         /\ heap' = [heap EXCEPT ![o] = info]
         /\ peers' = [peers EXCEPT ![k] = o]
    /\ UNCHANGED <<held, lock>>

Set(k, info) ==
    /\ Unlocked
    /\ \E o \in Obj :
         /\ heap[o] = None
         /\ heap' = [heap EXCEPT ![o] = info]
         /\ peers' = [peers EXCEPT ![k] = o]
    /\ UNCHANGED <<held, lock>>

DeleteUnlocked(k) ==
    /\ peers' = [peers EXCEPT ![k] = None]
    /\ UNCHANGED <<heap, held, lock>>

Delete(k) ==
    /\ Unlocked
    /\ peers' = [peers EXCEPT ![k] = None]
    /\ UNCHANGED <<heap, held, lock>>

\* "Shallow copy is sufficient".
GetAll ==
    /\ Unlocked
    /\ held' = peers
    /\ UNCHANGED <<peers, heap, lock>>

Get(k) ==
    /\ Unlocked
    /\ held' = [held EXCEPT ![k] = peers[k]]
    /\ UNCHANGED <<peers, heap, lock>>

\* Update without its look at the map.
BeginUnchecked(k, info) ==
    /\ Unlocked
    /\ lock' = [key |-> k, old |-> IF peers[k] = None THEN None ELSE heap[peers[k]],
                info |-> [info EXCEPT !.dirty = TRUE], todo |-> Field, at |-> None]
    /\ UNCHANGED <<peers, heap, held>>

\* Update takes the lock; what fn will leave is info, and dirty is set after it.
Begin(k, info) ==
    /\ Unlocked
    /\ peers[k] # None
    /\ lock' = [key |-> k, old |-> heap[peers[k]],
                info |-> [info EXCEPT !.dirty = TRUE], todo |-> Field, at |-> None]
    /\ UNCHANGED <<peers, heap, held>>

\* A string is assigned in two words, so there is a moment in between.
Assign(f) ==
    /\ ~Unlocked
    /\ lock.at = None
    /\ f \in lock.todo
    /\ lock' = [lock EXCEPT !.at = f, !.todo = @ \ {f}]
    /\ UNCHANGED <<peers, heap, held>>

\* The LAN endpoint assigned to the wrong field.
AssignedToNat ==
    /\ ~Unlocked
    /\ lock.at # None
    /\ heap' = [heap EXCEPT ![peers[lock.key]].addr[IF lock.at = "lan" THEN "nat" ELSE lock.at]
                              = lock.info.addr[lock.at]]
    /\ lock' = [lock EXCEPT !.at = None]
    /\ UNCHANGED <<peers, held>>

Assigned ==
    /\ ~Unlocked
    /\ lock.at # None
    /\ heap' = [heap EXCEPT ![peers[lock.key]].addr[lock.at] = lock.info.addr[lock.at]]
    /\ lock' = [lock EXCEPT !.at = None]
    /\ UNCHANGED <<peers, held>>

End ==
    /\ ~Unlocked
    /\ lock.at = None
    /\ lock.todo = {}
    /\ heap' = [heap EXCEPT ![peers[lock.key]].dirty = TRUE]
    /\ lock' = None
    /\ UNCHANGED <<peers, held>>

\* The caller's loop drops a pointer; an object nobody points to is collected.
Drop(k) ==
    /\ held' = [held EXCEPT ![k] = None]
    /\ UNCHANGED <<peers, heap, lock>>

Collect(o) ==
    /\ \A k \in Key : peers[k] # o /\ held[k] # o
    /\ heap' = [heap EXCEPT ![o] = None]
    /\ UNCHANGED <<peers, held, lock>>

Next ==
    \/ GetAll \/ Assigned \/ End
    \/ \E k \in Key : Get(k) \/ Delete(k) \/ Drop(k)
    \/ \E k \in Key, info \in Infos : Set(k, info) \/ Begin(k, info)
    \/ \E f \in Field : Assign(f)
    \/ \E o \in Obj : Collect(o)

Spec == Init /\ [][Next]_heapVars

-----------------------------------------------------------------------------

\* The map of contents; an Update in progress has not happened yet.
Content(k) ==
    IF peers[k] = None THEN None
    ELSE IF ~Unlocked /\ lock.key = k THEN lock.old
    ELSE heap[peers[k]]

Snapshot(k) ==
    IF held[k] = None THEN None
    ELSE IF held[k] = peers[k] THEN Live
    ELSE heap[held[k]]

M == INSTANCE PeerMap WITH
    cache <- [k \in Key |-> Content(k)],
    copy <- [k \in Key |-> Snapshot(k)],
    writing <- IF Unlocked THEN None ELSE [key |-> lock.key, info |-> lock.info]

\* PeerCache implements the map with snapshots that PeerMap describes.
ImplementsPeerMap == M!MapSpec

\* What a load of field f of object o may return to a goroutine without the lock.
Load(o, f) ==
    IF ~Unlocked /\ peers[lock.key] = o /\ lock.at = f /\ lock.info.addr[f] # heap[o].addr[f]
    THEN {heap[o].addr[f], lock.info.addr[f], Torn}
    ELSE {heap[o].addr[f]}

\* Every value such a load can return is one the abstraction allows, through
\* the snapshot and through a pointer just obtained from Get.
LoadsAreReads ==
    \A k \in Key, f \in Field :
        /\ held[k] # None => Load(held[k], f) \subseteq M!Reads(k, f)
        /\ peers[k] # None => Load(peers[k], f) \subseteq M!CacheReads(k, f)

\* No two keys of the map, nor a key and another key's kept pointer, share an
\* object: an Update of one peer never shows in another.
NoSharing ==
    \A j, k \in Key :
        j # k => peers[j] = None \/ (peers[j] # peers[k] /\ peers[j] # held[k])
=============================================================================
