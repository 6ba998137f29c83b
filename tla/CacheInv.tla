------------------------------ MODULE CacheInv ------------------------------
(* What the proofs about PeerCache rest on: an inductive invariant in parts.  *)
EXTENDS PeerCache

\* Every pointer leads to an object, and an Update has one.
NoDangling ==
    /\ \A k \in Key : peers[k] # None => heap[peers[k]] # None
    /\ \A k \in Key : held[k] # None => heap[held[k]] # None
    /\ ~Unlocked => peers[lock.key] # None

\* Between Update's assignments the object is part old, part new.
HalfWritten ==
    ~Unlocked =>
        /\ lock.info.dirty /\ lock.at \notin lock.todo
        /\ \A f \in Field :
             heap[peers[lock.key]].addr[f] =
               IF f \in lock.todo \/ f = lock.at THEN lock.old.addr[f] ELSE lock.info.addr[f]

CacheIInv == TypeOK /\ NoDangling /\ NoSharing /\ HalfWritten
=============================================================================
