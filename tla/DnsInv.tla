------------------------------- MODULE DnsInv -------------------------------
(* What the proofs about DnsHandler rest on: an inductive invariant in parts. *)
EXTENDS DnsHandler

Reading == query.pc \in {"check", "use"}

\* Where a query is, it knows what it needs there.
QueryInv ==
    /\ query.pc = "alias" => query.label \in Alias /\ query.kind = "CNAME"
    /\ query.pc = "list" => query.kind = "ALL"
    /\ Reading => query.key # None /\ copy[query.key] # None /\ Asks(query.key, query.field)
    /\ InProgress => query.kind # "other"
    /\ InProgress /\ query.kind = "SRV" => query.pc \in {"get", "check", "use"}
    /\ query.pc = "get" /\ query.kind = "SRV" => query.field = "lan"
    /\ InProgress /\ query.kind \in {"CNAME", "ALL"} => query.field = "wg"

\* A query holds pointers to the peers it asks for only.
CopyInv ==
    \A k \in Key :
        copy[k] # None =>
            query.pc \in {"list", "check", "use"} /\ (query.kind = "ALL" \/ k = query.key)

\* held and led miss nothing of what the query may see.
HeldInv ==
    /\ \A k \in Key, f \in Field :
         /\ Visible(k, f) \subseteq held[k][f]
         /\ copy[k] # None /\ Asks(k, f) => Reads(k, f) \subseteq held[k][f]
    /\ Led \subseteq led

\* An endpoint yields records once.
AnswerInv ==
    /\ query.kind # "SRV" => \A r \in answer : r.type = "SRV" => r.value = None
    /\ query.kind = "SRV" /\ InProgress =>
         /\ query.field = "lan" => answer = {}
         /\ query.field = "nat" => \A r \in answer : r.field = "lan"

DnsIInv ==
    /\ DnsTypeOK /\ LiveInv /\ QueryInv /\ CopyInv /\ HeldInv /\ AnswerInv
    /\ ServedWasHeld /\ PairedSrv

\* The query has yet to come to field f of k.
Pending(k, f) ==
    \/ query.pc \in {"get", "alias"}
    \/ /\ query.pc \in {"list", "check", "use"} /\ copy[k] # None
       /\ ~(query.kind = "SRV" /\ f = "lan" /\ query.field = "nat")

\* What is owed and is past is in the answer.
CompleteInv ==
    /\ query.pc = "alias" => query.key = None
    /\ Reading /\ query.kind = "ALL" => \E r \in answer : r.owner = query.key
    /\ \A k \in Key :
         /\ \A f \in Field :
              Owed(k, f) /\ ~Pending(k, f) =>
                  \E r \in answer : r.owner = k /\ r.field = f /\ r.value # None
         /\ Listed(k) /\ ~Pending(k, "wg") => \E r \in answer : r.owner = k
=============================================================================
