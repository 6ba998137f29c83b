-------------------------------- MODULE Etcd --------------------------------
(* The part of etcd VALON uses, as its clients see it: every request is one  *)
(* atomic step, and a transaction applies all of its operations at once.     *)
EXTENDS PeerData

VARIABLES
    store,      \* /valon/peers/<key>/{wg_ip,endpoints/lan,endpoints/nated}
    peerAlias,  \* /valon/peers/<key>/alias
    aliases     \* /valon/aliases/<alias>

etcdVars == <<store, peerAlias, aliases>>

EtcdTypeOK ==
    /\ store \in [Key -> [Field -> Text \cup {None}]]
    /\ peerAlias \in [Key -> Alias \cup {None}]
    /\ aliases \in [Alias -> Key \cup {None}]

NoFields == [f \in Field |-> None]

EtcdInit ==
    /\ store = [k \in Key |-> NoFields]
    /\ peerAlias = [k \in Key |-> None]
    /\ aliases = [a \in Alias |-> None]

\* A Get with prefix /valon/peers/<k>/ returns something.
HasKeys(k) == store[k] # NoFields \/ peerAlias[k] # None

\* The Puts of one transaction on the fields of k: those of ops that are not None.
PutFields(k, ops) ==
    store' = [store EXCEPT ![k] = [f \in Field |-> IF ops[f] = None THEN @[f] ELSE ops[f]]]

\* Delete with prefix /valon/peers/<k>/.
DeletePrefix(k) ==
    /\ store' = [store EXCEPT ![k] = NoFields]
    /\ peerAlias' = [peerAlias EXCEPT ![k] = None]
    /\ UNCHANGED aliases

\* Loaded, had it taken an absent key for a value.
LoadedRaw(k, wg) == [addr |-> store[k], dirty |-> FALSE]

\* The PeerInfo built from the keys of k; wg is what it starts with.
Loaded(k, wg) ==
    [addr |-> [f \in Field |-> IF store[k][f] # None THEN store[k][f]
                               ELSE IF f = "wg" THEN wg ELSE Empty],
     dirty |-> FALSE]
=============================================================================
