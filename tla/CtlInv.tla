------------------------------- MODULE CtlInv -------------------------------
(* What the proofs about ValonCtl rest on: inductive invariants in parts.     *)
EXTENDS ValonCtl

\* A command holds what its next call is made with.
Carries(r) ==
    /\ r.pc \in {"allocate", "device", "register", "rollback", "call", "wait", "keys", "alias"}
         => r.key \in Key /\ r.alias \in Alias
    /\ r.pc \in {"device", "register", "rollback"} => r.ip \in IP
    /\ r.pc \in {"lookup", "undevice", "resolve"} => r.target \in Key \cup Alias
    /\ r.pc \in {"undevice", "resolve", "call", "wait", "keys", "alias"} => r.victim \in Key

CarriesInv == \A c \in Cmd : Carries(ctl[c])

\* The administrator runs one command at a time.
OneTerminal == \E c \in Cmd : Cmd = {c}

\* An alias that is announced over the DDNS API belongs to one peer: no other
\* announces it and no other is added with it.
OwnAliases ==
    \A n \in AliasPuts : \A m \in AliasPuts \cup Adds : m.alias = n.alias => m.key = n.key

\* An announced alias leads to its peer or nowhere, and no other is listed under it.
AnnouncedInv ==
    \A n \in AliasPuts :
        /\ aliases[n.alias] \in {None, n.key}
        /\ \A k \in Key : peerAlias[k] = n.alias => k = n.key

\* What the command has looked up still stands when it acts on it.
AddOf(r) ==
    r.pc \in {"allocate", "device", "register"} =>
        \A n \in AliasPuts : r.alias = n.alias => r.key = n.key

RemoveOf(r) ==
    /\ r.pc \in {"undevice", "resolve"} =>
         \/ r.target = r.victim
         \/ /\ r.target \in Alias /\ aliases[r.target] \in {None, r.victim}
            /\ \A n \in AliasPuts : r.target = n.alias => r.victim = n.key
    /\ r.pc \in {"call", "wait", "keys"} =>
         r.alias \in DdnsAliases \/ aliases[r.alias] = r.key
    /\ r.pc = "alias" =>
         r.alias \in DdnsAliases \/ \A k \in Key : peerAlias[k] # r.alias

StandsInv == \A c \in Cmd : AddOf(ctl[c]) /\ RemoveOf(ctl[c])

AloneInv ==
    /\ CtlTypeOK /\ CarriesInv /\ StandsInv
    /\ ListedAliasResolves /\ SameVictim /\ AnnouncedInv
=============================================================================
