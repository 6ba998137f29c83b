------------------------------ MODULE PeerData ------------------------------
(* What a peer is to the Discovery server: a WireGuard public key and three  *)
(* address texts, each of which is one etcd key of the peer                  *)
(*   "wg"   /valon/peers/<key>/wg_ip            overlay address              *)
(*   "lan"  /valon/peers/<key>/endpoints/lan    announced by the peer        *)
(*   "nat"  /valon/peers/<key>/endpoints/nated  observed by WireGuard        *)
(* LastHandshake and UpdatedAt are never read and are left out; PubKey always *)
(* repeats the map key.                                                      *)
CONSTANTS
    Key,        \* WireGuard public keys, Discovery's own included
    SelfKey,    \* Discovery's own key
    IP,         \* overlay addresses
    SelfIP,     \* the address of Discovery's WireGuard interface
    LanEp,        \* endpoints a peer may announce
    NatEp,        \* endpoints WireGuard may observe
    Alias,      \* DNS aliases
    None,       \* no entry: a nil pointer, an absent etcd key
    Live,       \* a pointer to the object the cache still holds
    Empty,      \* the empty string
    Torn        \* what a string read in the middle of its assignment yields

Field == {"wg", "lan", "nat"}
Text == IP \cup LanEp \cup NatEp \cup {Empty, Torn}
PeerInfo == [addr : [Field -> Text], dirty : BOOLEAN]

ASSUME SelfAssumption == SelfKey \in Key /\ SelfIP \in IP

\* Sentinels are not data, and the empty string is neither an address nor an
\* endpoint.
ASSUME SentinelAssumption ==
    /\ None \notin Key \cup Text \cup PeerInfo \cup Alias \cup {Live}
    /\ None \notin [key : Key, info : PeerInfo]
    /\ Live \notin PeerInfo
    /\ Empty \notin IP \cup LanEp \cup NatEp \cup {Torn}
    /\ Torn \notin IP
=============================================================================
