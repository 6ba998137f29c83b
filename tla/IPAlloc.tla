------------------------------- MODULE IPAlloc ------------------------------
(* The arithmetic of AllocateIP in etcd.go.  An address is a sequence of      *)
(* bytes, and a network an address with the length of its mask, the bits the   *)
(* mask does not cover being 0 (ParseCIDR clears them).                       *)
EXTENDS Integers, Sequences

CONSTANT Bits       \* in a byte: 8

ASSUME BitsAssumption == Bits \in Nat \ {0}

\* 2 ^ n
Two[n \in Nat] == IF n = 0 THEN 1 ELSE 2 * Two[n - 1]

Size == Two[Bits]

\* The number of bits of byte i that the mask does not cover.
HostBits(net, i) ==
    LET covered == net.ones - Bits * (i - 1)
    IN IF covered < 0 THEN Bits ELSE IF covered > Bits THEN 0 ELSE Bits - covered

\* IPNet.Contains, byte by byte
InNetwork(net, ip) ==
    \A i \in DOMAIN ip : LET unit == Two[HostBits(net, i)]
                         IN ip[i] \div unit = net.ip[i] \div unit

\* The loop stops at the first byte that does not overflow to 0, from the end.
incrementIP(ip) ==
    [i \in DOMAIN ip |->
       IF \A j \in i + 1 .. Len(ip) : ip[j] = Size - 1 THEN (ip[i] + 1) % Size ELSE ip[i]]

\* How many addresses of that length there are.
Addresses(net) == Two[Bits * Len(net.ip)]

\* The values of the loop variable ip, from the network address.
Visited(net) ==
    LET visit[n \in 0 .. Addresses(net)] == IF n = 0 THEN net.ip ELSE incrementIP(visit[n - 1])
    IN visit

\* The broadcast address forgotten.
SkippedNetwork(net, ip) == ip = net.ip

Skipped(net, ip) == ip = net.ip \/ ~InNetwork(net, incrementIP(ip))

\* AllocateIP returns ip.
Allocated(net, used, ip) ==
    LET visited == Visited(net)
    IN \E n \in 1 .. Addresses(net) :
           /\ ip = visited[n]
           /\ \A m \in 1 .. n : InNetwork(net, visited[m])
           /\ ~Skipped(net, ip) /\ ip \notin used
           /\ \A m \in 1 .. n - 1 : Skipped(net, visited[m]) \/ visited[m] \in used

-----------------------------------------------------------------------------
(* What AllocateIP is to compute, on numbers *)

Number(ip) ==
    LET number[i \in 0 .. Len(ip)] == IF i = 0 THEN 0 ELSE Size * number[i - 1] + ip[i]
    IN number[Len(ip)]

\* The addresses of a network are 2 ^ n numbers in a row; all but the first and the
\* last may be given out.
Hosts(net) ==
    LET first == Number(net.ip)
    IN first + 1 .. first + Two[Bits * Len(net.ip) - net.ones] - 2

\* The lowest of them that is not the number of a used address.
Lowest(net, used, ip) ==
    LET free == Hosts(net) \ {Number(u) : u \in used \cap [DOMAIN ip -> 0 .. Size - 1]}
    IN Number(ip) \in free /\ \A n \in free : Number(ip) <= n
=============================================================================
