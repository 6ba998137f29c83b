----------------------------- MODULE KeysProofs ----------------------------
(* Proofs about PeerKeys: that etcd, a map of texts, is the table the other    *)
(* modules take it for, and that its four readers agree.                      *)
EXTENDS PeerKeys, SequenceTheorems, WellFoundedInduction, TLAPS

\* Public keys that path.Join leaves as they are: no "/" to begin with, no two in a row.
PlainKeys ==
    \A k \in Key : k[1] # "/" /\ \A i \in 1 .. Len(k) - 1 : ~(k[i] = "/" /\ k[i + 1] = "/")

Words == {"/", "=", "/valon/peers", "/valon/aliases", "wg_ip", "endpoint", "s", "lan", "nated",
          "alias", "ip"}

Token == Words \cup Alias \cup UNION {Digits(k) : k \in Key}

Name == {"wg", "lan", "nat", "alias"}

PeerText(k, n) == Peers(k \o Path[n])

AliasText(a) == Aliases(<<a>>)

-----------------------------------------------------------------------------
(* Texts *)

LEMMA KeyType ==
    ASSUME NEW k \in Key
    PROVE  /\ k \in Seq(Token) /\ Len(k) \in Nat /\ Len(k) > 1
           /\ \A i \in 1 .. Len(k) : k[i] = "=" <=> i = Len(k)
  <1>1. k \in Seq(Digits(k)) /\ Len(k) > 1 /\ \A i \in DOMAIN k : k[i] = "=" <=> i = Len(k)
    BY KeyTextAssumption
  <1>2. Digits(k) \subseteq Token
    BY DEF Token
  <1>. QED
    BY <1>1, <1>2

\* No part of a path is "=".
LEMMA PathType ==
    ASSUME NEW n \in Name
    PROVE  /\ Path[n] \in Seq(Token) /\ Len(Path[n]) \in Nat /\ Len(Path[n]) >= 2
           /\ Path[n][1] = "/" /\ \A i \in 1 .. Len(Path[n]) : Path[n][i] # "="
  <1>1. CASE n = "wg" BY <1>1 DEF Path, Token, Words
  <1>2. CASE n = "lan" BY <1>2 DEF Path, Token, Words
  <1>3. CASE n = "nat" BY <1>3 DEF Path, Token, Words
  <1>4. CASE n = "alias" BY <1>4 DEF Path, Token, Words
  <1>. QED
    BY <1>1, <1>2, <1>3, <1>4 DEF Name

LEMMA PathsDiffer ==
    ASSUME NEW m \in Name, NEW n \in Name, Path[m] = Path[n]
    PROVE  m = n
  BY DEF Name, Path

LEMMA PeersProps ==
    ASSUME NEW rel \in Seq(Token)
    PROVE  /\ Peers(rel) \in Seq(Token) /\ Len(Peers(rel)) = Len(rel) + 2
           /\ Peers(rel)[1] = "/valon/peers" /\ Peers(rel)[2] = "/"
           /\ \A i \in 3 .. Len(rel) + 2 : Peers(rel)[i] = rel[i - 2]
  BY DEF Peers, Token, Words

LEMMA AliasesProps ==
    ASSUME NEW rel \in Seq(Token)
    PROVE  /\ Aliases(rel) \in Seq(Token) /\ Len(Aliases(rel)) = Len(rel) + 2
           /\ Aliases(rel)[1] = "/valon/aliases" /\ Aliases(rel)[2] = "/"
           /\ \A i \in 3 .. Len(rel) + 2 : Aliases(rel)[i] = rel[i - 2]
  BY DEF Aliases, Token, Words

LEMMA RelProps ==
    ASSUME NEW k \in Key, NEW n \in Name
    PROVE  /\ k \o Path[n] \in Seq(Token) /\ Len(k \o Path[n]) = Len(k) + Len(Path[n])
           /\ \A i \in 1 .. Len(k) : (k \o Path[n])[i] = k[i]
           /\ \A i \in Len(k) + 1 .. Len(k) + Len(Path[n]) : (k \o Path[n])[i] = Path[n][i - Len(k)]
           /\ \A i \in 1 .. Len(k) + Len(Path[n]) : (k \o Path[n])[i] = "=" <=> i = Len(k)
  BY KeyType, PathType

LEMMA PeerTextProps ==
    ASSUME NEW k \in Key, NEW n \in Name
    PROVE  /\ PeerText(k, n) \in Seq(Token)
           /\ Len(PeerText(k, n)) = Len(k) + Len(Path[n]) + 2
           /\ PeerText(k, n)[1] = "/valon/peers" /\ PeerText(k, n)[2] = "/"
           /\ \A i \in 3 .. Len(k) + 2 : PeerText(k, n)[i] = k[i - 2]
           /\ \A i \in Len(k) + 3 .. Len(k) + Len(Path[n]) + 2 :
                PeerText(k, n)[i] = Path[n][i - 2 - Len(k)]
  <1> DEFINE r == k \o Path[n]
  <1>1. /\ r \in Seq(Token) /\ Len(r) = Len(k) + Len(Path[n])
        /\ \A i \in 1 .. Len(k) : r[i] = k[i]
        /\ \A i \in Len(k) + 1 .. Len(k) + Len(Path[n]) : r[i] = Path[n][i - Len(k)]
    BY RelProps
  <1>2. Len(k) \in Nat /\ Len(Path[n]) \in Nat
    BY KeyType, PathType
  <1>3. PeerText(k, n) = Peers(r)
    BY DEF PeerText
  <1>. HIDE DEF r
  <1>4. /\ Peers(r) \in Seq(Token) /\ Len(Peers(r)) = Len(r) + 2
        /\ Peers(r)[1] = "/valon/peers" /\ Peers(r)[2] = "/"
        /\ \A i \in 3 .. Len(r) + 2 : Peers(r)[i] = r[i - 2]
    BY <1>1, PeersProps
  <1>5. ASSUME NEW i \in 3 .. Len(k) + 2 PROVE PeerText(k, n)[i] = k[i - 2]
    <2>1. i \in 3 .. Len(r) + 2 /\ i - 2 \in 1 .. Len(k)
      BY <1>1, <1>2
    <2>. QED
      BY <1>1, <1>3, <1>4, <2>1
  <1>6. ASSUME NEW i \in Len(k) + 3 .. Len(k) + Len(Path[n]) + 2
        PROVE  PeerText(k, n)[i] = Path[n][i - 2 - Len(k)]
    <2>1. i \in 3 .. Len(r) + 2 /\ i - 2 \in Len(k) + 1 .. Len(k) + Len(Path[n])
      BY <1>1, <1>2
    <2>. QED
      BY <1>1, <1>3, <1>4, <2>1
  <1>7. Len(PeerText(k, n)) = Len(k) + Len(Path[n]) + 2
    BY <1>1, <1>2, <1>3, <1>4
  <1>. QED
    BY <1>3, <1>4, <1>5, <1>6, <1>7

LEMMA AliasTextProps ==
    ASSUME NEW a \in Alias
    PROVE  /\ AliasText(a) \in Seq(Token) /\ Len(AliasText(a)) = 3
           /\ AliasText(a)[1] = "/valon/aliases" /\ AliasText(a)[2] = "/" /\ AliasText(a)[3] = a
  <1>1. <<a>> \in Seq(Token)
    BY DEF Token
  <1>2. Len(<<a>>) = 1 /\ <<a>>[1] = a
    OBVIOUS
  <1> DEFINE rel == <<a>>
  <1>3. AliasText(a) = Aliases(rel)
    BY DEF AliasText
  <1>. HIDE DEF rel
  <1>4. 3 \in 3 .. Len(rel) + 2 /\ Len(rel) + 2 = 3 /\ 3 - 2 = 1
    BY <1>2 DEF rel
  <1>5. rel \in Seq(Token) /\ rel[1] = a
    BY <1>1, <1>2 DEF rel
  <1>. QED
    BY <1>3, <1>4, <1>5, AliasesProps, ZenonT(40)

LEMMA PrefixProps ==
    ASSUME NEW s \in Seq(Token), NEW t \in Seq(Token)
    PROVE  SE!IsPrefix(s, t) <=> Len(s) <= Len(t) /\ \A i \in 1 .. Len(s) : s[i] = t[i]
  BY DEF SE!IsPrefix

\* Sequences are equal when their elements are.
LEMMA Extensional ==
    ASSUME NEW S, NEW s \in Seq(S), NEW t \in Seq(S), Len(s) = Len(t),
           \A i \in 1 .. Len(s) : s[i] = t[i]
    PROVE  s = t
  OBVIOUS

\* The "=" of a public key ends it: the texts of one peer begin like those of no other.
LEMMA KeyPrefix ==
    ASSUME NEW j \in Key, NEW k \in Key, NEW n \in Name,
           Len(j) <= Len(k) + Len(Path[n]), \A i \in 1 .. Len(j) : j[i] = (k \o Path[n])[i]
    PROVE  j = k
  <1>1. Len(j) \in 1 .. Len(k) + Len(Path[n]) /\ Len(j) \in 1 .. Len(j)
    BY KeyType, PathType
  <1>2. j[Len(j)] = "="
    BY <1>1, KeyType
  <1>3. (k \o Path[n])[Len(j)] = "="
    BY <1>1, <1>2
  <1>4. Len(j) = Len(k)
    BY <1>1, <1>3, RelProps
  <1>5. \A i \in 1 .. Len(j) : j[i] = k[i]
    BY <1>4, RelProps
  <1>. QED
    BY <1>4, <1>5, KeyType, Extensional

LEMMA PeerTextPrefix ==
    ASSUME NEW j \in Key, NEW k \in Key, NEW n \in Name,
           Len(j) + 2 <= Len(PeerText(k, n)), \A i \in 3 .. Len(j) + 2 : PeerText(k, n)[i] = j[i - 2]
    PROVE  j = k
  <1> DEFINE r == k \o Path[n]
  <1>1. /\ r \in Seq(Token) /\ Len(r) = Len(k) + Len(Path[n])
    BY RelProps
  <1>2. Len(k) \in Nat /\ Len(Path[n]) \in Nat /\ Len(j) \in Nat
    BY KeyType, PathType
  <1>3. PeerText(k, n) = Peers(r)
    BY DEF PeerText
  <1>5. Len(j) <= Len(r) /\ \A i \in 1 .. Len(j) : j[i] = r[i]
    <2>. HIDE DEF r
    <2>4. /\ Len(Peers(r)) = Len(r) + 2
          /\ \A i \in 3 .. Len(r) + 2 : Peers(r)[i] = r[i - 2]
      BY <1>1, PeersProps
    <2>5. Len(j) <= Len(r)
      BY <1>1, <1>2, <1>3, <2>4
    <2>6. ASSUME NEW i \in 1 .. Len(j) PROVE j[i] = r[i]
      <3>1. i + 2 \in 3 .. Len(j) + 2 /\ i + 2 \in 3 .. Len(r) + 2 /\ (i + 2) - 2 = i
        BY <1>1, <1>2, <2>5
      <3>. QED
        BY <1>3, <2>4, <3>1
    <2>. QED
      BY <2>5, <2>6
  <1>. QED
    BY <1>1, <1>5, KeyPrefix

LEMMA PeerTextsDiffer ==
    ASSUME NEW j \in Key, NEW m \in Name, NEW k \in Key, NEW n \in Name,
           PeerText(j, m) = PeerText(k, n)
    PROVE  j = k /\ m = n
  <1>0. Len(j) \in Nat /\ Len(Path[m]) \in Nat /\ Len(Path[n]) \in Nat
    BY KeyType, PathType
  <1>1. j = k
    <2>1. Len(j) + 2 <= Len(PeerText(j, m)) /\ \A i \in 3 .. Len(j) + 2 : PeerText(j, m)[i] = j[i - 2]
      BY <1>0, PeerTextProps, SMTT(30)
    <2>. QED
      BY <2>1, PeerTextPrefix
  <1>2. Len(Path[m]) = Len(Path[n])
    BY <1>0, <1>1, PeerTextProps
  <1>3. ASSUME NEW i \in 1 .. Len(Path[m]) PROVE Path[m][i] = Path[n][i]
    <2> DEFINE h == i + 2 + Len(j)
    <2>1. h \in Len(j) + 3 .. Len(j) + Len(Path[m]) + 2 /\ h - 2 - Len(j) = i
      BY <1>0
    <2>2. h \in Len(k) + 3 .. Len(k) + Len(Path[n]) + 2
      BY <1>0, <1>1, <1>2
    <2>. HIDE DEF h
    <2>3. PeerText(j, m)[h] = Path[m][i]
      BY <2>1, PeerTextProps
    <2>4. PeerText(k, n)[h] = Path[n][i]
      BY <1>1, <2>1, <2>2, PeerTextProps
    <2>. QED
      BY <2>3, <2>4
  <1>4. Path[m] = Path[n]
    BY <1>2, <1>3, PathType, Extensional
  <1>. QED
    BY <1>1, <1>4, PathsDiffer

LEMMA PeerNotAlias ==
    ASSUME NEW k \in Key, NEW n \in Name, NEW rel \in Seq(Token)
    PROVE  PeerText(k, n) # Aliases(rel)
  BY PeerTextProps, AliasesProps

LEMMA PeerNotAliasText ==
    ASSUME NEW k \in Key, NEW n \in Name, NEW a \in Alias
    PROVE  PeerText(k, n) # AliasText(a)
  BY PeerTextProps, AliasTextProps

LEMMA AliasTextsDiffer ==
    ASSUME NEW a \in Alias, NEW b \in Alias, AliasText(a) = AliasText(b)
    PROVE  a = b
  BY AliasTextProps

\* The texts of public keys, which valonctl never puts, are those of no alias.
LEMMA KeyNotAlias ==
    ASSUME NEW k \in Key, NEW a \in Alias
    PROVE  Aliases(k) # AliasText(a)
  <1>1. Len(Aliases(k)) = Len(k) + 2 /\ Len(k) + 2 # 3
    BY KeyType, AliasesProps
  <1>2. Len(AliasText(a)) = 3
    BY AliasTextProps
  <1>. QED
    BY <1>1, <1>2

-----------------------------------------------------------------------------
(* Composing with path.Join *)

LessThan == {p \in Nat \X Nat : p[1] < p[2]}

LEMMA LessThanWellFounded == IsWellFoundedOn(LessThan, Nat)
  BY NatLessThanWellFounded DEF OpToRel, LessThan

LEMMA LeastNumber ==
    ASSUME NEW T, T \subseteq Nat, T # {}
    PROVE  \E m \in T : \A n \in T : m <= n
  <1>1. PICK m \in T : \A n \in T : <<n, m>> \notin LessThan
    BY LessThanWellFounded, WFMin
  <1>2. \A n \in T : ~(n < m)
    BY <1>1 DEF LessThan
  <1>. QED
    BY <1>2

LEMMA CleanKeeps ==
    ASSUME NEW t \in Seq(Token), \A i \in 2 .. Len(t) : ~(t[i] = "/" /\ t[i - 1] = "/")
    PROVE  Clean(t) = t
  <1> DEFINE Step(g) ==
               [n \in 0 .. Len(t) |->
                  IF n = 0 THEN <<>>
                  ELSE IF n > 1 /\ t[n] = "/" /\ t[n - 1] = "/" THEN g[n - 1]
                  ELSE Append(g[n - 1], t[n])]
             whole == [n \in 0 .. Len(t) |-> SubSeq(t, 1, n)]
             clean == CHOOSE g : g = Step(g)
  <1>1. \A n \in 1 .. Len(t) : Append(SubSeq(t, 1, n - 1), t[n]) = SubSeq(t, 1, n)
    OBVIOUS
  <1>2. SubSeq(t, 1, 0) = <<>> /\ SubSeq(t, 1, Len(t)) = t /\ Len(t) \in Nat
    OBVIOUS
  <1>3. \A n \in 1 .. Len(t) : ~(n > 1 /\ t[n] = "/" /\ t[n - 1] = "/")
    OBVIOUS
  <1>4. whole = Step(whole)
    <2>1. ASSUME NEW n \in 0 .. Len(t) PROVE whole[n] = Step(whole)[n]
      <3>1. CASE n = 0
        BY <1>2, <3>1
      <3>2. CASE n \in 1 .. Len(t)
        <4>1. n # 0 /\ n - 1 \in 0 .. Len(t)
          BY <3>2
        <4>2. whole[n - 1] = SubSeq(t, 1, n - 1)
          BY <4>1
        <4>3. Step(whole)[n] = Append(whole[n - 1], t[n])
          BY <1>3, <3>2, <4>1
        <4>. QED
          BY <1>1, <3>2, <4>2, <4>3
      <3>3. n = 0 \/ n \in 1 .. Len(t)
        BY <1>2
      <3>. HIDE DEF Step, whole
      <3>. QED
        BY <3>1, <3>2, <3>3
    <2>2. DOMAIN Step(whole) = 0 .. Len(t)
      OBVIOUS
    <2>. QED
      BY <2>1, <2>2
  <1>5. clean = Step(clean)
    BY <1>4
  <1>6. ASSUME NEW n \in 0 .. Len(t) PROVE clean[n] = SubSeq(t, 1, n)
    <2> DEFINE wrong == {m \in 0 .. Len(t) : clean[m] # SubSeq(t, 1, m)}
    <2>. SUFFICES ASSUME wrong # {} PROVE FALSE
      OBVIOUS
    <2>. HIDE DEF clean
    <2>1. PICK m \in wrong : \A i \in wrong : m <= i
      <3>1. wrong \subseteq Nat
        BY <1>2
      <3>. HIDE DEF wrong
      <3>. QED
        BY <3>1, LeastNumber
    <2>2. clean[0] = <<>>
      BY <1>2, <1>5
    <2>3. m # 0 /\ m \in 1 .. Len(t) /\ m - 1 \in 0 .. Len(t) /\ m - 1 \notin wrong
      <3>1. m \in 0 .. Len(t) /\ clean[m] # SubSeq(t, 1, m)
        OBVIOUS
      <3>2. m # 0
        BY <1>2, <2>2, <3>1
      <3>3. m - 1 \notin wrong
        <4>1. m \in Nat
          BY <1>2, <3>1
        <4>. HIDE DEF wrong
        <4>. QED
          BY <2>1, <4>1
      <3>. QED
        BY <1>2, <3>1, <3>2, <3>3
    <2>4. clean[m] = Append(clean[m - 1], t[m])
      BY <1>3, <1>5, <2>3
    <2>. QED
      BY <1>1, <2>1, <2>3, <2>4
  <1>7. Clean(t) = clean[Len(t)]
    BY DEF Clean
  <1>. QED
    BY <1>2, <1>6, <1>7

LEMMA CleanPeers ==
    ASSUME PlainKeys, NEW k \in Key
    PROVE  Clean(Peers(k)) = Peers(k)
  <1>1. ASSUME NEW i \in 2 .. Len(Peers(k)), Peers(k)[i] = "/", Peers(k)[i - 1] = "/" PROVE FALSE
    <2>1. CASE i = 2
      BY <1>1, <2>1, KeyType, PeersProps
    <2>2. CASE i = 3
      <3>1. Peers(k)[3] = k[1]
        <4>1. 3 \in 3 .. Len(k) + 2 /\ 3 - 2 = 1
          BY KeyType
        <4>. QED
          BY <4>1, KeyType, PeersProps
      <3>. QED
        BY <1>1, <2>2, <3>1 DEF PlainKeys
    <2>3. CASE i \in 4 .. Len(k) + 2
      <3>1. Peers(k)[i] = k[i - 2] /\ Peers(k)[i - 1] = k[(i - 1) - 2]
        BY <2>3, KeyType, PeersProps
      <3>2. (i - 1) - 2 \in 1 .. Len(k) - 1 /\ i - 2 = ((i - 1) - 2) + 1
        BY <2>3, KeyType
      <3>. QED
        BY <1>1, <3>1, <3>2 DEF PlainKeys
    <2>. QED
      BY <2>1, <2>2, <2>3, KeyType, PeersProps
  <1>2. Peers(k) \in Seq(Token)
    BY KeyType, PeersProps
  <1>. QED
    BY <1>1, <1>2, CleanKeeps

LEMMA CleanAliases ==
    ASSUME NEW a \in Alias
    PROVE  Clean(Aliases(<<a>>)) = AliasText(a)
  <1>1. a # "/"
    BY KeyTextAssumption
  <1>2. AliasText(a) = Aliases(<<a>>)
    BY DEF AliasText
  <1>3. \A i \in 2 .. Len(AliasText(a)) : ~(AliasText(a)[i] = "/" /\ AliasText(a)[i - 1] = "/")
    <2>1. \A i \in 2 .. 3 : i = 2 \/ i = 3
      OBVIOUS
    <2>. QED
      BY <1>1, <2>1, AliasTextProps
  <1>. QED
    BY <1>2, <1>3, AliasTextProps, CleanKeeps

\* The two ways of composing a text meet.
LEMMA Composed ==
    ASSUME NEW k \in Key, NEW n \in Name
    PROVE  Peers(k) \o Path[n] = PeerText(k, n)
  <1>1. <<"/valon/peers", "/">> \in Seq(Token)
    BY DEF Token, Words
  <1>. QED
    <2> DEFINE pre == <<"/valon/peers", "/">>
    <2>1. pre \in Seq(Token) /\ k \in Seq(Token) /\ Path[n] \in Seq(Token)
      BY <1>1, KeyType, PathType
    <2>2. Peers(k) = pre \o k /\ PeerText(k, n) = pre \o (k \o Path[n])
      BY DEF Peers, PeerText
    <2>. HIDE DEF pre
    <2>3. ASSUME NEW p \in Seq(Token) PROVE (pre \o k) \o p = pre \o (k \o p)
      BY <2>1
    <2>4. (pre \o k) \o Path[n] = pre \o (k \o Path[n])
      BY <2>1, <2>3
    <2>. QED
      BY <2>2, <2>4

-----------------------------------------------------------------------------
(* Requests, and what they do to the values of texts *)

Holds == [wg |-> IP, lan |-> LanEp, nat |-> NatEp, alias |-> Alias]

\* etcd holds the keys of peers and of aliases, with values of their kinds.
KeysInv ==
    /\ kv = [t \in DOMAIN kv |-> kv[t]]
    /\ \A t \in DOMAIN kv :
         \/ \E k \in Key, n \in Name : t = PeerText(k, n) /\ kv[t] \in Holds[n]
         \/ \E a \in Alias : t = AliasText(a) /\ kv[t] \in Key

LEMMA FieldNames == Field \subseteq Name /\ "alias" \in Name /\ "alias" \notin Field
  BY DEF Field, Name

LEMMA ValueAfterPut ==
    ASSUME NEW entries, Put(entries), NEW t
    PROVE  Value(t)' = IF t \in DOMAIN entries THEN entries[t] ELSE Value(t)
  BY DEF Put, Value

LEMMA ValueAfterDelete ==
    ASSUME NEW T, DeleteTexts(T), NEW t
    PROVE  Value(t)' = IF t \in T THEN None ELSE Value(t)
  BY DEF DeleteTexts, Value

LEMMA PutInv ==
    ASSUME KeysInv, NEW entries, Put(entries),
           \A t \in DOMAIN entries :
             \/ \E k \in Key, n \in Name : t = PeerText(k, n) /\ entries[t] \in Holds[n]
             \/ \E a \in Alias : t = AliasText(a) /\ entries[t] \in Key
    PROVE  KeysInv'
  <1>1. kv' = [t \in DOMAIN kv' |-> kv'[t]] /\ DOMAIN kv' = DOMAIN kv \cup DOMAIN entries
    BY DEF Put
  <1>2. \A t \in DOMAIN kv' : kv'[t] = IF t \in DOMAIN entries THEN entries[t] ELSE kv[t]
    BY DEF Put
  <1>. QED
    <2>1. ASSUME NEW t \in DOMAIN kv'
          PROVE  \/ \E k \in Key, n \in Name : t = PeerText(k, n) /\ kv'[t] \in Holds[n]
                 \/ \E a \in Alias : t = AliasText(a) /\ kv'[t] \in Key
      <3>1. CASE t \in DOMAIN entries
        BY <1>2, <3>1
      <3>2. CASE t \notin DOMAIN entries
        BY <1>1, <1>2, <3>2 DEF KeysInv
      <3>. QED
        BY <3>1, <3>2
    <2>. QED
      BY <1>1, <2>1 DEF KeysInv

LEMMA DeleteInv ==
    ASSUME KeysInv, NEW T, DeleteTexts(T)
    PROVE  KeysInv'
  <1>1. kv' = [t \in DOMAIN kv' |-> kv'[t]] /\ DOMAIN kv' = DOMAIN kv \ T
    BY DEF DeleteTexts
  <1>2. \A t \in DOMAIN kv' : kv'[t] = kv[t]
    BY DEF DeleteTexts
  <1>. QED
    BY <1>1, <1>2 DEF KeysInv

LEMMA Tables ==
    /\ Rows = [k \in Key |-> [f \in Field |-> Value(PeerText(k, f))]]
    /\ PeerAliases = [k \in Key |-> Value(PeerText(k, "alias"))]
    /\ AliasIndex = [a \in Alias |-> Value(AliasText(a))]
  <1>1. Path.alias = Path["alias"]
    OBVIOUS
  <1>. QED
    BY <1>1 DEF Rows, PeerAliases, AliasIndex, PeerText, AliasText

LEMMA TablesNext ==
    /\ Rows' = [k \in Key |-> [f \in Field |-> Value(PeerText(k, f))']]
    /\ PeerAliases' = [k \in Key |-> Value(PeerText(k, "alias"))']
    /\ AliasIndex' = [a \in Alias |-> Value(AliasText(a))']
  BY DEF Rows, PeerAliases, AliasIndex, PeerText, AliasText, Value, Peers, Aliases, Path

\* What a step does to the values of the texts of peers and aliases.
LEMMA AddValues ==
    ASSUME PlainKeys, NEW k \in Key, NEW ip \in IP, NEW a \in Alias, CtlAdd(k, ip, a)
    PROVE  /\ Value(AliasText(a)) = None
           /\ \A j \in Key, n \in Name :
                Value(PeerText(j, n))' = IF j = k /\ n = "wg" THEN ip
                                         ELSE IF j = k /\ n = "alias" THEN a
                                         ELSE Value(PeerText(j, n))
           /\ \A b \in Alias : Value(AliasText(b))' = IF b = a THEN k ELSE Value(AliasText(b))
           /\ KeysInv => KeysInv'
  <1> DEFINE entries ==
               [t \in {PeerText(k, "wg"), PeerText(k, "alias"), AliasText(a)} |->
                  IF t = AliasText(a) THEN k ELSE IF t = PeerText(k, "alias") THEN a ELSE ip]
  <1>1. /\ Clean(Peers(k)) \o Path.wg = PeerText(k, "wg")
        /\ Clean(Peers(k)) \o Path.alias = PeerText(k, "alias")
    <2>1. Path.wg = Path["wg"] /\ Path.alias = Path["alias"] /\ "wg" \in Name /\ "alias" \in Name
      BY DEF Name
    <2>. QED
      BY <2>1, CleanPeers, Composed
  <1>2. AliasText(a) \notin DOMAIN kv /\ Put(entries)
    BY <1>1, CleanAliases DEF CtlAdd
  <1>3. \A n \in Name : PeerText(k, n) # AliasText(a)
    BY PeerNotAliasText
  <1>4. PeerText(k, "wg") # PeerText(k, "alias") /\ "wg" \in Name /\ "alias" \in Name
    BY PeerTextsDiffer DEF Name
  <1>5. /\ DOMAIN entries = {PeerText(k, "wg"), PeerText(k, "alias"), AliasText(a)}
        /\ entries[PeerText(k, "wg")] = ip
        /\ entries[PeerText(k, "alias")] = a
        /\ entries[AliasText(a)] = k
    BY <1>3, <1>4
  <1>. HIDE DEF entries
  <1>6. Value(AliasText(a)) = None
    BY <1>2 DEF Value
  <1>7. ASSUME NEW j \in Key, NEW n \in Name
        PROVE  Value(PeerText(j, n))' = IF j = k /\ n = "wg" THEN ip
                                        ELSE IF j = k /\ n = "alias" THEN a
                                        ELSE Value(PeerText(j, n))
    <2>1. PeerText(j, n) # AliasText(a)
      BY PeerNotAliasText
    <2>2. \A m \in Name : PeerText(j, n) = PeerText(k, m) => j = k /\ n = m
      BY PeerTextsDiffer
    <2>3. PeerText(j, n) \in DOMAIN entries <=> j = k /\ n \in {"wg", "alias"}
      BY <1>4, <1>5, <2>1, <2>2
    <2>4. Value(PeerText(j, n))' = IF PeerText(j, n) \in DOMAIN entries THEN entries[PeerText(j, n)]
                                   ELSE Value(PeerText(j, n))
      BY <1>2, ValueAfterPut
    <2>. QED
      BY <1>4, <1>5, <2>3, <2>4
  <1>8. ASSUME NEW b \in Alias
        PROVE  Value(AliasText(b))' = IF b = a THEN k ELSE Value(AliasText(b))
    <2>1. \A n \in Name : PeerText(k, n) # AliasText(b)
      BY PeerNotAliasText
    <2>2. AliasText(b) \in DOMAIN entries <=> b = a
      BY <1>4, <1>5, <2>1, AliasTextsDiffer
    <2>3. Value(AliasText(b))' = IF AliasText(b) \in DOMAIN entries THEN entries[AliasText(b)]
                                 ELSE Value(AliasText(b))
      BY <1>2, ValueAfterPut
    <2>. QED
      BY <1>5, <2>2, <2>3
  <1>9. ASSUME KeysInv PROVE KeysInv'
    <2>1. ip \in Holds["wg"] /\ a \in Holds["alias"]
      BY DEF Holds
    <2>2. \A t \in DOMAIN entries :
             \/ \E j \in Key, n \in Name : t = PeerText(j, n) /\ entries[t] \in Holds[n]
             \/ \E b \in Alias : t = AliasText(b) /\ entries[t] \in Key
      BY <1>4, <1>5, <2>1
    <2>. QED
      BY <1>2, <1>9, <2>2, PutInv
  <1>. QED
    BY <1>6, <1>7, <1>8, <1>9

LEMMA RemoveValues ==
    ASSUME PlainKeys, NEW k \in Key, CtlRemove(k)
    PROVE  /\ \A j \in Key, n \in Name :
                Value(PeerText(j, n))' = IF j = k THEN None ELSE Value(PeerText(j, n))
           /\ \A b \in Alias : Value(AliasText(b))' = Value(AliasText(b))
           /\ KeysInv => KeysInv'
  <1> DEFINE T == {t \in DOMAIN kv : SE!IsPrefix(Peers(k), t)}
  <1>1. DeleteTexts(T)
    BY CleanPeers DEF CtlRemove
  <1>2. Peers(k) \in Seq(Token) /\ Len(Peers(k)) = Len(k) + 2 /\ Len(k) \in Nat
    BY KeyType, PeersProps
  <1>3. ASSUME NEW j \in Key, NEW n \in Name
        PROVE  SE!IsPrefix(Peers(k), PeerText(j, n)) <=> j = k
    <2>1. CASE SE!IsPrefix(Peers(k), PeerText(j, n))
      <3>1. /\ Len(Peers(k)) <= Len(PeerText(j, n))
            /\ \A i \in 1 .. Len(Peers(k)) : Peers(k)[i] = PeerText(j, n)[i]
        BY <1>2, <2>1, PrefixProps, PeerTextProps
      <3>2. \A i \in 3 .. Len(k) + 2 : PeerText(j, n)[i] = k[i - 2]
        BY <1>2, <3>1, KeyType, PeersProps, SMTT(30)
      <3>. QED
        BY <1>2, <2>1, <3>1, <3>2, PeerTextPrefix
    <2>2. ASSUME j = k PROVE SE!IsPrefix(Peers(k), PeerText(j, n))
      <3>1. Len(PeerText(k, n)) = Len(k) + Len(Path[n]) + 2 /\ Len(Path[n]) \in Nat
        BY PathType, PeerTextProps
      <3>2. ASSUME NEW i \in 1 .. Len(k) + 2 PROVE Peers(k)[i] = PeerText(k, n)[i]
        <4>1. CASE i \in 3 .. Len(k) + 2
          <5>1. \A h \in 3 .. Len(k) + 2 : Peers(k)[h] = k[h - 2]
            BY KeyType, PeersProps
          <5>2. \A h \in 3 .. Len(k) + 2 : PeerText(k, n)[h] = k[h - 2]
            BY PeerTextProps
          <5>. QED
            BY <4>1, <5>1, <5>2
        <4>2. CASE i = 1 \/ i = 2
          <5>1. Peers(k)[1] = "/valon/peers" /\ Peers(k)[2] = "/"
            BY KeyType, PeersProps
          <5>2. PeerText(k, n)[1] = "/valon/peers" /\ PeerText(k, n)[2] = "/"
            BY PeerTextProps
          <5>. QED
            BY <4>2, <5>1, <5>2
        <4>. QED
          BY <1>2, <4>1, <4>2
      <3>. QED
        BY <1>2, <2>2, <3>1, <3>2, PrefixProps, PeerTextProps
    <2>. QED
      BY <2>1, <2>2
  <1>4. ASSUME NEW b \in Alias PROVE ~SE!IsPrefix(Peers(k), AliasText(b))
    <2>1. Peers(k)[1] # AliasText(b)[1] /\ 1 \in 1 .. Len(Peers(k))
      BY <1>2, KeyType, PeersProps, AliasTextProps
    <2>. QED
      BY <1>2, <2>1, PrefixProps, AliasTextProps
  <1>5. \A t : Value(t)' = IF t \in T THEN None ELSE Value(t)
    <2>. HIDE DEF T
    <2>. QED
      BY <1>1, ValueAfterDelete
  <1>6. KeysInv => KeysInv'
    <2>. HIDE DEF T
    <2>. QED
      BY <1>1, DeleteInv
  <1>. QED
    BY <1>3, <1>4, <1>5, <1>6 DEF Value

LEMMA SyncValues ==
    ASSUME NEW k \in Key, NEW ops \in Synced, PluginSync(k, ops)
    PROVE  /\ \A j \in Key, n \in Name :
                Value(PeerText(j, n))' = IF j = k /\ n \in Field /\ ops[n] # None THEN ops[n]
                                         ELSE Value(PeerText(j, n))
           /\ \A b \in Alias : Value(AliasText(b))' = Value(AliasText(b))
           /\ KeysInv => KeysInv'
  <1> DEFINE entries ==
               [t \in {PeerText(k, f) : f \in {g \in Field : ops[g] # None}} |->
                  ops[CHOOSE f \in Field : t = PeerText(k, f)]]
  <1>1. Put(entries)
    BY DEF PluginSync, PeerText
  <1>2. \A f \in Field : (CHOOSE g \in Field : PeerText(k, f) = PeerText(k, g)) = f
    BY PeerTextsDiffer, FieldNames
  <1>3. /\ DOMAIN entries = {PeerText(k, f) : f \in {g \in Field : ops[g] # None}}
        /\ \A f \in Field : ops[f] # None => entries[PeerText(k, f)] = ops[f]
    BY <1>2
  <1>. HIDE DEF entries
  <1>4. ASSUME NEW j \in Key, NEW n \in Name
        PROVE  Value(PeerText(j, n))' = IF j = k /\ n \in Field /\ ops[n] # None THEN ops[n]
                                        ELSE Value(PeerText(j, n))
    <2>1. PeerText(j, n) \in DOMAIN entries <=> j = k /\ n \in Field /\ ops[n] # None
      BY <1>3, PeerTextsDiffer, FieldNames
    <2>2. Value(PeerText(j, n))' = IF PeerText(j, n) \in DOMAIN entries THEN entries[PeerText(j, n)]
                                   ELSE Value(PeerText(j, n))
      BY <1>1, ValueAfterPut
    <2>. QED
      BY <1>3, <2>1, <2>2
  <1>5. ASSUME NEW b \in Alias PROVE Value(AliasText(b))' = Value(AliasText(b))
    <2>1. AliasText(b) \notin DOMAIN entries
      BY <1>3, PeerNotAliasText, FieldNames
    <2>. QED
      BY <1>1, <2>1, ValueAfterPut
  <1>6. ASSUME KeysInv PROVE KeysInv'
    <2>1. \A f \in Field : ops[f] # None => ops[f] \in Holds[f]
      BY DEF Synced, Holds, Field
    <2>2. \A t \in DOMAIN entries : \E j \in Key, n \in Name : t = PeerText(j, n) /\ entries[t] \in Holds[n]
      BY <1>3, <2>1, FieldNames
    <2>. QED
      BY <1>1, <1>6, <2>2, PutInv
  <1>. QED
    BY <1>4, <1>5, <1>6

LEMMA AliasValues ==
    ASSUME NEW k \in Key, NEW a \in Alias, PluginAlias(k, a)
    PROVE  /\ \A j \in Key, n \in Name : Value(PeerText(j, n))' = Value(PeerText(j, n))
           /\ \A b \in Alias : Value(AliasText(b))' = IF b = a THEN k ELSE Value(AliasText(b))
           /\ KeysInv => KeysInv'
  <1> DEFINE entries == [t \in {AliasText(a)} |-> k]
  <1>1. Put(entries)
    BY DEF PluginAlias, AliasText
  <1>2. DOMAIN entries = {AliasText(a)} /\ entries[AliasText(a)] = k
    OBVIOUS
  <1>. HIDE DEF entries
  <1>3. KeysInv => KeysInv'
    BY <1>1, <1>2, PutInv
  <1>4. ASSUME NEW j \in Key, NEW n \in Name PROVE Value(PeerText(j, n))' = Value(PeerText(j, n))
    BY <1>1, <1>2, ValueAfterPut, PeerNotAliasText
  <1>5. ASSUME NEW b \in Alias PROVE Value(AliasText(b))' = IF b = a THEN k ELSE Value(AliasText(b))
    BY <1>1, <1>2, ValueAfterPut, AliasTextsDiffer
  <1>. QED
    BY <1>3, <1>4, <1>5

LEMMA ReverseValues ==
    ASSUME NEW k \in Key, NEW a \in Alias, PluginReverse(k, a)
    PROVE  /\ \A j \in Key, n \in Name :
                Value(PeerText(j, n))' = IF j = k /\ n = "alias" THEN a ELSE Value(PeerText(j, n))
           /\ \A b \in Alias : Value(AliasText(b))' = Value(AliasText(b))
           /\ KeysInv => KeysInv'
  <1> DEFINE entries == [t \in {PeerText(k, "alias")} |-> a]
  <1>1. Put(entries)
    <2>1. Path.alias = Path["alias"]
      OBVIOUS
    <2>. QED
      BY <2>1 DEF PluginReverse, PeerText
  <1>2. DOMAIN entries = {PeerText(k, "alias")} /\ entries[PeerText(k, "alias")] = a
    OBVIOUS
  <1>. HIDE DEF entries
  <1>3. KeysInv => KeysInv'
    <2>1. a \in Holds["alias"]
      BY DEF Holds
    <2>. QED
      BY <1>1, <1>2, <2>1, PutInv, FieldNames
  <1>4. ASSUME NEW j \in Key, NEW n \in Name
        PROVE  Value(PeerText(j, n))' = IF j = k /\ n = "alias" THEN a ELSE Value(PeerText(j, n))
    <2>1. PeerText(j, n) \in DOMAIN entries <=> j = k /\ n = "alias"
      BY <1>2, PeerTextsDiffer, FieldNames
    <2>. QED
      BY <1>1, <1>2, <2>1, ValueAfterPut
  <1>5. ASSUME NEW b \in Alias PROVE Value(AliasText(b))' = Value(AliasText(b))
    BY <1>1, <1>2, ValueAfterPut, PeerNotAliasText, FieldNames
  <1>. QED
    BY <1>3, <1>4, <1>5

LEMMA UnaliasValues ==
    ASSUME NEW a \in Alias, CtlUnalias(a)
    PROVE  /\ \A j \in Key, n \in Name : Value(PeerText(j, n))' = Value(PeerText(j, n))
           /\ \A b \in Alias : Value(AliasText(b))' = IF b = a THEN None ELSE Value(AliasText(b))
           /\ KeysInv => KeysInv'
  <1>1. DeleteTexts({AliasText(a)})
    BY CleanAliases DEF CtlUnalias
  <1>. QED
    BY <1>1, DeleteInv, ValueAfterDelete, PeerNotAliasText, AliasTextsDiffer

\* What the DELETE handler deletes is nobody's: nothing changes.
LEMMA NobodysValues ==
    ASSUME NEW k \in Key, PluginUnalias(k)
    PROVE  /\ \A j \in Key, n \in Name : Value(PeerText(j, n))' = Value(PeerText(j, n))
           /\ \A b \in Alias : Value(AliasText(b))' = Value(AliasText(b))
           /\ KeysInv => KeysInv'
  <1>1. DeleteTexts({Aliases(k)})
    BY DEF PluginUnalias
  <1>2. \A j \in Key, n \in Name : PeerText(j, n) # Aliases(k)
    BY KeyType, PeerNotAlias
  <1>3. \A b \in Alias : AliasText(b) # Aliases(k)
    BY KeyNotAlias
  <1>. QED
    BY <1>1, <1>2, <1>3, DeleteInv, ValueAfterDelete

-----------------------------------------------------------------------------

\* The inductive invariant.
LEMMA KeysInvariant == ASSUME PlainKeys PROVE KeysSpec => []KeysInv
  <1>1. KeysInit => KeysInv
    BY DEF KeysInit, KeysInv
  <1>2. KeysInv /\ [KeysNext]_kv => KeysInv'
    <2>. SUFFICES ASSUME KeysInv, [KeysNext]_kv PROVE KeysInv'
      OBVIOUS
    <2>1. ASSUME NEW k \in Key, NEW ip \in IP, NEW a \in Alias, CtlAdd(k, ip, a) PROVE KeysInv'
      BY <2>1, AddValues
    <2>2. ASSUME NEW k \in Key, CtlRemove(k) PROVE KeysInv'
      BY <2>2, RemoveValues
    <2>3. ASSUME NEW a \in Alias, CtlUnalias(a) PROVE KeysInv'
      BY <2>3, UnaliasValues
    <2>4. ASSUME NEW k \in Key, NEW ops \in Synced, PluginSync(k, ops) PROVE KeysInv'
      BY <2>4, SyncValues
    <2>5. ASSUME NEW k \in Key, NEW a \in Alias, PluginAlias(k, a) PROVE KeysInv'
      BY <2>5, AliasValues
    <2>6. ASSUME NEW k \in Key, NEW a \in Alias, PluginReverse(k, a) PROVE KeysInv'
      BY <2>6, ReverseValues
    <2>7. ASSUME NEW k \in Key, PluginUnalias(k) PROVE KeysInv'
      BY <2>7, NobodysValues
    <2>8. ASSUME UNCHANGED kv PROVE KeysInv'
      BY <2>8 DEF KeysInv
    <2>. QED
      BY <2>1, <2>2, <2>3, <2>4, <2>5, <2>6, <2>7, <2>8 DEF KeysNext
  <1>. QED
    BY <1>1, <1>2, PTL DEF KeysSpec

LEMMA NoTexts == KeysInit => E!EtcdInit
  <1>. SUFFICES ASSUME KeysInit PROVE E!EtcdInit
    OBVIOUS
  <1>1. \A t : Value(t) = None
    BY DEF KeysInit, Value
  <1>. QED
    BY <1>1, Tables DEF E!EtcdInit, E!NoFields, E!Field, Field

LEMMA RowNext ==
    ASSUME NEW k \in Key, NEW row, row = [f \in Field |-> row[f]],
           \A j \in Key, f \in Field :
             Value(PeerText(j, f))' = IF j = k THEN row[f] ELSE Value(PeerText(j, f))
    PROVE  Rows' = [Rows EXCEPT ![k] = row]
  <1>1. ASSUME NEW j \in Key PROVE Rows'[j] = IF j = k THEN row ELSE Rows[j]
    BY Tables, TablesNext
  <1>2. Rows' = [j \in Key |-> Rows'[j]] /\ DOMAIN Rows = Key
    BY Tables, TablesNext
  <1>. QED
    BY <1>1, <1>2

LEMMA AddIsRegister ==
    ASSUME PlainKeys, NEW k \in Key, NEW ip \in IP, NEW a \in Alias, CtlAdd(k, ip, a)
    PROVE  E!RegisterFree(a) /\ E!Register(k, ip, a)
  <1>1. E!RegisterFree(a)
    BY AddValues, Tables DEF E!RegisterFree
  <1>2. Rows' = [Rows EXCEPT ![k]["wg"] = ip]
    <2> DEFINE row == [f \in Field |-> IF f = "wg" THEN ip ELSE Value(PeerText(k, f))]
    <2>1. \A j \in Key, f \in Field :
             Value(PeerText(j, f))' = IF j = k THEN row[f] ELSE Value(PeerText(j, f))
      BY AddValues, FieldNames
    <2>2. row = [f \in Field |-> row[f]]
      OBVIOUS
    <2>3. row = [Rows[k] EXCEPT !["wg"] = ip]
      BY Tables DEF Field
    <2>. HIDE DEF row
    <2>. QED
      BY <2>1, <2>2, <2>3, RowNext
  <1>3. PeerAliases' = [PeerAliases EXCEPT ![k] = a]
    BY AddValues, Tables, TablesNext, FieldNames
  <1>4. AliasIndex' = [AliasIndex EXCEPT ![a] = k]
    BY AddValues, Tables, TablesNext
  <1>. QED
    BY <1>1, <1>2, <1>3, <1>4 DEF E!Register

LEMMA RemoveIsDeregister ==
    ASSUME PlainKeys, NEW k \in Key, CtlRemove(k)
    PROVE  E!Deregister(k)
  <1>1. Rows' = [Rows EXCEPT ![k] = E!NoFields]
    <2> DEFINE row == [f \in Field |-> None]
    <2>1. \A j \in Key, f \in Field :
             Value(PeerText(j, f))' = IF j = k THEN row[f] ELSE Value(PeerText(j, f))
      BY RemoveValues, FieldNames
    <2>2. row = E!NoFields /\ row = [f \in Field |-> row[f]]
      BY DEF E!NoFields, E!Field, Field
    <2>. HIDE DEF row
    <2>. QED
      BY <2>1, <2>2, RowNext
  <1>2. PeerAliases' = [PeerAliases EXCEPT ![k] = None]
    BY RemoveValues, Tables, TablesNext, FieldNames
  <1>3. AliasIndex' = AliasIndex
    BY RemoveValues, Tables, TablesNext
  <1>. QED
    BY <1>1, <1>2, <1>3 DEF E!Deregister, E!DeletePrefix

LEMMA SyncIsPutFields ==
    ASSUME NEW k \in Key, NEW ops \in Synced, PluginSync(k, ops)
    PROVE  E!PutFields(k, ops) /\ UNCHANGED <<PeerAliases, AliasIndex>>
  <1>1. Rows' = [Rows EXCEPT ![k] = [f \in Field |-> IF ops[f] = None THEN @[f] ELSE ops[f]]]
    <2> DEFINE row == [f \in Field |-> IF ops[f] = None THEN Rows[k][f] ELSE ops[f]]
    <2>1. \A j \in Key, f \in Field :
             Value(PeerText(j, f))' = IF j = k THEN row[f] ELSE Value(PeerText(j, f))
      BY SyncValues, Tables, FieldNames
    <2>2. row = [f \in Field |-> row[f]]
      OBVIOUS
    <2>3. Rows' = [Rows EXCEPT ![k] = row]
      <3>. HIDE DEF row
      <3>. QED
        BY <2>1, <2>2, RowNext
    <2>. QED
      BY <2>3
  <1>2. PeerAliases' = PeerAliases /\ AliasIndex' = AliasIndex
    BY SyncValues, Tables, TablesNext, FieldNames
  <1>. QED
    BY <1>1, <1>2 DEF E!PutFields, E!Field, Field

LEMMA AliasRows ==
    ASSUME NEW k \in Key, NEW a \in Alias
    PROVE  /\ PluginAlias(k, a) =>
                AliasIndex' = [AliasIndex EXCEPT ![a] = k] /\ UNCHANGED <<Rows, PeerAliases>>
           /\ PluginReverse(k, a) =>
                PeerAliases' = [PeerAliases EXCEPT ![k] = a] /\ UNCHANGED <<Rows, AliasIndex>>
  <1>1. ASSUME PluginAlias(k, a)
        PROVE  AliasIndex' = [AliasIndex EXCEPT ![a] = k] /\ UNCHANGED <<Rows, PeerAliases>>
    BY <1>1, AliasValues, Tables, TablesNext, FieldNames
  <1>2. ASSUME PluginReverse(k, a)
        PROVE  PeerAliases' = [PeerAliases EXCEPT ![k] = a] /\ UNCHANGED <<Rows, AliasIndex>>
    BY <1>2, ReverseValues, Tables, TablesNext, FieldNames
  <1>. QED
    BY <1>1, <1>2

LEMMA DeletesAreRows ==
    /\ \A k \in Key : PluginUnalias(k) => UNCHANGED E!etcdVars
    /\ \A a \in Alias : CtlUnalias(a) => E!Unalias(a)
  <1>1. ASSUME NEW k \in Key, PluginUnalias(k) PROVE UNCHANGED E!etcdVars
    BY <1>1, NobodysValues, Tables, TablesNext, FieldNames DEF E!etcdVars
  <1>2. ASSUME NEW a \in Alias, CtlUnalias(a) PROVE E!Unalias(a)
    BY <1>2, UnaliasValues, Tables, TablesNext, FieldNames DEF E!Unalias
  <1>. QED
    BY <1>1, <1>2

\* Each request does to etcd's texts what Etcd and AdminCalls say it does to the row of
\* the peer or the alias it is about, for any public keys path.Join leaves alone.
THEOREM TextsAreTables == ASSUME PlainKeys PROVE KeysSpec => ImplementsEtcd
  <1>1. RowsFollow
    BY RemoveIsDeregister, DeletesAreRows, SyncIsPutFields, AddIsRegister, AliasRows DEF RowsFollow
  <1>. QED
    BY <1>1, NoTexts, PTL DEF KeysSpec, ImplementsEtcd

-----------------------------------------------------------------------------
(* The readers *)

\* What the readers look for in a relKey.
Patterns ==
    {Path.wg, Path.alias, <<"/", "endpoint", "s", "/">>, <<"/", "ip">>, <<"/", "endpoint">>}

OccursAt(p, text, i) == \A j \in 1 .. Len(p) : text[i + j - 1] = p[j]

\* Public keys that do not spell the name of a field.
NoFieldWords ==
    \A k \in Key : /\ Index(k, Path.wg) = 0 /\ Index(k, Path.alias) = 0
                   /\ Index(k, <<"/", "endpoint", "s", "/">>) = 0

LEMMA PatternType ==
    ASSUME NEW p \in Patterns
    PROVE  /\ p \in Seq(Token) /\ Len(p) \in Nat /\ Len(p) >= 2 /\ DOMAIN p = 1 .. Len(p)
           /\ \A i \in 1 .. Len(p) : p[i] # "="
  <1>1. CASE p = Path.wg BY <1>1 DEF Path, Words, Token
  <1>2. CASE p = Path.alias BY <1>2 DEF Path, Words, Token
  <1>3. CASE p = <<"/", "endpoint", "s", "/">> BY <1>3 DEF Words, Token
  <1>4. CASE p = <<"/", "ip">> BY <1>4 DEF Words, Token
  <1>5. CASE p = <<"/", "endpoint">> BY <1>5 DEF Words, Token
  <1>. QED
    BY <1>1, <1>2, <1>3, <1>4, <1>5 DEF Patterns

LEMMA IndexProps ==
    ASSUME NEW p \in Patterns, NEW text, Len(text) \in Nat
    PROVE  /\ Index(text, p) = 0 <=> \A i \in 1 .. Len(text) - Len(p) + 1 : ~OccursAt(p, text, i)
           /\ \A i \in 1 .. Len(text) - Len(p) + 1 :
                OccursAt(p, text, i)
                /\ (\A h \in 1 .. Len(text) - Len(p) + 1 : OccursAt(p, text, h) => h = i)
                => Index(text, p) = i
  <1> DEFINE starts == {i \in 1 .. Len(text) - Len(p) + 1 : OccursAt(p, text, i)}
  <1>1. Index(text, p) = IF starts = {} THEN 0 ELSE CHOOSE i \in starts : \A j \in starts : i <= j
    <2>1. DOMAIN p = 1 .. Len(p)
      BY PatternType
    <2>2. starts = {i \in 1 .. Len(text) - Len(p) + 1 : \A j \in DOMAIN p : text[i + j - 1] = p[j]}
      BY <2>1 DEF OccursAt
    <2>. HIDE DEF starts
    <2>. QED
      BY <2>2 DEF Index
  <1>2. starts \subseteq Nat /\ 0 \notin starts
    BY PatternType
  <1>3. \A i \in starts : starts = {i} => Index(text, p) = i
    <2>. HIDE DEF starts
    <2>. SUFFICES ASSUME NEW i \in starts, starts = {i} PROVE Index(text, p) = i
      OBVIOUS
    <2>1. i <= i
      BY <1>2
    <2>. QED
      BY <1>1, <2>1
  <1>4. Index(text, p) = 0 <=> starts = {}
    <2>. HIDE DEF starts
    <2>1. ASSUME starts # {} PROVE Index(text, p) # 0
      <3>1. \E i \in starts : \A j \in starts : i <= j
        BY <1>2, <2>1, LeastNumber
      <3>. QED
        BY <1>1, <1>2, <2>1, <3>1
    <2>. QED
      BY <1>1, <2>1
  <1>. QED
    BY <1>3, <1>4

\* A pattern is found at the beginning of a path or not at all.
LEMMA PatternsOfPaths ==
    ASSUME NEW p \in Patterns, NEW n \in Name, NEW i \in 1 .. Len(Path[n]) - Len(p) + 1,
           OccursAt(p, Path[n], i)
    PROVE  i = 1
  <1>0. 1 \in 1 .. Len(p) /\ 2 \in 1 .. Len(p) /\ Len(p) \in Nat
    BY PatternType
  <1>1. Path[n][i] = p[1] /\ Path[n][i + 1] = p[2] /\ i \in 1 .. Len(Path[n])
    <2>1. i + 1 - 1 = i /\ i + 2 - 1 = i + 1
      OBVIOUS
    <2>. QED
      BY <1>0, <2>1, PathType DEF OccursAt
  <1>2. p[1] = "/" /\ p[2] \in {"wg_ip", "alias", "endpoint", "ip"}
    BY DEF Patterns, Path
  <1>3. CASE n = "wg" BY <1>0, <1>1, <1>2, <1>3 DEF Path
  <1>4. CASE n = "alias" BY <1>0, <1>1, <1>2, <1>4 DEF Path
  <1>5. CASE n = "lan" BY <1>0, <1>1, <1>2, <1>5 DEF Path
  <1>6. CASE n = "nat" BY <1>0, <1>1, <1>2, <1>6 DEF Path
  <1>. QED
    BY <1>3, <1>4, <1>5, <1>6 DEF Name

\* Of a public key that does not spell it, a pattern divides the relKey where the path
\* begins: the "=" between them is in no pattern.
LEMMA IndexOfText ==
    ASSUME NEW k \in Key, NEW n \in Name, NEW p \in Patterns, Index(k, p) = 0
    PROVE  Index(k \o Path[n], p) = IF SE!IsPrefix(p, Path[n]) THEN Len(k) + 1 ELSE 0
  <1> DEFINE r == k \o Path[n]
  <1>1. /\ r \in Seq(Token) /\ Len(r) = Len(k) + Len(Path[n])
        /\ \A i \in 1 .. Len(k) : r[i] = k[i]
        /\ \A i \in Len(k) + 1 .. Len(k) + Len(Path[n]) : r[i] = Path[n][i - Len(k)]
        /\ \A i \in 1 .. Len(k) + Len(Path[n]) : r[i] = "=" <=> i = Len(k)
    BY RelProps
  <1>2. Len(k) \in Nat /\ Len(Path[n]) \in Nat /\ Len(p) \in Nat /\ Len(p) >= 2 /\ Len(k) > 1
    BY KeyType, PathType, PatternType
  <1>. HIDE DEF r
  <1>3. ASSUME NEW i \in 1 .. Len(r) - Len(p) + 1, OccursAt(p, r, i)
        PROVE  i = Len(k) + 1 /\ SE!IsPrefix(p, Path[n])
    <2>1. CASE i + Len(p) - 1 < Len(k)
      <3>1. i \in 1 .. Len(k) - Len(p) + 1
        BY <1>1, <1>2, <2>1
      <3>2. ASSUME NEW j \in 1 .. Len(p) PROVE k[i + j - 1] = p[j]
        <4>1. i + j - 1 \in 1 .. Len(k)
          BY <1>2, <3>1
        <4>. QED
          BY <1>1, <1>3, <4>1 DEF OccursAt
      <3>. QED
        BY <1>2, <3>1, <3>2, IndexProps DEF OccursAt
    <2>2. CASE i <= Len(k) /\ Len(k) <= i + Len(p) - 1
      <3> DEFINE j == Len(k) - i + 1
      <3>1. j \in 1 .. Len(p) /\ i + j - 1 = Len(k) /\ Len(k) \in 1 .. Len(k) + Len(Path[n])
        BY <1>1, <1>2, <2>2
      <3>. HIDE DEF j
      <3>2. p[j] = r[Len(k)]
        BY <1>3, <3>1 DEF OccursAt
      <3>. QED
        BY <1>1, <3>1, <3>2, PatternType
    <2>3. CASE i > Len(k)
      <3> DEFINE h == i - Len(k)
      <3>1. h \in 1 .. Len(Path[n]) - Len(p) + 1
        BY <1>1, <1>2, <2>3
      <3>2. ASSUME NEW j \in 1 .. Len(p) PROVE Path[n][h + j - 1] = p[j]
        <4>1. i + j - 1 \in Len(k) + 1 .. Len(k) + Len(Path[n]) /\ (i + j - 1) - Len(k) = h + j - 1
          BY <1>2, <3>1
        <4>. HIDE DEF h
        <4>. QED
          BY <1>1, <1>3, <4>1 DEF OccursAt
      <3>3. h = 1
        <4>. HIDE DEF h
        <4>. QED
          BY <3>1, <3>2, PatternsOfPaths DEF OccursAt
      <3>4. \A j \in 1 .. Len(p) : p[j] = Path[n][j]
        <4>1. \A j \in 1 .. Len(p) : h + j - 1 = j
          BY <1>2, <3>3
        <4>. HIDE DEF h
        <4>. QED
          BY <3>2, <4>1
      <3>5. p \in Seq(Token) /\ Path[n] \in Seq(Token)
        BY PatternType, PathType
      <3>6. i = Len(k) + 1 /\ Len(p) <= Len(Path[n])
        BY <1>2, <3>1, <3>3
      <3>. QED
        BY <3>4, <3>5, <3>6, PrefixProps
    <2>. QED
      BY <1>1, <1>2, <2>1, <2>2, <2>3
  <1>4. ASSUME SE!IsPrefix(p, Path[n]) PROVE Index(r, p) = Len(k) + 1
    <2>1. Len(p) <= Len(Path[n]) /\ \A j \in 1 .. Len(p) : p[j] = Path[n][j]
      <3>1. p \in Seq(Token) /\ Path[n] \in Seq(Token)
        BY PatternType, PathType
      <3>. QED
        BY <1>4, <3>1, PrefixProps
    <2>2. Len(k) + 1 \in 1 .. Len(r) - Len(p) + 1
      BY <1>1, <1>2, <2>1
    <2>3. OccursAt(p, r, Len(k) + 1)
      <3>1. ASSUME NEW j \in 1 .. Len(p) PROVE r[Len(k) + 1 + j - 1] = p[j]
        <4>1. /\ Len(k) + 1 + j - 1 \in Len(k) + 1 .. Len(k) + Len(Path[n])
              /\ (Len(k) + 1 + j - 1) - Len(k) = j
          BY <1>2, <2>1
        <4>. QED
          BY <1>1, <2>1, <4>1
      <3>. QED
        BY <3>1 DEF OccursAt
    <2>4. \A h \in 1 .. Len(r) - Len(p) + 1 : OccursAt(p, r, h) => h = Len(k) + 1
      BY <1>3
    <2>5. Len(r) \in Nat
      BY <1>1, <1>2
    <2>. QED
      BY <2>2, <2>3, <2>4, <2>5, IndexProps
  <1>5. ASSUME ~SE!IsPrefix(p, Path[n]) PROVE Index(r, p) = 0
    BY <1>1, <1>2, <1>3, <1>5, IndexProps
  <1>6. Index(r, p) = IF SE!IsPrefix(p, Path[n]) THEN Len(k) + 1 ELSE 0
    BY <1>4, <1>5
  <1>. QED
    BY <1>6 DEF r

LEMMA FieldOfPath == \A n \in Name : FieldAt(Tail(Path[n])) = n
  <1>1. /\ Tail(Path["wg"]) = <<"wg_ip">> /\ Tail(Path["alias"]) = <<"alias">>
        /\ Tail(Path["lan"]) = <<"endpoint", "s", "/", "lan">>
        /\ Tail(Path["nat"]) = <<"endpoint", "s", "/", "nated">>
    BY DEF Path
  <1>5. ASSUME NEW n \in Name
        PROVE  /\ Len(Tail(Path[n])) = IF n \in {"wg", "alias"} THEN 1 ELSE 4
               /\ Tail(Path[n])[1] = IF n = "wg" THEN "wg_ip"
                                     ELSE IF n = "alias" THEN "alias" ELSE "endpoint"
               /\ n \in {"lan", "nat"} => Tail(Path[n])[4] = IF n = "lan" THEN "lan" ELSE "nated"
    <2> DEFINE one(w) == <<w>>
               four(w) == <<"endpoint", "s", "/", w>>
    <2>5. \A w : Len(one(w)) = 1 /\ one(w)[1] = w
      OBVIOUS
    <2>6. \A w : Len(four(w)) = 4 /\ four(w)[1] = "endpoint" /\ four(w)[4] = w
      OBVIOUS
    <2>7. /\ Tail(Path["wg"]) = one("wg_ip") /\ Tail(Path["alias"]) = one("alias")
          /\ Tail(Path["lan"]) = four("lan") /\ Tail(Path["nat"]) = four("nated")
      BY <1>1
    <2>. HIDE DEF one, four
    <2>1. CASE n = "wg" BY <2>1, <2>5, <2>7
    <2>2. CASE n = "alias" BY <2>2, <2>5, <2>7
    <2>3. CASE n = "lan" BY <2>3, <2>6, <2>7
    <2>4. CASE n = "nat" BY <2>4, <2>6, <2>7
    <2>. QED
      BY <2>1, <2>2, <2>3, <2>4 DEF Name
  <1>2. ASSUME NEW m \in Name, NEW n \in Name PROVE LeadsTo(Tail(Path[n]), m) <=> m = n
    <2> DEFINE s == Tail(Path[m])
               t == Tail(Path[n])
    <2>1. s \in Seq(Token) /\ t \in Seq(Token)
      BY PathType
    <2>2. /\ Len(s) = IF m \in {"wg", "alias"} THEN 1 ELSE 4
          /\ s[1] = IF m = "wg" THEN "wg_ip" ELSE IF m = "alias" THEN "alias" ELSE "endpoint"
          /\ m \in {"lan", "nat"} => s[4] = IF m = "lan" THEN "lan" ELSE "nated"
      BY <1>5
    <2>9. /\ t[1] = IF n = "wg" THEN "wg_ip" ELSE IF n = "alias" THEN "alias" ELSE "endpoint"
          /\ n \in {"lan", "nat"} => t[4] = IF n = "lan" THEN "lan" ELSE "nated"
      BY <1>5
    <2>10. m = n => s = t
      OBVIOUS
    <2>3. LeadsTo(t, m) <=> SE!IsPrefix(s, t) /\ (Len(s) < Len(t) => t[Len(s) + 1] = "/")
      BY DEF LeadsTo
    <2>. HIDE DEF s, t
    <2>4. SE!IsPrefix(s, t) <=> Len(s) <= Len(t) /\ \A i \in 1 .. Len(s) : s[i] = t[i]
      BY <2>1, PrefixProps
    <2>11. Len(s) \in Nat
      BY <2>2
    <2>5. m # n => ~SE!IsPrefix(s, t)
      <3>1. 1 \in 1 .. Len(s) /\ (m \in {"lan", "nat"} => 4 \in 1 .. Len(s))
        BY <2>2 DEF Name
      <3>2. m # n => s[1] # t[1] \/ (m \in {"lan", "nat"} /\ s[4] # t[4])
        BY <2>2, <2>9 DEF Name
      <3>. QED
        BY <2>4, <3>1, <3>2
    <2>6. m = n => SE!IsPrefix(s, t) /\ ~(Len(s) < Len(t))
      BY <2>10, <2>11, <2>4
    <2>7. LeadsTo(t, m) <=> m = n
      BY <2>3, <2>5, <2>6
    <2>. QED
      BY <2>7 DEF t
  <1>3. DOMAIN Path = Name
    BY DEF Path, Name
  <1>4. ASSUME NEW n \in Name PROVE FieldAt(Tail(Path[n])) = n
    <2> DEFINE path == Tail(Path[n])
    <2>1. \A f \in DOMAIN Path : LeadsTo(path, f) <=> f = n
      BY <1>2, <1>3
    <2>. HIDE DEF path
    <2>2. FieldAt(path) = n
      BY <1>3, <2>1 DEF FieldAt
    <2>. QED
      BY <2>2 DEF path
  <1>. QED
    BY <1>4

\* Where a peer's relKey is cut, whatever the order of the patterns.
LEMMA SplitOfText ==
    ASSUME NEW k \in Key, NEW n \in Name, NEW patterns \in Seq(Patterns),
           \A i \in 1 .. Len(patterns) : Index(k, patterns[i]) = 0,
           \E i \in 1 .. Len(patterns) : SE!IsPrefix(patterns[i], Path[n])
    PROVE  Split(k \o Path[n], patterns) = <<k, Tail(Path[n])>>
  <1> DEFINE r == k \o Path[n]
             I == {i \in 1 .. Len(patterns) : Index(r, patterns[i]) # 0}
             hit == IF I # {} THEN SE!Min(I) ELSE 0
  <1>1. /\ r \in Seq(Token) /\ Len(r) = Len(k) + Len(Path[n])
        /\ \A i \in 1 .. Len(k) : r[i] = k[i]
        /\ \A i \in Len(k) + 1 .. Len(k) + Len(Path[n]) : r[i] = Path[n][i - Len(k)]
    BY RelProps
  <1>2. /\ k \in Seq(Token) /\ Len(k) \in Nat /\ Path[n] \in Seq(Token) /\ Len(Path[n]) \in Nat
        /\ Len(Path[n]) >= 2
    BY KeyType, PathType
  <1>3. \A i \in 1 .. Len(patterns) :
           Index(r, patterns[i]) = IF SE!IsPrefix(patterns[i], Path[n]) THEN Len(k) + 1 ELSE 0
    BY IndexOfText
  <1>4. Split(r, patterns) = IF hit = 0 THEN <<>> ELSE Cut(r, Index(r, patterns[hit]))
    BY DEF Split, SE!SelectInSeq
  <1>. HIDE DEF r
  <1>5. hit \in I /\ hit # 0
    <2>1. I # {} /\ I \subseteq Nat /\ 0 \notin I
      BY <1>2, <1>3
    <2>. HIDE DEF I
    <2>2. \E i \in I : \A j \in I : i <= j
      BY <2>1, LeastNumber
    <2>. QED
      BY <2>1, <2>2 DEF SE!Min
  <1>6. Index(r, patterns[hit]) = Len(k) + 1
    <2>. HIDE DEF hit
    <2>. QED
      BY <1>3, <1>5
  <1>. HIDE DEF hit
  <1>7. Split(r, patterns) = <<SubSeq(r, 1, Len(k)), SubSeq(r, Len(k) + 2, Len(r))>>
    <2>1. Len(k) + 1 - 1 = Len(k) /\ Len(k) + 1 + 1 = Len(k) + 2
      BY <1>2
    <2>. QED
      BY <1>4, <1>5, <1>6, <2>1 DEF Cut
  <1>8. SubSeq(r, 1, Len(k)) = k
    <2>1. /\ SubSeq(r, 1, Len(k)) \in Seq(Token) /\ Len(SubSeq(r, 1, Len(k))) = Len(k)
          /\ \A i \in 1 .. Len(k) : SubSeq(r, 1, Len(k))[i] = r[i]
      BY <1>1, <1>2
    <2>. QED
      BY <1>1, <1>2, <2>1, Extensional
  <1>9. SubSeq(r, Len(k) + 2, Len(r)) = Tail(Path[n])
    <2> DEFINE s == SubSeq(r, Len(k) + 2, Len(r))
               t == Tail(Path[n])
    <2>1. /\ s \in Seq(Token) /\ Len(s) = Len(Path[n]) - 1
          /\ \A i \in 1 .. Len(Path[n]) - 1 : s[i] = r[Len(k) + 1 + i]
      BY <1>1, <1>2
    <2>2. /\ t \in Seq(Token) /\ Len(t) = Len(Path[n]) - 1
          /\ \A i \in 1 .. Len(Path[n]) - 1 : t[i] = Path[n][i + 1]
      BY <1>2
    <2>3. ASSUME NEW i \in 1 .. Len(Path[n]) - 1 PROVE r[Len(k) + 1 + i] = Path[n][i + 1]
      <3>1. /\ Len(k) + 1 + i \in Len(k) + 1 .. Len(k) + Len(Path[n])
            /\ (Len(k) + 1 + i) - Len(k) = i + 1
        BY <1>2
      <3>. QED
        BY <1>1, <3>1
    <2>. HIDE DEF s, t
    <2>4. Len(s) = Len(t) /\ \A i \in 1 .. Len(s) : s[i] = t[i]
      BY <2>1, <2>2, <2>3
    <2>5. s = t
      BY <2>1, <2>2, <2>4, Extensional
    <2>. QED
      BY <2>5 DEF s, t
  <1>10. Split(r, patterns) = <<k, Tail(Path[n])>>
    BY <1>7, <1>8, <1>9
  <1>. QED
    BY <1>10 DEF r

LEMMA Held ==
    ASSUME KeysInv, NEW k \in Key, NEW n \in Name
    PROVE  /\ PeerText(k, n) \in DOMAIN kv <=> Value(PeerText(k, n)) # None
           /\ PeerText(k, n) \in DOMAIN kv => /\ Value(PeerText(k, n)) = kv[PeerText(k, n)]
                                              /\ Value(PeerText(k, n)) \in Holds[n]
  <1>1. ASSUME PeerText(k, n) \in DOMAIN kv PROVE kv[PeerText(k, n)] \in Holds[n]
    <2>1. \/ \E j \in Key, m \in Name : PeerText(k, n) = PeerText(j, m) /\ kv[PeerText(k, n)] \in Holds[m]
          \/ \E a \in Alias : PeerText(k, n) = AliasText(a) /\ kv[PeerText(k, n)] \in Key
      BY <1>1 DEF KeysInv
    <2>. QED
      BY <2>1, PeerTextsDiffer, PeerNotAliasText
  <1>2. None \notin Holds[n]
    BY SentinelAssumption DEF Holds, Name, Text
  <1>. QED
    BY <1>1, <1>2 DEF Value

LEMMA RestOfText ==
    ASSUME NEW rel \in Seq(Token)
    PROVE  SubSeq(Peers(rel), 3, Len(Peers(rel))) = rel
  <1> DEFINE s == SubSeq(Peers(rel), 3, Len(Peers(rel)))
  <1>1. /\ Peers(rel) \in Seq(Token) /\ Len(Peers(rel)) = Len(rel) + 2 /\ Len(rel) \in Nat
        /\ \A i \in 3 .. Len(rel) + 2 : Peers(rel)[i] = rel[i - 2]
    BY PeersProps
  <1>2. s \in Seq(Token) /\ Len(s) = Len(rel) /\ \A i \in 1 .. Len(rel) : s[i] = Peers(rel)[i + 2]
    BY <1>1
  <1>3. ASSUME NEW i \in 1 .. Len(rel) PROVE Peers(rel)[i + 2] = rel[i]
    <2>1. i + 2 \in 3 .. Len(rel) + 2 /\ (i + 2) - 2 = i
      BY <1>1
    <2>. QED
      BY <1>1, <2>1
  <1>. HIDE DEF s
  <1>4. s = rel
    BY <1>2, <1>3, Extensional
  <1>. QED
    BY <1>4 DEF s

\* The relKeys the readers are given are those of peers.
LEMMA BelowPeers ==
    ASSUME KeysInv, NEW rel
    PROVE  rel \in Below(Peers(<<>>)) <=>
             \E k \in Key, n \in Name : rel = k \o Path[n] /\ PeerText(k, n) \in DOMAIN kv
  <1> DEFINE prefix == Peers(<<>>)
  <1>1. /\ prefix \in Seq(Token) /\ Len(prefix) = 2
        /\ prefix[1] = "/valon/peers" /\ prefix[2] = "/"
    <2> DEFINE empty == <<>>
    <2>1. empty \in Seq(Token) /\ Len(empty) = 0
      OBVIOUS
    <2>3. ASSUME NEW rest \in Seq(Token), Len(rest) = 0
          PROVE  /\ Peers(rest) \in Seq(Token) /\ Len(Peers(rest)) = 2
                 /\ Peers(rest)[1] = "/valon/peers" /\ Peers(rest)[2] = "/"
      <3>1. Len(rest) + 2 = 2
        BY <2>3
      <3>. QED
        BY <2>3, <3>1, PeersProps
    <2>. HIDE DEF empty
    <2>2. /\ Peers(empty) \in Seq(Token) /\ Len(Peers(empty)) = 2
          /\ Peers(empty)[1] = "/valon/peers" /\ Peers(empty)[2] = "/"
      BY <2>1, <2>3
    <2>. QED
      BY <2>2 DEF empty
  <1>. HIDE DEF prefix
  <1>2. ASSUME NEW k \in Key, NEW n \in Name PROVE SE!IsPrefix(prefix, PeerText(k, n))
    <2>1. Len(PeerText(k, n)) >= 2
      BY KeyType, PathType, PeerTextProps
    <2>2. \A i \in 1 .. 2 : prefix[i] = PeerText(k, n)[i]
      <3>1. \A i \in 1 .. 2 : i = 1 \/ i = 2
        OBVIOUS
      <3>. QED
        BY <1>1, <3>1, PeerTextProps
    <2>. QED
      BY <1>1, <2>1, <2>2, PrefixProps, PeerTextProps
  <1>3. ASSUME NEW a \in Alias PROVE ~SE!IsPrefix(prefix, AliasText(a))
    <2>1. 1 \in 1 .. Len(prefix) /\ prefix[1] # AliasText(a)[1]
      BY <1>1, AliasTextProps
    <2>. QED
      BY <1>1, <2>1, PrefixProps, AliasTextProps
  <1>4. ASSUME NEW k \in Key, NEW n \in Name
        PROVE  SubSeq(PeerText(k, n), 3, Len(PeerText(k, n))) = k \o Path[n]
    BY RelProps, RestOfText DEF PeerText
  <1>5. Below(prefix) = {SubSeq(t, 3, Len(t)) : t \in {u \in DOMAIN kv : SE!IsPrefix(prefix, u)}}
    <2>1. Len(prefix) + 1 = 3
      BY <1>1
    <2>. QED
      BY <2>1 DEF Below
  <1>6. ASSUME NEW t \in DOMAIN kv, SE!IsPrefix(prefix, t), rel = SubSeq(t, 3, Len(t))
        PROVE  \E k \in Key, n \in Name : rel = k \o Path[n] /\ PeerText(k, n) \in DOMAIN kv
    <2>1. PICK k \in Key, n \in Name : t = PeerText(k, n)
      BY <1>3, <1>6 DEF KeysInv
    <2>. QED
      BY <1>4, <1>6, <2>1
  <1>7. ASSUME NEW k \in Key, NEW n \in Name, rel = k \o Path[n], PeerText(k, n) \in DOMAIN kv
        PROVE  rel \in Below(prefix)
    BY <1>2, <1>4, <1>5, <1>7
  <1>8. rel \in Below(prefix) <=>
          \E k \in Key, n \in Name : rel = k \o Path[n] /\ PeerText(k, n) \in DOMAIN kv
    BY <1>5, <1>6, <1>7
  <1>. QED
    BY <1>8 DEF prefix

\* What is parsed of the text of a field, by patterns that divide it where it was put
\* together ...
LEMMA ParsedOfText ==
    ASSUME KeysInv, NEW k \in Key, NEW n \in Name, NEW patterns \in Seq(Patterns),
           PeerText(k, n) \in DOMAIN kv,
           \A i \in 1 .. Len(patterns) : Index(k, patterns[i]) = 0,
           \E i \in 1 .. Len(patterns) : SE!IsPrefix(patterns[i], Path[n])
    PROVE  <<k, n, Value(PeerText(k, n))>> \in Parsed(Below(Peers(<<>>)), patterns)
  <1> DEFINE r == k \o Path[n]
             S == Below(Peers(<<>>))
  <1>1. r \in S
    BY BelowPeers
  <1>2. Split(r, patterns) = <<k, Tail(Path[n])>>
    BY SplitOfText
  <1>3. kv[Peers(r)] = Value(PeerText(k, n))
    BY DEF PeerText, Value
  <1>4. FieldAt(Tail(Path[n])) = n
    BY FieldOfPath
  <1>. HIDE DEF r, S
  <1>5. /\ Split(r, patterns) # <<>> /\ Split(r, patterns)[1] = k
        /\ FieldAt(Split(r, patterns)[2]) = n
    BY <1>2, <1>4
  <1>6. <<k, n, Value(PeerText(k, n))>> \in Parsed(S, patterns)
    BY <1>1, <1>3, <1>5 DEF Parsed
  <1>. QED
    BY <1>6 DEF S

\* ... and that nothing else is.
LEMMA ParsedFromTexts ==
    ASSUME KeysInv, NEW patterns \in Seq(Patterns),
           \A k \in Key, n \in Name :
              PeerText(k, n) \in DOMAIN kv =>
                /\ \A i \in 1 .. Len(patterns) : Index(k, patterns[i]) = 0
                /\ \E i \in 1 .. Len(patterns) : SE!IsPrefix(patterns[i], Path[n]),
           NEW q \in Parsed(Below(Peers(<<>>)), patterns)
    PROVE  \E k \in Key, n \in Name :
              PeerText(k, n) \in DOMAIN kv /\ q = <<k, n, Value(PeerText(k, n))>>
  <1>1. PICK rel \in Below(Peers(<<>>)) :
             q = <<Split(rel, patterns)[1], FieldAt(Split(rel, patterns)[2]), kv[Peers(rel)]>>
    BY DEF Parsed
  <1>2. PICK k \in Key, n \in Name : rel = k \o Path[n] /\ PeerText(k, n) \in DOMAIN kv
    BY BelowPeers
  <1>3. Split(rel, patterns) = <<k, Tail(Path[n])>>
    BY <1>2, SplitOfText
  <1>4. kv[Peers(rel)] = Value(PeerText(k, n))
    BY <1>2 DEF PeerText, Value
  <1>5. FieldAt(Tail(Path[n])) = n
    BY FieldOfPath
  <1>6. Split(rel, patterns)[1] = k /\ FieldAt(Split(rel, patterns)[2]) = n
    BY <1>3, <1>5
  <1>. QED
    BY <1>1, <1>2, <1>4, <1>6

HeldRows ==
    {r \in {<<k, f, Value(Peers(k \o Path[f]))>> : k \in Key, f \in DOMAIN Path} : r[3] # None}

LEMMA HeldRowsAreTexts ==
    ASSUME KeysInv
    PROVE  /\ \A k \in Key, n \in Name :
                PeerText(k, n) \in DOMAIN kv => <<k, n, Value(PeerText(k, n))>> \in HeldRows
           /\ \A r \in HeldRows : \E k \in Key, n \in Name :
                PeerText(k, n) \in DOMAIN kv /\ r = <<k, n, Value(PeerText(k, n))>>
  <1>1. DOMAIN Path = Name
    BY DEF Path, Name
  <1>2. HeldRows = {r \in {<<k, n, Value(PeerText(k, n))>> : k \in Key, n \in Name} : r[3] # None}
    BY <1>1 DEF HeldRows, PeerText
  <1>3. ASSUME NEW k \in Key, NEW n \in Name
        PROVE  PeerText(k, n) \in DOMAIN kv <=> <<k, n, Value(PeerText(k, n))>>[3] # None
    <2>1. <<k, n, Value(PeerText(k, n))>>[3] = Value(PeerText(k, n))
      OBVIOUS
    <2>. QED
      BY <2>1, Held
  <1>. QED
    BY <1>2, <1>3

LoadPatterns == <<Path.wg, Path.alias, <<"/", "endpoint", "s", "/">>>>

ListPatterns == <<Path.wg, <<"/", "ip">>, Path.alias, <<"/", "endpoint">>>>

LEMMA PrefixOf ==
    /\ SE!IsPrefix(Path.wg, Path["wg"]) /\ SE!IsPrefix(Path.alias, Path["alias"])
    /\ \A n \in {"lan", "nat"} : /\ SE!IsPrefix(<<"/", "endpoint", "s", "/">>, Path[n])
                                 /\ SE!IsPrefix(<<"/", "endpoint">>, Path[n])
  <1>1. \A n \in Name : SE!IsPrefix(Path[n], Path[n])
    BY PathType, PrefixProps
  <1>2. ASSUME NEW n \in {"lan", "nat"}
        PROVE  /\ SE!IsPrefix(<<"/", "endpoint", "s", "/">>, Path[n])
               /\ SE!IsPrefix(<<"/", "endpoint">>, Path[n])
    <2> DEFINE p == <<"/", "endpoint", "s", "/">>
               q == <<"/", "endpoint">>
    <2>1. p \in Seq(Token) /\ q \in Seq(Token) /\ n \in Name
      BY DEF Token, Words, Name
    <2>2. Len(p) = 4 /\ p[1] = "/" /\ p[2] = "endpoint" /\ p[3] = "s" /\ p[4] = "/"
      OBVIOUS
    <2>3. Len(q) = 2 /\ q[1] = "/" /\ q[2] = "endpoint"
      OBVIOUS
    <2>4. /\ Len(Path[n]) = 5 /\ Path[n][1] = "/" /\ Path[n][2] = "endpoint" /\ Path[n][3] = "s"
          /\ Path[n][4] = "/"
      <3> DEFINE whole(w) == <<"/", "endpoint", "s", "/", w>>
      <3>1. \A w : /\ Len(whole(w)) = 5 /\ whole(w)[1] = "/" /\ whole(w)[2] = "endpoint"
                   /\ whole(w)[3] = "s" /\ whole(w)[4] = "/"
        OBVIOUS
      <3>2. Path["lan"] = whole("lan") /\ Path["nat"] = whole("nated")
        BY DEF Path
      <3>. HIDE DEF whole
      <3>. QED
        BY <3>1, <3>2
    <2>. HIDE DEF p, q
    <2>5. \A i \in 1 .. 4 : i = 1 \/ i = 2 \/ i = 3 \/ i = 4
      OBVIOUS
    <2>8. \A i \in 1 .. 4 : p[i] = Path[n][i]
      BY <2>2, <2>4, <2>5
    <2>9. \A i \in 1 .. 2 : i = 1 \/ i = 2
      OBVIOUS
    <2>10. \A i \in 1 .. 2 : q[i] = Path[n][i]
      BY <2>3, <2>4, <2>9
    <2>11. Path[n] \in Seq(Token)
      BY <2>1, PathType
    <2>6. SE!IsPrefix(p, Path[n])
      BY <2>1, <2>2, <2>4, <2>8, <2>11, PrefixProps
    <2>12. Len(q) <= Len(Path[n]) /\ \A i \in 1 .. Len(q) : q[i] = Path[n][i]
      BY <2>3, <2>4, <2>10
    <2>7. SE!IsPrefix(q, Path[n])
      BY <2>1, <2>11, <2>12, PrefixProps
    <2>. QED
      BY <2>6, <2>7 DEF p, q
  <1>3. Path.wg = Path["wg"] /\ Path.alias = Path["alias"] /\ "wg" \in Name /\ "alias" \in Name
    BY DEF Name
  <1>. QED
    BY <1>1, <1>2, <1>3

LEMMA LoadPatternsFind ==
    ASSUME NoFieldWords
    PROVE  /\ LoadPatterns \in Seq(Patterns)
           /\ \A k \in Key, i \in 1 .. Len(LoadPatterns) : Index(k, LoadPatterns[i]) = 0
           /\ \A n \in Name : \E i \in 1 .. Len(LoadPatterns) : SE!IsPrefix(LoadPatterns[i], Path[n])
  <1>1. /\ LoadPatterns \in Seq(Patterns) /\ Len(LoadPatterns) = 3
        /\ LoadPatterns[1] = Path.wg /\ LoadPatterns[2] = Path.alias
        /\ LoadPatterns[3] = <<"/", "endpoint", "s", "/">>
    BY DEF LoadPatterns, Patterns
  <1>2. \A i \in 1 .. 3 : i = 1 \/ i = 2 \/ i = 3
    OBVIOUS
  <1>3. 1 \in 1 .. 3 /\ 2 \in 1 .. 3 /\ 3 \in 1 .. 3
    OBVIOUS
  <1>. QED
    BY <1>1, <1>2, <1>3, PrefixOf DEF NoFieldWords, Name

LEMMA ListPatternsFind ==
    ASSUME NoFieldWords
    PROVE  /\ ListPatterns \in Seq(Patterns)
           /\ \A k \in Key, i \in 1 .. Len(ListPatterns) :
                ~Spells(k) => Index(k, ListPatterns[i]) = 0
           /\ \A n \in Name : \E i \in 1 .. Len(ListPatterns) : SE!IsPrefix(ListPatterns[i], Path[n])
  <1>1. /\ ListPatterns \in Seq(Patterns) /\ Len(ListPatterns) = 4
        /\ ListPatterns[1] = Path.wg /\ ListPatterns[2] = <<"/", "ip">>
        /\ ListPatterns[3] = Path.alias /\ ListPatterns[4] = <<"/", "endpoint">>
    BY DEF ListPatterns, Patterns
  <1>2. \A i \in 1 .. 4 : i = 1 \/ i = 2 \/ i = 3 \/ i = 4
    OBVIOUS
  <1>3. 1 \in 1 .. 4 /\ 2 \in 1 .. 4 /\ 3 \in 1 .. 4 /\ 4 \in 1 .. 4
    OBVIOUS
  <1>. QED
    BY <1>1, <1>2, <1>3, PrefixOf DEF NoFieldWords, Spells, Name

\* loadFromEtcd finds every field of every peer.
LEMMA AllLoaded == ASSUME KeysInv, NoFieldWords PROVE LoadedAll = HeldRows
  <1>1. LoadedAll = Parsed(Below(Peers(<<>>)), LoadPatterns)
    BY DEF LoadedAll, LoadPatterns
  <1>2. \A r \in HeldRows : r \in LoadedAll
    BY <1>1, HeldRowsAreTexts, LoadPatternsFind, ParsedOfText
  <1>3. \A r \in LoadedAll : r \in HeldRows
    BY <1>1, HeldRowsAreTexts, LoadPatternsFind, ParsedFromTexts
  <1>. QED
    BY <1>2, <1>3

\* ListPeers finds those of the peers whose keys do not spell its words.
LEMMA PlainListed ==
    ASSUME KeysInv, NoFieldWords
    PROVE  /\ {r \in HeldRows : ~Spells(r[1])} \subseteq Listed
           /\ {r \in HeldRows : ~Spells(r[1])} = HeldRows => Listed = HeldRows
  <1>1. Listed = Parsed(Below(Peers(<<>>)), ListPatterns)
    BY DEF Listed, ListPatterns
  <1>2. ASSUME NEW r \in HeldRows, ~Spells(r[1]) PROVE r \in Listed
    BY <1>1, <1>2, HeldRowsAreTexts, ListPatternsFind, ParsedOfText
  <1>3. ASSUME \A r \in HeldRows : ~Spells(r[1]), NEW r \in Listed PROVE r \in HeldRows
    <2>1. ASSUME NEW k \in Key, NEW n \in Name, PeerText(k, n) \in DOMAIN kv PROVE ~Spells(k)
      <3>1. <<k, n, Value(PeerText(k, n))>>[1] = k
        OBVIOUS
      <3>. QED
        BY <1>3, <2>1, <3>1, HeldRowsAreTexts
    <2>. QED
      BY <1>1, <2>1, HeldRowsAreTexts, ListPatternsFind, ParsedFromTexts
  <1>. QED
    BY <1>2, <1>3

LEMMA SuffixProps ==
    ASSUME NEW s \in Seq(Token), NEW t \in Seq(Token)
    PROVE  SE!IsSuffix(s, t) <=>
             Len(s) <= Len(t) /\ \A i \in 1 .. Len(s) : s[i] = t[Len(t) - Len(s) + i]
  <1> DEFINE u == SE!Reverse(s)
             v == SE!Reverse(t)
  <1>1. /\ u \in Seq(Token) /\ Len(u) = Len(s) /\ \A i \in 1 .. Len(s) : u[i] = s[Len(s) - i + 1]
        /\ v \in Seq(Token) /\ Len(v) = Len(t) /\ \A i \in 1 .. Len(t) : v[i] = t[Len(t) - i + 1]
    BY DEF SE!Reverse
  <1>2. Len(s) \in Nat /\ Len(t) \in Nat
    OBVIOUS
  <1>3. SE!IsSuffix(s, t) <=> SE!IsPrefix(u, v)
    BY DEF SE!IsSuffix
  <1>. HIDE DEF u, v
  <1>4. SE!IsSuffix(s, t) <=> Len(s) <= Len(t) /\ \A i \in 1 .. Len(s) : u[i] = v[i]
    BY <1>1, <1>3, PrefixProps
  <1>5. ASSUME Len(s) <= Len(t), \A i \in 1 .. Len(s) : u[i] = v[i], NEW i \in 1 .. Len(s)
        PROVE  s[i] = t[Len(t) - Len(s) + i]
    <2> DEFINE h == Len(s) - i + 1
    <2>1. h \in 1 .. Len(s) /\ h \in 1 .. Len(t)
          /\ Len(s) - h + 1 = i /\ Len(t) - h + 1 = Len(t) - Len(s) + i
      BY <1>2, <1>5
    <2>. HIDE DEF h
    <2>. QED
      BY <1>1, <1>5, <2>1
  <1>6. ASSUME Len(s) <= Len(t), \A i \in 1 .. Len(s) : s[i] = t[Len(t) - Len(s) + i],
               NEW i \in 1 .. Len(s)
        PROVE  u[i] = v[i]
    <2> DEFINE h == Len(s) - i + 1
    <2>1. h \in 1 .. Len(s) /\ i \in 1 .. Len(t) /\ Len(t) - Len(s) + h = Len(t) - i + 1
      BY <1>2, <1>6
    <2>2. u[i] = s[h] /\ v[i] = t[Len(t) - i + 1]
      BY <1>1, <2>1
    <2>. HIDE DEF h
    <2>. QED
      BY <1>6, <2>1, <2>2
  <1>. QED
    BY <1>4, <1>5, <1>6

\* Paths are told apart by their last parts.
LEMMA PathEnds ==
    ASSUME NEW m \in Name, NEW n \in Name, Path[m][Len(Path[m])] = Path[n][Len(Path[n])]
    PROVE  m = n
  <1> DEFINE two(w) == <<"/", w>>
             five(w) == <<"/", "endpoint", "s", "/", w>>
  <1>1. \A w : two(w)[Len(two(w))] = w /\ five(w)[Len(five(w))] = w
    OBVIOUS
  <1>2. /\ Path["wg"] = two("wg_ip") /\ Path["alias"] = two("alias")
        /\ Path["lan"] = five("lan") /\ Path["nat"] = five("nated")
    BY DEF Path
  <1>. HIDE DEF two, five
  <1>. QED
    BY <1>1, <1>2 DEF Name

LEMMA PathSuffix ==
    ASSUME NEW m \in Name, NEW n \in Name
    PROVE  SE!IsSuffix(Path[m], Path[n]) <=> m = n
  <1>1. Path[m] \in Seq(Token) /\ Path[n] \in Seq(Token) /\ Len(Path[m]) >= 2 /\ Len(Path[m]) \in Nat
    BY PathType
  <1>2. ASSUME SE!IsSuffix(Path[m], Path[n]) PROVE m = n
    <2>1. \A i \in 1 .. Len(Path[m]) : Path[m][i] = Path[n][Len(Path[n]) - Len(Path[m]) + i]
      BY <1>1, <1>2, SuffixProps
    <2>2. /\ Len(Path[m]) \in 1 .. Len(Path[m])
          /\ Len(Path[n]) - Len(Path[m]) + Len(Path[m]) = Len(Path[n])
      BY <1>1
    <2>. QED
      BY <2>1, <2>2, PathEnds, ZenonT(40)
  <1>3. ASSUME m = n PROVE SE!IsSuffix(Path[m], Path[n])
    <2>1. \A i \in 1 .. Len(Path[m]) : Len(Path[m]) - Len(Path[m]) + i = i
      BY <1>1
    <2>. QED
      BY <1>1, <1>3, <2>1, SuffixProps
  <1>. QED
    BY <1>2, <1>3

LEMMA TwoSuffix ==
    ASSUME NEW s \in Seq(Token), NEW t \in Seq(Token), Len(s) = 2, Len(t) >= 2
    PROVE  SE!IsSuffix(s, t) <=> \A i \in 1 .. 2 : s[i] = t[Len(t) - 2 + i]
  <1>1. SE!IsSuffix(s, t) <=>
          Len(s) <= Len(t) /\ \A i \in 1 .. Len(s) : s[i] = t[Len(t) - Len(s) + i]
    BY SuffixProps
  <1>. QED
    BY <1>1

LEMMA TextSuffix ==
    ASSUME NEW m \in Name, NEW k \in Key, NEW n \in Name, m \in {"wg", "alias"}
    PROVE  SE!IsSuffix(Path[m], PeerText(k, n)) <=> m = n
  <1> DEFINE t == PeerText(k, n)
  <1>1. /\ t \in Seq(Token) /\ Len(t) = Len(k) + Len(Path[n]) + 2
        /\ \A i \in Len(k) + 3 .. Len(k) + Len(Path[n]) + 2 : t[i] = Path[n][i - 2 - Len(k)]
    BY PeerTextProps
  <1>2. /\ Path[m] \in Seq(Token) /\ Path[n] \in Seq(Token) /\ Len(Path[m]) = 2
        /\ Len(Path[n]) \in Nat /\ Len(Path[n]) >= 2 /\ Len(k) \in Nat
    <2>1. Len(Path[m]) = 2
      BY DEF Path
    <2>. QED
      BY <2>1, PathType, KeyType
  <1>. HIDE DEF t
  <1>3. \A i \in 1 .. 2 : t[Len(t) - 2 + i] = Path[n][Len(Path[n]) - 2 + i]
    <2>. SUFFICES ASSUME NEW i \in 1 .. 2 PROVE t[Len(t) - 2 + i] = Path[n][Len(Path[n]) - 2 + i]
      OBVIOUS
    <2> DEFINE h == Len(t) - 2 + i
    <2>1. /\ h \in Len(k) + 3 .. Len(k) + Len(Path[n]) + 2
          /\ h - 2 - Len(k) = Len(Path[n]) - 2 + i
      BY <1>1, <1>2
    <2>. HIDE DEF h
    <2>2. t[h] = Path[n][Len(Path[n]) - 2 + i]
      BY <1>1, <2>1
    <2>. QED
      BY <2>2 DEF h
  <1>4. SE!IsSuffix(Path[m], t) <=> \A i \in 1 .. 2 : Path[m][i] = t[Len(t) - 2 + i]
    <2>1. Len(t) >= 2
      BY <1>1, <1>2
    <2>. QED
      BY <1>1, <1>2, <2>1, TwoSuffix
  <1>5. SE!IsSuffix(Path[m], Path[n]) <=>
          \A i \in 1 .. 2 : Path[m][i] = Path[n][Len(Path[n]) - 2 + i]
    BY <1>2, TwoSuffix
  <1>6. SE!IsSuffix(Path[m], t) <=> m = n
    BY <1>3, <1>4, <1>5, PathSuffix
  <1>. QED
    BY <1>6 DEF t

\* Of etcd's texts, those below /valon/peers that end in wg_ip are overlay addresses.
LEMMA AddressesUsed ==
    ASSUME KeysInv
    PROVE  Used = {r[3] : r \in {q \in HeldRows : q[2] = "wg"}}
  <1> DEFINE prefix == <<"/valon/peers">>
  <1>1. prefix \in Seq(Token) /\ Len(prefix) = 1 /\ prefix[1] = "/valon/peers"
    BY DEF Token, Words
  <1>2. Path.wg = Path["wg"] /\ "wg" \in Name
    BY DEF Name
  <1>3. Used = {kv[t] : t \in {u \in DOMAIN kv : SE!IsPrefix(prefix, u) /\ SE!IsSuffix(Path["wg"], u)}}
    BY <1>2 DEF Used
  <1>. HIDE DEF prefix
  <1>4. \A i \in 1 .. 1 : i = 1
    OBVIOUS
  <1>5. ASSUME NEW k \in Key, NEW n \in Name PROVE SE!IsPrefix(prefix, PeerText(k, n))
    <2>1. PeerText(k, n) \in Seq(Token) /\ PeerText(k, n)[1] = "/valon/peers"
      BY PeerTextProps
    <2>2. Len(PeerText(k, n)) >= 1
      BY KeyType, PathType, PeerTextProps
    <2>3. \A i \in 1 .. Len(prefix) : prefix[i] = PeerText(k, n)[i]
      BY <1>1, <1>4, <2>1
    <2>. QED
      BY <1>1, <2>1, <2>2, <2>3, PrefixProps
  <1>6. ASSUME NEW a \in Alias PROVE ~SE!IsPrefix(prefix, AliasText(a))
    <2>1. prefix[1] # AliasText(a)[1] /\ AliasText(a) \in Seq(Token)
      BY <1>1, AliasTextProps
    <2>2. 1 \in 1 .. Len(prefix)
      BY <1>1
    <2>. QED
      BY <1>1, <2>1, <2>2, PrefixProps
  <1>7. ASSUME NEW v \in Used PROVE v \in {r[3] : r \in {q \in HeldRows : q[2] = "wg"}}
    <2>1. PICK t \in DOMAIN kv : /\ SE!IsPrefix(prefix, t) /\ SE!IsSuffix(Path["wg"], t)
                                 /\ v = kv[t]
      BY <1>3
    <2>2. PICK k \in Key, n \in Name : t = PeerText(k, n)
      BY <1>6, <2>1 DEF KeysInv
    <2>3. n = "wg"
      BY <1>2, <2>1, <2>2, TextSuffix
    <2> DEFINE r == <<k, n, Value(PeerText(k, n))>>
    <2>4. r \in HeldRows /\ r[2] = "wg" /\ r[3] = v
      BY <2>1, <2>2, <2>3, Held, HeldRowsAreTexts
    <2>. HIDE DEF r
    <2>. QED
      BY <2>4
  <1>8. ASSUME NEW r \in HeldRows, r[2] = "wg" PROVE r[3] \in Used
    <2>1. PICK k \in Key, n \in Name :
               PeerText(k, n) \in DOMAIN kv /\ r = <<k, n, Value(PeerText(k, n))>>
      BY HeldRowsAreTexts
    <2>2. n = "wg" /\ r[3] = kv[PeerText(k, n)]
      BY <1>8, <2>1, Held
    <2>3. SE!IsPrefix(prefix, PeerText(k, n)) /\ SE!IsSuffix(Path["wg"], PeerText(k, n))
      BY <1>2, <1>5, <2>2, TextSuffix
    <2>. QED
      BY <1>3, <2>1, <2>2, <2>3
  <1>. QED
    BY <1>7, <1>8

LEMMA Joined ==
    ASSUME NEW s \in Seq(Token), NEW t \in Seq(Token)
    PROVE  SE!IsPrefix(s, s \o t) /\ SubSeq(s \o t, Len(s) + 1, Len(s \o t)) = t
  <1> DEFINE u == s \o t
             v == SubSeq(u, Len(s) + 1, Len(u))
  <1>1. /\ u \in Seq(Token) /\ Len(u) = Len(s) + Len(t) /\ Len(s) \in Nat /\ Len(t) \in Nat
        /\ \A i \in 1 .. Len(s) : u[i] = s[i]
        /\ \A i \in 1 .. Len(t) : u[Len(s) + i] = t[i]
    OBVIOUS
  <1>. HIDE DEF u
  <1>2. SE!IsPrefix(s, u)
    BY <1>1, PrefixProps
  <1>3. v \in Seq(Token) /\ Len(v) = Len(t) /\ \A i \in 1 .. Len(t) : v[i] = u[Len(s) + i]
    BY <1>1
  <1>. HIDE DEF v
  <1>4. v = t
    BY <1>1, <1>3, Extensional
  <1>. QED
    BY <1>2, <1>4 DEF u, v

\* The prefix with which loadPeerFromEtcd asks for one peer, and what is left of its
\* texts.
LEMMA OnePeer ==
    ASSUME NEW k \in Key
    PROVE  /\ \A n \in Name : /\ (Peers(k) \o <<"/">>) \o Tail(Path[n]) = PeerText(k, n)
                              /\ <<"/">> \o Tail(Path[n]) = Path[n]
                              /\ SE!IsPrefix(Peers(k) \o <<"/">>, PeerText(k, n))
                              /\ SubSeq(PeerText(k, n), Len(Peers(k) \o <<"/">>) + 1,
                                        Len(PeerText(k, n))) = Tail(Path[n])
           /\ \A j \in Key, n \in Name :
                SE!IsPrefix(Peers(k) \o <<"/">>, PeerText(j, n)) => j = k
           /\ \A a \in Alias : ~SE!IsPrefix(Peers(k) \o <<"/">>, AliasText(a))
  <1> DEFINE slash == <<"/">>
             prefix == Peers(k) \o slash
  <1>1. slash \in Seq(Token) /\ Len(slash) = 1
    BY DEF Token, Words
  <1>2. /\ Peers(k) \in Seq(Token) /\ Len(Peers(k)) = Len(k) + 2 /\ Len(k) \in Nat
        /\ Peers(k)[1] = "/valon/peers" /\ \A i \in 3 .. Len(k) + 2 : Peers(k)[i] = k[i - 2]
    BY KeyType, PeersProps
  <1>3. ASSUME NEW n \in Name
        PROVE  slash \o Tail(Path[n]) = Path[n] /\ Tail(Path[n]) \in Seq(Token)
    <2> DEFINE p == Path[n]
               u == slash \o Tail(p)
    <2>1. p \in Seq(Token) /\ Len(p) \in Nat /\ Len(p) >= 2 /\ p[1] = "/"
      BY PathType
    <2>. HIDE DEF p
    <2>2. /\ Tail(p) \in Seq(Token) /\ Len(Tail(p)) = Len(p) - 1
          /\ \A i \in 1 .. Len(p) - 1 : Tail(p)[i] = p[i + 1]
      BY <2>1
    <2>3. u \in Seq(Token) /\ Len(u) = Len(p) /\ \A i \in 1 .. Len(p) : u[i] = p[i]
      BY <1>1, <2>1, <2>2
    <2>. HIDE DEF u
    <2>4. u = p
      BY <2>1, <2>3, Extensional
    <2>. QED
      BY <2>2, <2>4 DEF u, p
  <1>. HIDE DEF slash
  <1>4. /\ prefix \in Seq(Token) /\ Len(prefix) = Len(k) + 3
        /\ prefix[1] = "/valon/peers" /\ \A i \in 3 .. Len(k) + 2 : prefix[i] = k[i - 2]
    <2> DEFINE p == Peers(k)
    <2>1. /\ p \in Seq(Token) /\ Len(p) = Len(k) + 2 /\ Len(k) \in Nat
          /\ p[1] = "/valon/peers" /\ \A i \in 3 .. Len(k) + 2 : p[i] = k[i - 2]
      BY <1>2
    <2>. HIDE DEF p
    <2>2. /\ p \o slash \in Seq(Token) /\ Len(p \o slash) = Len(p) + 1
          /\ \A i \in 1 .. Len(p) : (p \o slash)[i] = p[i]
      <3>1. p \in Seq(Token) /\ slash \in Seq(Token) /\ Len(slash) = 1
        BY <1>1, <2>1
      <3>2. \A s, t \in Seq(Token) :
               /\ s \o t \in Seq(Token) /\ Len(s \o t) = Len(s) + Len(t)
               /\ \A i \in 1 .. Len(s) : (s \o t)[i] = s[i]
        OBVIOUS
      <3>. QED
        BY <3>1, <3>2, ZenonT(40)
    <2>3. 1 \in 1 .. Len(p) /\ \A i \in 3 .. Len(k) + 2 : i \in 1 .. Len(p)
      BY <2>1
    <2>. HIDE DEF prefix
    <2>4. prefix = p \o slash
      BY DEF prefix, p
    <2>5. Len(prefix) = Len(k) + 3
      BY <2>1, <2>2, <2>4
    <2>. QED
      BY <2>1, <2>2, <2>3, <2>4, <2>5
  <1>5. ASSUME NEW n \in Name PROVE prefix \o Tail(Path[n]) = PeerText(k, n)
    <2>1. \A t \in Seq(Token) : (Peers(k) \o slash) \o t = Peers(k) \o (slash \o t)
      BY <1>1, <1>2
    <2>2. (Peers(k) \o slash) \o Tail(Path[n]) = Peers(k) \o (slash \o Tail(Path[n]))
      BY <1>3, <2>1
    <2>. QED
      BY <1>3, <2>2, Composed
  <1>. HIDE DEF prefix
  <1>6. ASSUME NEW n \in Name
        PROVE  /\ SE!IsPrefix(prefix, PeerText(k, n))
               /\ SubSeq(PeerText(k, n), Len(prefix) + 1, Len(PeerText(k, n))) = Tail(Path[n])
    <2>1. /\ SE!IsPrefix(prefix, prefix \o Tail(Path[n]))
          /\ SubSeq(prefix \o Tail(Path[n]), Len(prefix) + 1, Len(prefix \o Tail(Path[n])))
               = Tail(Path[n])
      BY <1>3, <1>4, Joined
    <2>. QED
      BY <1>5, <2>1
  <1>7. ASSUME NEW j \in Key, NEW n \in Name, SE!IsPrefix(prefix, PeerText(j, n)) PROVE j = k
    <2>1. PeerText(j, n) \in Seq(Token)
      BY PeerTextProps
    <2>2. /\ Len(prefix) <= Len(PeerText(j, n))
          /\ \A i \in 1 .. Len(prefix) : prefix[i] = PeerText(j, n)[i]
      BY <1>4, <1>7, <2>1, PrefixProps
    <2>3. Len(k) + 2 <= Len(PeerText(j, n)) /\ \A i \in 3 .. Len(k) + 2 : PeerText(j, n)[i] = k[i - 2]
      <3>1. Len(PeerText(j, n)) \in Nat
        BY <2>1
      <3>2. Len(k) + 2 <= Len(PeerText(j, n))
        BY <1>2, <1>4, <2>2, <3>1
      <3>3. \A i \in 3 .. Len(k) + 2 : i \in 1 .. Len(prefix)
        BY <1>2, <1>4
      <3>. QED
        BY <1>4, <2>2, <3>2, <3>3
    <2>. QED
      BY <2>3, PeerTextPrefix
  <1>8. ASSUME NEW a \in Alias PROVE ~SE!IsPrefix(prefix, AliasText(a))
    <2>1. prefix[1] # AliasText(a)[1] /\ AliasText(a) \in Seq(Token)
      BY <1>4, AliasTextProps
    <2>2. 1 \in 1 .. Len(prefix)
      BY <1>2, <1>4
    <2>. QED
      BY <1>4, <2>1, <2>2, PrefixProps
  <1>. QED
    BY <1>3, <1>5, <1>6, <1>7, <1>8 DEF prefix, slash

\* loadPeerFromEtcd finds the fields of the one peer.
LEMMA OneLoaded ==
    ASSUME KeysInv, NEW k \in Key
    PROVE  LoadedOne(k) =
             {<<f, E!Loaded(k, Empty).addr[f]>> : f \in {g \in Field : E!Loaded(k, Empty).addr[g] # Empty}}
  <1> DEFINE prefix == Peers(k) \o <<"/">>
             addr == E!Loaded(k, Empty).addr
  <1>1. /\ \A n \in Name : /\ prefix \o Tail(Path[n]) = PeerText(k, n)
                           /\ <<"/">> \o Tail(Path[n]) = Path[n]
                           /\ SE!IsPrefix(prefix, PeerText(k, n))
                           /\ SubSeq(PeerText(k, n), Len(prefix) + 1, Len(PeerText(k, n)))
                                = Tail(Path[n])
        /\ \A j \in Key, n \in Name : SE!IsPrefix(prefix, PeerText(j, n)) => j = k
        /\ \A a \in Alias : ~SE!IsPrefix(prefix, AliasText(a))
    BY OnePeer
  <1>2. LoadedOne(k) =
          {<<p[1], kv[prefix \o p[2]]>> :
             p \in {q \in Field \X Below(prefix) : SE!IsSuffix(Path[q[1]], <<"/">> \o q[2])}}
    BY DEF LoadedOne
  <1>3. \A f \in Field : addr[f] = IF Value(PeerText(k, f)) # None THEN Value(PeerText(k, f)) ELSE Empty
    BY Tables DEF E!Loaded, E!Field, Field
  <1>. HIDE DEF prefix, addr
  <1>4. ASSUME NEW f \in Field
        PROVE  /\ addr[f] # Empty <=> PeerText(k, f) \in DOMAIN kv
               /\ PeerText(k, f) \in DOMAIN kv => addr[f] = kv[PeerText(k, f)]
    <2>1. Empty \notin Holds[f]
      BY SentinelAssumption DEF Holds, Field
    <2>. QED
      BY <1>3, <2>1, Held, FieldNames
  <1>5. ASSUME NEW rest
        PROVE  rest \in Below(prefix) <=>
                 \E n \in Name : rest = Tail(Path[n]) /\ PeerText(k, n) \in DOMAIN kv
    <2>1. ASSUME rest \in Below(prefix)
          PROVE  \E n \in Name : rest = Tail(Path[n]) /\ PeerText(k, n) \in DOMAIN kv
      <3>1. PICK t \in DOMAIN kv : SE!IsPrefix(prefix, t) /\ rest = SubSeq(t, Len(prefix) + 1, Len(t))
        BY <2>1 DEF Below
      <3>2. PICK n \in Name : t = PeerText(k, n)
        BY <1>1, <3>1 DEF KeysInv
      <3>. QED
        BY <1>1, <3>1, <3>2
    <2>2. ASSUME NEW n \in Name, rest = Tail(Path[n]), PeerText(k, n) \in DOMAIN kv
          PROVE  rest \in Below(prefix)
      BY <1>1, <2>2 DEF Below
    <2>. QED
      BY <2>1, <2>2
  <1>6. ASSUME NEW f \in Field, NEW n \in Name
        PROVE  SE!IsSuffix(Path[f], <<"/">> \o Tail(Path[n])) <=> f = n
    <2>1. <<"/">> \o Tail(Path[n]) = Path[n]
      BY <1>1
    <2>2. SE!IsSuffix(Path[f], Path[n]) <=> f = n
      BY PathSuffix, FieldNames
    <2>. QED
      BY <2>1, <2>2, Zenon
  <1>7. ASSUME NEW x \in LoadedOne(k) PROVE x \in {<<f, addr[f]>> : f \in {g \in Field : addr[g] # Empty}}
    <2>1. PICK f \in Field, rest \in Below(prefix) :
               SE!IsSuffix(Path[f], <<"/">> \o rest) /\ x = <<f, kv[prefix \o rest]>>
      BY <1>2, <1>7
    <2>2. PICK n \in Name : rest = Tail(Path[n]) /\ PeerText(k, n) \in DOMAIN kv
      BY <1>5, <2>1
    <2>3. f = n
      BY <1>6, <2>1, <2>2
    <2>4. addr[f] # Empty /\ x = <<f, addr[f]>>
      BY <1>1, <1>4, <2>1, <2>2, <2>3
    <2>. QED
      BY <2>4
  <1>8. ASSUME NEW f \in Field, addr[f] # Empty PROVE <<f, addr[f]>> \in LoadedOne(k)
    <2> DEFINE rest == Tail(Path[f])
    <2>1. f \in Name /\ PeerText(k, f) \in DOMAIN kv /\ addr[f] = kv[PeerText(k, f)]
      BY <1>4, <1>8, FieldNames
    <2>2. /\ rest \in Below(prefix) /\ prefix \o rest = PeerText(k, f)
          /\ SE!IsSuffix(Path[f], <<"/">> \o rest)
      BY <1>1, <1>5, <1>6, <2>1
    <2>. HIDE DEF rest
    <2> DEFINE p == <<f, rest>>
    <2>3. p \in Field \X Below(prefix) /\ p[1] = f /\ p[2] = rest
      BY <2>2
    <2>. HIDE DEF p
    <2>4. <<f, addr[f]>> = <<p[1], kv[prefix \o p[2]]>>
      BY <2>1, <2>2, <2>3
    <2>. QED
      BY <1>2, <2>2, <2>3, <2>4
  <1>9. LoadedOne(k) = {<<f, addr[f]>> : f \in {g \in Field : addr[g] # Empty}}
    BY <1>7, <1>8
  <1>. QED
    BY <1>9 DEF addr

\* The four readers agree, for any public keys that path.Join leaves alone and that do not
\* spell the name of a field.
THEOREM ReadersAgreeAlways ==
    ASSUME PlainKeys, NoFieldWords
    PROVE  KeysSpec => []ReadersAgree
  <1>1. ASSUME KeysInv PROVE ReadersAgree
    <2>1. /\ LoadedAll = HeldRows /\ Used = {r[3] : r \in {q \in HeldRows : q[2] = "wg"}}
          /\ {r \in HeldRows : ~Spells(r[1])} \subseteq Listed
          /\ {r \in HeldRows : ~Spells(r[1])} = HeldRows => Listed = HeldRows
      BY <1>1, AllLoaded, AddressesUsed, PlainListed
    <2>2. \A k \in Key :
            LoadedOne(k) = {<<f, E!Loaded(k, Empty).addr[f]>> :
                              f \in {g \in Field : E!Loaded(k, Empty).addr[g] # Empty}}
      BY <1>1, OneLoaded
    <2>. QED
      BY <2>1, <2>2 DEF ReadersAgree, HeldRows
  <1>. QED
    BY <1>1, KeysInvariant, PTL

FieldsLoaded ==
    \A k \in Key, f \in Field :
       Value(PeerText(k, f)) # None => <<f, Value(PeerText(k, f))>> \in LoadedOne(k)

\* The plugin does find a peer that was just added, if path.Join leaves the public keys
\* alone: what the other public keys break is this condition, and nothing else.
THEOREM PlainIsLoaded == ASSUME PlainKeys PROVE KeysSpec => RegisteredIsLoaded
  <1>1. KeysInv => FieldsLoaded
    <2>. SUFFICES ASSUME KeysInv, NEW k \in Key, NEW f \in Field, Value(PeerText(k, f)) # None
                  PROVE  <<f, Value(PeerText(k, f))>> \in LoadedOne(k)
      BY DEF FieldsLoaded
    <2>1. E!Loaded(k, Empty).addr[f] = Value(PeerText(k, f))
      BY Tables DEF E!Loaded, E!Field, Field
    <2>2. Value(PeerText(k, f)) # Empty
      <3>1. Empty \notin Holds[f]
        BY SentinelAssumption DEF Holds, Field
      <3>. QED
        BY <3>1, Held, FieldNames
    <2>. QED
      BY <2>1, <2>2, OneLoaded
  <1>2. KeysInv' => FieldsLoaded'
    BY <1>1, PTL
  <1>3. KeysInv /\ KeysInv' =>
          \A k \in Key, ip \in IP, a \in Alias : CtlAdd(k, ip, a) => <<"wg", ip>> \in LoadedOne(k)'
    <2>. SUFFICES ASSUME KeysInv, KeysInv', NEW k \in Key, NEW ip \in IP, NEW a \in Alias,
                         CtlAdd(k, ip, a)
                  PROVE  <<"wg", ip>> \in LoadedOne(k)'
      OBVIOUS
    <2>1. Value(PeerText(k, "wg"))' = ip /\ "wg" \in Field
      BY AddValues, FieldNames DEF Field
    <2>2. ip # None
      BY SentinelAssumption DEF Text
    <2>. QED
      BY <1>2, <2>1, <2>2 DEF FieldsLoaded
  <1>. QED
    BY <1>3, KeysInvariant, PTL DEF KeysSpec, RegisteredIsLoaded
=============================================================================
