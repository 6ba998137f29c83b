---------------------------- MODULE AllocProofs -----------------------------
(* Proofs about IPAlloc: that the loop of AllocateIP finds the lowest free     *)
(* host address.  The definitions it rests on are recursive, so the module     *)
(* begins with induction over numbers, in a form without operator parameters.  *)
EXTENDS IPAlloc, WellFoundedInduction, TLAPS

-----------------------------------------------------------------------------
(* Induction and recursion *)

LessThan == {p \in Nat \X Nat : p[1] < p[2]}

LEMMA LessThanWellFounded == IsWellFoundedOn(LessThan, Nat)
  BY NatLessThanWellFounded DEF OpToRel, LessThan

\* What holds of 0, and of n + 1 if of n, holds up to any bound.
LEMMA UpTo ==
    ASSUME NEW m \in Nat, NEW T, 0 \in T, \A n \in 0 .. m - 1 : n \in T => n + 1 \in T
    PROVE  \A n \in 0 .. m : n \in T
  <1> DEFINE wrong == (0 .. m) \ T
  <1>. SUFFICES ASSUME wrong # {} PROVE FALSE
    OBVIOUS
  <1>1. wrong \subseteq Nat
    OBVIOUS
  <1>2. PICK l \in wrong : \A n \in wrong : <<n, l>> \notin LessThan
    <2>. HIDE DEF wrong
    <2>. QED
      BY <1>1, LessThanWellFounded, WFMin
  <1>3. \A n \in wrong : ~(n < l)
    BY <1>1, <1>2 DEF LessThan
  <1>4. l - 1 \in 0 .. m - 1 /\ l - 1 \notin wrong
    BY <1>3
  <1>. QED
    BY <1>4

\* A sequence of values of S, each got from the one before.
Runs(f, m, S, e, step) ==
    /\ f \in [0 .. m -> S] /\ f[0] = e
    /\ \A n \in 0 .. m - 1 : f[n + 1] = step[n][f[n]]

LEMMA RunsAgree ==
    ASSUME NEW S, NEW e \in S, NEW step \in [Nat -> [S -> S]],
           NEW m \in Nat, NEW k \in Nat, m <= k, NEW f, Runs(f, m, S, e, step),
           NEW g, Runs(g, k, S, e, step)
    PROVE  \A n \in 0 .. m : f[n] = g[n]
  <1> DEFINE T == {n \in 0 .. m : f[n] = g[n]}
  <1>1. 0 \in T
    BY DEF Runs
  <1>2. ASSUME NEW n \in 0 .. m - 1, n \in T PROVE n + 1 \in T
    BY <1>2 DEF Runs
  <1>3. \A n \in 0 .. m : n \in T
    <2>. HIDE DEF T
    <2>. QED
      BY <1>1, <1>2, UpTo
  <1>. QED
    BY <1>3

LEMMA RunExists ==
    ASSUME NEW S, NEW e \in S, NEW step \in [Nat -> [S -> S]], NEW m \in Nat
    PROVE  \E f : Runs(f, m, S, e, step)
  <1> DEFINE T == {n \in 0 .. m : \E f : Runs(f, n, S, e, step)}
  <1>1. 0 \in T
    <2> DEFINE f == [n \in 0 .. 0 |-> e]
    <2>1. Runs(f, 0, S, e, step)
      BY DEF Runs
    <2>. HIDE DEF f
    <2>. QED
      BY <2>1
  <1>2. ASSUME NEW n \in 0 .. m - 1, n \in T PROVE n + 1 \in T
    <2>1. PICK f : Runs(f, n, S, e, step)
      BY <1>2
    <2> DEFINE g == [i \in 0 .. n + 1 |-> IF i = n + 1 THEN step[n][f[n]] ELSE f[i]]
    <2>2. f[n] \in S /\ step[n][f[n]] \in S
      BY <2>1 DEF Runs
    <2>3. g \in [0 .. n + 1 -> S] /\ g[0] = e
      BY <2>1, <2>2 DEF Runs
    <2>4. \A i \in 0 .. n : g[i + 1] = step[i][g[i]]
      <3>1. \A i \in 0 .. n - 1 : g[i + 1] = f[i + 1] /\ g[i] = f[i]
        OBVIOUS
      <3>2. g[n + 1] = step[n][f[n]] /\ g[n] = f[n]
        OBVIOUS
      <3>3. \A i \in 0 .. n : i \in 0 .. n - 1 \/ i = n
        OBVIOUS
      <3>. HIDE DEF g
      <3>. QED
        BY <2>1, <3>1, <3>2, <3>3 DEF Runs
    <2>. HIDE DEF g
    <2>5. Runs(g, n + 1, S, e, step)
      BY <2>3, <2>4 DEF Runs
    <2>. QED
      BY <2>5
  <1>3. \A n \in 0 .. m : n \in T
    <2>. HIDE DEF T
    <2>. QED
      BY <1>1, <1>2, UpTo
  <1>. QED
    BY <1>3

\* Recursion over all numbers.
Recurses(f, S, e, step) ==
    f \in [Nat -> S] /\ f[0] = e /\ \A n \in Nat : f[n + 1] = step[n][f[n]]

LEMMA Recursion ==
    ASSUME NEW S, NEW e \in S, NEW step \in [Nat -> [S -> S]]
    PROVE  \E f : Recurses(f, S, e, step)
  <1> DEFINE run(n) == CHOOSE f : Runs(f, n, S, e, step)
             f == [n \in Nat |-> run(n)[n]]
  <1>1. \A n \in Nat : Runs(run(n), n, S, e, step)
    BY RunExists
  <1>. HIDE DEF run
  <1>2. f \in [Nat -> S] /\ f[0] = e
    BY <1>1 DEF Runs
  <1>3. ASSUME NEW n \in Nat PROVE f[n + 1] = step[n][f[n]]
    <2>1. run(n + 1)[n + 1] = step[n][run(n + 1)[n]]
      BY <1>1 DEF Runs
    <2>2. run(n)[n] = run(n + 1)[n]
      BY <1>1, RunsAgree
    <2>. QED
      BY <2>1, <2>2
  <1>. HIDE DEF f
  <1>4. Recurses(f, S, e, step)
    BY <1>2, <1>3 DEF Recurses
  <1>. QED
    BY <1>4

-----------------------------------------------------------------------------
(* Division *)

LEMMA Division ==
    ASSUME NEW a \in Nat, NEW b \in Nat \ {0}
    PROVE  a \div b \in Nat /\ a % b \in 0 .. b - 1 /\ a = b * (a \div b) + (a % b)
  OBVIOUS

LEMMA Multiples ==
    ASSUME NEW b \in Nat \ {0}, NEW x \in Int, NEW y \in Int, x < y
    PROVE  b * x + b <= b * y
  OBVIOUS

LEMMA Divided ==
    ASSUME NEW a \in Nat, NEW b \in Nat \ {0}, NEW q \in Nat, NEW r \in 0 .. b - 1, a = b * q + r
    PROVE  a \div b = q /\ a % b = r
  <1>1. a \div b \in Nat /\ a % b \in 0 .. b - 1 /\ a = b * (a \div b) + (a % b)
    BY Division
  <1>2. ASSUME a \div b < q PROVE FALSE
    <2>1. b * (a \div b) + b <= b * q
      BY <1>1, <1>2, Multiples
    <2>. QED
      BY <1>1, <2>1
  <1>3. ASSUME q < a \div b PROVE FALSE
    <2>1. b * q + b <= b * (a \div b)
      BY <1>1, <1>3, Multiples
    <2>. QED
      BY <1>1, <2>1
  <1>. QED
    BY <1>1, <1>2, <1>3

-----------------------------------------------------------------------------
(* Powers of two *)

LEMMA TwoProps == Two \in [Nat -> Nat \ {0}] /\ Two[0] = 1 /\ \A n \in Nat : Two[n + 1] = 2 * Two[n]
  <1> DEFINE S == Nat \ {0}
             step == [n \in Nat |-> [x \in S |-> 2 * x]]
             Body(g) == [n \in Nat |-> IF n = 0 THEN 1 ELSE 2 * g[n - 1]]
  <1>1. step \in [Nat -> [S -> S]] /\ \A n \in Nat, x \in S : step[n][x] = 2 * x
    OBVIOUS
  <1>2. PICK f \in [Nat -> S] : f[0] = 1 /\ \A n \in Nat : f[n + 1] = step[n][f[n]]
    <2>1. 1 \in S
      OBVIOUS
    <2>. HIDE DEF S, step
    <2>2. \E f : Recurses(f, S, 1, step)
      BY <1>1, <2>1, Recursion
    <2>. QED
      BY <2>2 DEF Recurses
  <1>3. \A n \in Nat : f[n + 1] = 2 * f[n]
    BY <1>1, <1>2
  <1>4. f = Body(f)
    <2>1. ASSUME NEW n \in Nat PROVE f[n] = Body(f)[n]
      <3>1. CASE n = 0
        BY <1>2, <3>1
      <3>2. CASE n # 0
        <4>1. n - 1 \in Nat /\ (n - 1) + 1 = n
          BY <3>2
        <4>2. f[n] = 2 * f[n - 1]
          BY <1>3, <4>1
        <4>. QED
          BY <3>2, <4>2
      <3>. QED
        BY <3>1, <3>2
    <2>2. f = [n \in Nat |-> f[n]]
      OBVIOUS
    <2>. QED
      BY <2>1, <2>2
  <1>5. Two = Body(Two)
    <2>1. Two = CHOOSE g : g = Body(g)
      BY DEF Two
    <2>. HIDE DEF Body
    <2>. QED
      BY <1>4, <2>1
  <1>6. Two[0] = 1 /\ DOMAIN Two = Nat /\ \A n \in Nat : Two[n + 1] = 2 * Two[n]
    BY <1>5
  <1> DEFINE T == {n \in Nat : Two[n] \in S}
  <1>7. ASSUME NEW m \in Nat PROVE Two[m] \in S
    <2>1. 0 \in T
      BY <1>6
    <2>2. \A n \in 0 .. m - 1 : n \in T => n + 1 \in T
      BY <1>6
    <2>3. m \in 0 .. m
      OBVIOUS
    <2>4. m \in T
      <3>. HIDE DEF T
      <3>. QED
        BY <2>1, <2>2, <2>3, UpTo
    <2>. QED
      BY <2>4
  <1>8. Two = [n \in Nat |-> Two[n]]
    BY <1>5
  <1>. QED
    BY <1>6, <1>7, <1>8

LEMMA TwoPlus ==
    ASSUME NEW m \in Nat, NEW n \in Nat
    PROVE  Two[m + n] = Two[m] * Two[n]
  <1> DEFINE T == {i \in Nat : Two[m + i] = Two[m] * Two[i]}
  <1>1. 0 \in T
    BY TwoProps
  <1>2. ASSUME NEW i \in 0 .. n - 1, i \in T PROVE i + 1 \in T
    <2>1. Two[m + (i + 1)] = 2 * Two[m + i] /\ Two[i + 1] = 2 * Two[i]
      <3>1. m + (i + 1) = (m + i) + 1 /\ m + i \in Nat /\ i \in Nat
        OBVIOUS
      <3>. QED
        BY <3>1, TwoProps
    <2>2. Two[m] \in Nat /\ Two[i] \in Nat
      BY TwoProps
    <2>. QED
      BY <1>2, <2>1, <2>2
  <1>3. n \in 0 .. n
    OBVIOUS
  <1>4. n \in T
    <2>. HIDE DEF T
    <2>. QED
      BY <1>1, <1>2, <1>3, UpTo
  <1>. QED
    BY <1>4

LEMMA SizeProps == Size \in Nat /\ Size > 1 /\ Bits \in Nat /\ Bits > 0
  <1>1. Bits \in Nat /\ Bits > 0 /\ Bits - 1 \in Nat /\ (Bits - 1) + 1 = Bits
    BY BitsAssumption
  <1>2. Two[(Bits - 1) + 1] = 2 * Two[Bits - 1] /\ Two[Bits - 1] \in Nat \ {0}
    BY <1>1, TwoProps
  <1>. QED
    BY <1>1, <1>2 DEF Size

-----------------------------------------------------------------------------
(* The number of an address, by its first bytes *)

Address(length) == [1 .. length -> 0 .. Size - 1]

\* The number the first i bytes of ip spell.
Upper(ip, i) ==
    LET number[n \in 0 .. Len(ip)] == IF n = 0 THEN 0 ELSE Size * number[n - 1] + ip[n]
    IN number[i]

LEMMA AddressProps ==
    ASSUME NEW length \in Nat, NEW ip \in Address(length)
    PROVE  /\ Len(ip) = length /\ DOMAIN ip = 1 .. length
           /\ \A i \in 1 .. length : ip[i] \in 0 .. Size - 1
  <1> DEFINE B == 0 .. Size - 1
  <1>1. ip \in [1 .. length -> B]
    BY DEF Address
  <1>. HIDE DEF B
  <1>2. ip \in Seq(B) /\ Len(ip) = length
    BY <1>1
  <1>3. \A i \in 1 .. length : ip[i] \in B
    BY <1>1
  <1>. QED
    BY <1>1, <1>2, <1>3 DEF B

LEMMA UpperProps ==
    ASSUME NEW length \in Nat, NEW ip \in Address(length)
    PROVE  /\ Number(ip) = Upper(ip, length)
           /\ Upper(ip, 0) = 0
           /\ \A i \in 0 .. length : Upper(ip, i) \in Nat
           /\ \A i \in 1 .. length : Upper(ip, i) = Size * Upper(ip, i - 1) + ip[i]
  <1> DEFINE step == [n \in Nat |-> [x \in Nat |-> IF n + 1 \in 1 .. length THEN Size * x + ip[n + 1] ELSE 0]]
             Body(g) == [n \in 0 .. Len(ip) |-> IF n = 0 THEN 0 ELSE Size * g[n - 1] + ip[n]]
             number == CHOOSE g : g = Body(g)
  <1>1. Len(ip) = length /\ \A i \in 1 .. length : ip[i] \in Nat
    BY AddressProps, SizeProps
  <1>2. step \in [Nat -> [Nat -> Nat]]
    BY <1>1, SizeProps
  <1>3. \A n \in 0 .. length - 1, x \in Nat : step[n][x] = Size * x + ip[n + 1]
    OBVIOUS
  <1>. HIDE DEF step
  <1>4. PICK f \in [Nat -> Nat] : f[0] = 0 /\ \A n \in Nat : f[n + 1] = step[n][f[n]]
    <2>1. \E f : Recurses(f, Nat, 0, step)
      BY <1>2, Recursion
    <2>. QED
      BY <2>1 DEF Recurses
  <1> DEFINE g == [n \in 0 .. length |-> f[n]]
  <1>5. g = Body(g)
    <2>1. ASSUME NEW n \in 0 .. length PROVE g[n] = Body(g)[n]
      <3>1. CASE n = 0
        BY <1>1, <1>4, <3>1
      <3>2. CASE n # 0
        <4>1. n - 1 \in 0 .. length - 1 /\ (n - 1) + 1 = n /\ n - 1 \in Nat
          BY <3>2
        <4>2. f[n] = Size * f[n - 1] + ip[n]
          BY <1>3, <1>4, <4>1
        <4>. QED
          BY <1>1, <3>2, <4>1, <4>2
      <3>. QED
        BY <3>1, <3>2
    <2>. QED
      BY <1>1, <2>1
  <1>6. number = Body(number)
    <2>. HIDE DEF Body, g
    <2>. QED
      BY <1>5
  <1>. HIDE DEF number
  <1>7. /\ number[0] = 0 /\ \A i \in 1 .. length : number[i] = Size * number[i - 1] + ip[i]
    <2>1. Body(number)[0] = 0
      BY <1>1
    <2>2. \A i \in 1 .. length : Body(number)[i] = Size * number[i - 1] + ip[i]
      BY <1>1
    <2>. HIDE DEF Body
    <2>. QED
      BY <1>6, <2>1, <2>2
  <1>8. \A i \in 0 .. length : number[i] \in Nat
    <2> DEFINE T == {i \in Nat : number[i] \in Nat}
    <2>1. 0 \in T
      BY <1>7
    <2>2. ASSUME NEW i \in 0 .. length - 1, i \in T PROVE i + 1 \in T
      <3>1. i + 1 \in 1 .. length /\ (i + 1) - 1 = i
        OBVIOUS
      <3>2. number[i + 1] = Size * number[i] + ip[i + 1]
        BY <1>7, <3>1
      <3>3. \A x, y, z \in Nat : x * y + z \in Nat
        OBVIOUS
      <3>4. number[i] \in Nat /\ Size \in Nat /\ ip[i + 1] \in Nat
        BY <1>1, <2>2, <3>1, SizeProps
      <3>. QED
        BY <3>2, <3>3, <3>4
    <2>3. \A i \in 0 .. length : i \in T
      <3>. HIDE DEF T
      <3>. QED
        BY <2>1, <2>2, UpTo
    <2>. QED
      BY <2>3
  <1>9. \A i : Upper(ip, i) = number[i]
    BY DEF Upper, number
  <1>10. Number(ip) = number[length]
    BY <1>1 DEF Number, number
  <1>. QED
    BY <1>7, <1>8, <1>9, <1>10

LEMMA Powers ==
    ASSUME NEW i \in Nat
    PROVE  /\ Two[Bits * i] \in Nat \ {0} /\ Two[Bits * 0] = 1
           /\ Two[Bits * (i + 1)] = Size * Two[Bits * i]
  <1>1. Bits \in Nat /\ Bits * i \in Nat /\ Bits * (i + 1) = Bits + Bits * i /\ Bits * 0 = 0
    BY SizeProps
  <1>2. Two[Bits + Bits * i] = Two[Bits] * Two[Bits * i]
    BY <1>1, TwoPlus
  <1>. QED
    BY <1>1, <1>2, TwoProps DEF Size

LEMMA UpperBound ==
    ASSUME NEW length \in Nat, NEW ip \in Address(length)
    PROVE  \A i \in 0 .. length : Upper(ip, i) < Two[Bits * i]
  <1> DEFINE T == {i \in Nat : Upper(ip, i) < Two[Bits * i]}
  <1>1. 0 \in T
    BY UpperProps, Powers
  <1>2. ASSUME NEW i \in 0 .. length - 1, i \in T PROVE i + 1 \in T
    <2>1. i + 1 \in 1 .. length /\ (i + 1) - 1 = i /\ i \in 0 .. length
      OBVIOUS
    <2>2. Upper(ip, i + 1) = Size * Upper(ip, i) + ip[i + 1] /\ Upper(ip, i) \in Nat
      BY <2>1, UpperProps
    <2>3. Two[Bits * (i + 1)] = Size * Two[Bits * i] /\ Two[Bits * i] \in Nat \ {0}
      BY Powers
    <2>4. Size * Upper(ip, i) + Size <= Size * Two[Bits * i]
      BY <1>2, <2>2, <2>3, SizeProps, Multiples
    <2>5. ip[i + 1] \in 0 .. Size - 1
      BY <2>1, AddressProps
    <2> DEFINE x == Size * Upper(ip, i)
               y == Size * Two[Bits * i]
    <2>6. x \in Nat /\ y \in Nat
      BY <2>2, <2>3, SizeProps
    <2>7. x + ip[i + 1] < y
      <3>1. x + Size <= y
        BY <2>4
      <3>. HIDE DEF x, y
      <3>. QED
        BY <2>5, <2>6, <3>1, SizeProps
    <2>. QED
      BY <2>2, <2>3, <2>7
  <1>3. \A i \in 0 .. length : i \in T
    <2>. HIDE DEF T
    <2>. QED
      BY <1>1, <1>2, UpTo
  <1>. QED
    BY <1>3

LEMMA NumberBound ==
    ASSUME NEW length \in Nat, NEW ip \in Address(length)
    PROVE  Number(ip) \in 0 .. Two[Bits * length] - 1
  <1>1. length \in 0 .. length
    OBVIOUS
  <1>2. Number(ip) = Upper(ip, length) /\ Upper(ip, length) \in Nat
    BY <1>1, UpperProps
  <1>3. Upper(ip, length) < Two[Bits * length] /\ Two[Bits * length] \in Nat
    BY <1>1, UpperBound, Powers
  <1>. QED
    BY <1>2, <1>3

LEMMA LastByte ==
    ASSUME NEW s \in Nat \ {0}, NEW x \in Nat, NEW y \in Nat, NEW d \in 0 .. s - 1, NEW e \in 0 .. s - 1,
           s * x + d = s * y + e
    PROVE  x = y /\ d = e
  <1> DEFINE a == s * x + d
  <1>1. a \in Nat
    OBVIOUS
  <1>2. a = s * x + d /\ a = s * y + e
    OBVIOUS
  <1>. HIDE DEF a
  <1>3. a \div s = x /\ a % s = d
    BY <1>1, <1>2, Divided
  <1>4. a \div s = y /\ a % s = e
    BY <1>1, <1>2, Divided
  <1>. QED
    BY <1>3, <1>4

\* Different addresses have different numbers.
LEMMA NumberInjective ==
    ASSUME NEW length \in Nat, NEW a \in Address(length), NEW c \in Address(length),
           Number(a) = Number(c)
    PROVE  a = c
  <1> DEFINE T == {i \in Nat : Upper(a, i) = Upper(c, i) => \A j \in 1 .. i : a[j] = c[j]}
  <1>1. 0 \in T
    OBVIOUS
  <1>2. ASSUME NEW i \in 0 .. length - 1, i \in T PROVE i + 1 \in T
    <2>. SUFFICES ASSUME Upper(a, i + 1) = Upper(c, i + 1) PROVE \A j \in 1 .. i + 1 : a[j] = c[j]
      OBVIOUS
    <2>1. i + 1 \in 1 .. length /\ (i + 1) - 1 = i /\ i \in 0 .. length
      OBVIOUS
    <2>2. /\ Upper(a, i + 1) = Size * Upper(a, i) + a[i + 1] /\ Upper(a, i) \in Nat
          /\ Upper(c, i + 1) = Size * Upper(c, i) + c[i + 1] /\ Upper(c, i) \in Nat
      BY <2>1, UpperProps
    <2>3. a[i + 1] \in 0 .. Size - 1 /\ c[i + 1] \in 0 .. Size - 1 /\ Size \in Nat \ {0}
      BY <2>1, AddressProps, SizeProps
    <2>4. Upper(a, i) = Upper(c, i) /\ a[i + 1] = c[i + 1]
      BY <2>2, <2>3, LastByte
    <2>. QED
      BY <1>2, <2>4
  <1>3. \A i \in 0 .. length : i \in T
    <2>. HIDE DEF T
    <2>. QED
      BY <1>1, <1>2, UpTo
  <1>4. Upper(a, length) = Upper(c, length) /\ length \in 0 .. length
    BY UpperProps
  <1>5. \A j \in 1 .. length : a[j] = c[j]
    BY <1>3, <1>4
  <1>. QED
    BY <1>5 DEF Address

-----------------------------------------------------------------------------
(* incrementIP *)

LEMMA IncrementProps ==
    ASSUME NEW length \in Nat, NEW ip \in Address(length)
    PROVE  /\ incrementIP(ip) \in Address(length)
           /\ \A i \in 1 .. length :
                incrementIP(ip)[i] = IF \A j \in i + 1 .. length : ip[j] = Size - 1
                                     THEN IF ip[i] = Size - 1 THEN 0 ELSE ip[i] + 1
                                     ELSE ip[i]
  <1>1. Len(ip) = length /\ DOMAIN ip = 1 .. length /\ \A i \in 1 .. length : ip[i] \in 0 .. Size - 1
    BY AddressProps
  <1>2. \A d \in 0 .. Size - 1 : (d + 1) % Size = IF d = Size - 1 THEN 0 ELSE d + 1
    <2>. SUFFICES ASSUME NEW d \in 0 .. Size - 1
                  PROVE  (d + 1) % Size = IF d = Size - 1 THEN 0 ELSE d + 1
      OBVIOUS
    <2>1. CASE d = Size - 1
      <3>1. d + 1 = Size * 1 + 0 /\ 0 \in 0 .. Size - 1 /\ d + 1 \in Nat /\ Size \in Nat \ {0}
        BY <2>1, SizeProps
      <3>. QED
        BY <2>1, <3>1, Divided
    <2>2. CASE d # Size - 1
      <3>1. d + 1 = Size * 0 + (d + 1) /\ d + 1 \in 0 .. Size - 1 /\ d + 1 \in Nat /\ Size \in Nat \ {0}
        BY <2>2, SizeProps
      <3>. QED
        BY <2>2, <3>1, Divided
    <2>. QED
      BY <2>1, <2>2
  <1>3. ASSUME NEW i \in 1 .. length
        PROVE  incrementIP(ip)[i] = IF \A j \in i + 1 .. length : ip[j] = Size - 1
                                    THEN IF ip[i] = Size - 1 THEN 0 ELSE ip[i] + 1
                                    ELSE ip[i]
    BY <1>1, <1>2 DEF incrementIP
  <1>4. DOMAIN incrementIP(ip) = 1 .. length /\ incrementIP(ip) = [i \in 1 .. length |-> incrementIP(ip)[i]]
    BY <1>1 DEF incrementIP
  <1>5. ASSUME NEW i \in 1 .. length PROVE incrementIP(ip)[i] \in 0 .. Size - 1
    BY <1>1, <1>3, SizeProps
  <1>. QED
    BY <1>3, <1>4, <1>5 DEF Address

\* incrementIP adds 1 to the number, and makes 0 of the last one.
LEMMA IncrementNumber ==
    ASSUME NEW length \in Nat, NEW ip \in Address(length)
    PROVE  Number(incrementIP(ip)) = IF Number(ip) = Two[Bits * length] - 1 THEN 0 ELSE Number(ip) + 1
  <1> DEFINE inc == incrementIP(ip)
             Carry(i) == \A j \in i + 1 .. length : ip[j] = Size - 1
             Next(i) == IF Upper(ip, i) = Two[Bits * i] - 1 THEN 0 ELSE Upper(ip, i) + 1
             T == {i \in Nat : Upper(inc, i) = IF Carry(i) THEN Next(i) ELSE Upper(ip, i)}
  <1>0. inc \in Address(length)
    BY IncrementProps
  <1>9. \A i \in 1 .. length : inc[i] = IF Carry(i) THEN IF ip[i] = Size - 1 THEN 0 ELSE ip[i] + 1
                                        ELSE ip[i]
    BY IncrementProps
  <1>. HIDE DEF inc
  <1>1. 0 \in T
    BY <1>0, UpperProps, Powers
  <1>2. ASSUME NEW i \in 0 .. length - 1, i \in T PROVE i + 1 \in T
    <2>1. i + 1 \in 1 .. length /\ (i + 1) - 1 = i /\ i \in 0 .. length /\ i + 1 \in 0 .. length
      OBVIOUS
    <2>2. /\ Upper(ip, i + 1) = Size * Upper(ip, i) + ip[i + 1] /\ Upper(ip, i) \in Nat
          /\ Upper(inc, i + 1) = Size * Upper(inc, i) + inc[i + 1]
      BY <1>0, <2>1, UpperProps
    <2>3. Two[Bits * (i + 1)] = Size * Two[Bits * i] /\ Two[Bits * i] \in Nat \ {0}
      BY Powers
    <2>4. ip[i + 1] \in 0 .. Size - 1 /\ Size \in Nat /\ Size > 1
      BY <2>1, AddressProps, SizeProps
    <2>5. Upper(ip, i) < Two[Bits * i] /\ Upper(ip, i + 1) < Two[Bits * (i + 1)]
      BY <2>1, UpperBound
    <2>6. Carry(i) <=> Carry(i + 1) /\ ip[i + 1] = Size - 1
      <3>1. \A j : j \in i + 1 .. length <=> j = i + 1 \/ j \in (i + 1) + 1 .. length
        BY <2>1
      <3>. QED
        BY <2>1, <3>1
    <2>7. Upper(inc, i) = IF Carry(i) THEN Next(i) ELSE Upper(ip, i)
      BY <1>2
    <2>8. inc[i + 1] = IF Carry(i + 1) THEN IF ip[i + 1] = Size - 1 THEN 0 ELSE ip[i + 1] + 1
                       ELSE ip[i + 1]
      BY <1>9, <2>1
    <2>. HIDE DEF Carry
    <2>9. Upper(inc, i + 1) = IF Carry(i + 1) THEN Next(i + 1) ELSE Upper(ip, i + 1)
      <3>1. CASE ~Carry(i + 1)
        BY <2>2, <2>6, <2>7, <2>8, <3>1
      <3>2. CASE Carry(i + 1) /\ ip[i + 1] # Size - 1
        <4>1. Upper(inc, i + 1) = Upper(ip, i + 1) + 1
          BY <2>2, <2>4, <2>6, <2>7, <2>8, <3>2
        <4>2. Upper(ip, i + 1) # Two[Bits * (i + 1)] - 1
          <5>1. ASSUME Upper(ip, i + 1) = Two[Bits * (i + 1)] - 1 PROVE FALSE
            <6> DEFINE y == Two[Bits * i]
            <6>1. /\ Size * Upper(ip, i) + ip[i + 1] = Size * (y - 1) + (Size - 1)
                  /\ y - 1 \in Nat /\ Size - 1 \in 0 .. Size - 1
              BY <2>2, <2>3, <2>4, <5>1
            <6>. HIDE DEF y
            <6>. QED
              BY <2>2, <2>4, <3>2, <6>1, LastByte, SMTT(30)
          <5>. QED
            BY <5>1
        <4>. QED
          BY <3>2, <4>1, <4>2
      <3>3. CASE Carry(i + 1) /\ ip[i + 1] = Size - 1
        <4> DEFINE x == Upper(ip, i)
                   y == Two[Bits * i]
        <4>1. Upper(inc, i + 1) = Size * (IF x = y - 1 THEN 0 ELSE x + 1)
          <5>1. inc[i + 1] = 0 /\ Upper(inc, i) = IF x = y - 1 THEN 0 ELSE x + 1
            BY <2>6, <2>7, <2>8, <3>3
          <5>2. Size * (IF x = y - 1 THEN 0 ELSE x + 1) \in Nat
            BY <2>2, <2>4
          <5>. QED
            BY <2>2, <5>1, <5>2
        <4>2. Upper(ip, i + 1) + 1 = Size * (x + 1)
          BY <2>2, <2>4, <3>3
        <4>3. x \in Nat /\ y \in Nat \ {0} /\ x < y /\ Two[Bits * (i + 1)] = Size * y
          BY <2>2, <2>3, <2>5
        <4>. HIDE DEF x, y
        <4>4. CASE x = y - 1
          <5>1. x + 1 = y /\ Size * 0 = 0
            BY <2>4, <4>3, <4>4
          <5>2. Upper(ip, i + 1) + 1 = Two[Bits * (i + 1)]
            BY <4>2, <4>3, <5>1
          <5>3. Upper(ip, i + 1) \in Nat
            BY <2>1, UpperProps
          <5>4. Upper(ip, i + 1) = Two[Bits * (i + 1)] - 1
            BY <5>2, <5>3
          <5>. QED
            BY <3>3, <4>1, <4>4, <5>1, <5>4
        <4>5. CASE x # y - 1
          <5>1. Size * (x + 1) + Size <= Size * y
            BY <2>4, <4>3, <4>5, Multiples
          <5>2. Size * (x + 1) \in Nat /\ Size * y \in Nat
            BY <2>4, <4>3
          <5>3. Upper(ip, i + 1) # Two[Bits * (i + 1)] - 1
            BY <2>4, <4>2, <4>3, <5>1, <5>2
          <5>. QED
            BY <3>3, <4>1, <4>2, <4>5, <5>3
        <4>. QED
          BY <4>4, <4>5
      <3>. QED
        BY <3>1, <3>2, <3>3
    <2>. QED
      BY <2>9
  <1>3. \A i \in 0 .. length : i \in T
    <2>. HIDE DEF T
    <2>. QED
      BY <1>1, <1>2, UpTo
  <1>4. Carry(length) /\ length \in 0 .. length
    OBVIOUS
  <1>5. Upper(inc, length) = Next(length)
    BY <1>3, <1>4
  <1>6. Number(inc) = Upper(inc, length) /\ Number(ip) = Upper(ip, length)
    BY <1>0, UpperProps
  <1>. QED
    BY <1>5, <1>6 DEF inc

-----------------------------------------------------------------------------
(* The loop variable *)

\* net is a network of addresses of length bytes.
IsNetwork(net, length) ==
    /\ net.ip \in Address(length) /\ net.ones \in 1 .. Bits * length
    /\ Number(net.ip) % Two[Bits * length - net.ones] = 0

LEMMA VisitedProps ==
    ASSUME NEW length \in Nat, NEW net, net.ip \in Address(length)
    PROVE  /\ \A n \in 0 .. Two[Bits * length] : Visited(net)[n] \in Address(length)
           /\ Visited(net)[0] = net.ip
           /\ \A n \in 1 .. Two[Bits * length] :
                Visited(net)[n] = incrementIP(Visited(net)[n - 1])
  <1> DEFINE last == Two[Bits * length]
             S == Address(length)
             step == [n \in Nat |-> [a \in S |-> incrementIP(a)]]
             Body(g) == [n \in 0 .. last |-> IF n = 0 THEN net.ip ELSE incrementIP(g[n - 1])]
             visit == CHOOSE g : g = Body(g)
  <1>1. Visited(net) = visit
    <2>1. Len(net.ip) = length
      BY AddressProps
    <2>. QED
      BY <2>1 DEF Visited, Addresses
  <1>2. step \in [Nat -> [S -> S]] /\ \A n \in Nat, a \in S : step[n][a] = incrementIP(a)
    BY IncrementProps
  <1>3. last \in Nat
    BY Powers
  <1>. HIDE DEF S, step, last
  <1>4. PICK f : Recurses(f, S, net.ip, step)
    <2>1. net.ip \in S
      BY DEF S
    <2>. QED
      BY <1>2, <2>1, Recursion
  <1>5. f \in [Nat -> S] /\ f[0] = net.ip /\ \A n \in Nat : f[n + 1] = incrementIP(f[n])
    BY <1>2, <1>4 DEF Recurses
  <1> DEFINE g == [n \in 0 .. last |-> f[n]]
  <1>6. g = Body(g)
    <2>1. ASSUME NEW n \in 0 .. last PROVE g[n] = Body(g)[n]
      <3>1. CASE n = 0
        BY <1>3, <1>5, <3>1
      <3>2. CASE n # 0
        <4>1. n - 1 \in 0 .. last /\ (n - 1) + 1 = n /\ n - 1 \in Nat
          BY <1>3, <3>2
        <4>2. f[n] = incrementIP(f[n - 1])
          BY <1>5, <4>1
        <4>. QED
          BY <3>2, <4>1, <4>2
      <3>. QED
        BY <3>1, <3>2
    <2>. QED
      BY <2>1
  <1>7. visit = Body(visit)
    <2>. HIDE DEF Body, g
    <2>. QED
      BY <1>6
  <1>. HIDE DEF visit
  <1>8. visit[0] = net.ip /\ \A n \in 1 .. last : visit[n] = incrementIP(visit[n - 1])
    <2>1. Body(visit)[0] = net.ip
      BY <1>3
    <2>2. \A n \in 1 .. last : Body(visit)[n] = incrementIP(visit[n - 1])
      BY <1>3
    <2>. HIDE DEF Body
    <2>. QED
      BY <1>7, <2>1, <2>2
  <1>9. \A n \in 0 .. last : visit[n] \in S
    <2> DEFINE T == {n \in Nat : visit[n] \in S}
    <2>1. 0 \in T
      BY <1>8 DEF S
    <2>2. ASSUME NEW n \in 0 .. last - 1, n \in T PROVE n + 1 \in T
      <3>1. n + 1 \in 1 .. last /\ (n + 1) - 1 = n /\ n + 1 \in Nat
        BY <1>3
      <3>2. visit[n + 1] = incrementIP(visit[n])
        BY <1>8, <3>1
      <3>. QED
        BY <2>2, <3>1, <3>2, IncrementProps DEF S
    <2>3. \A n \in 0 .. last : n \in T
      <3>. HIDE DEF T
      <3>. QED
        BY <1>3, <2>1, <2>2, UpTo
    <2>. QED
      BY <2>3
  <1>. QED
    BY <1>1, <1>8, <1>9 DEF S, last

\* The loop counts, while the numbers last.
LEMMA VisitedNumber ==
    ASSUME NEW length \in Nat, NEW net, net.ip \in Address(length)
    PROVE  \A n \in 0 .. Two[Bits * length] :
              Number(net.ip) + n < Two[Bits * length] =>
                Number(Visited(net)[n]) = Number(net.ip) + n
  <1> DEFINE last == Two[Bits * length]
             visit == Visited(net)
             first == Number(net.ip)
             T == {n \in Nat : first + n < last => Number(visit[n]) = first + n}
  <1>1. /\ \A n \in 0 .. last : visit[n] \in Address(length)
        /\ visit[0] = net.ip
        /\ \A n \in 1 .. last : visit[n] = incrementIP(visit[n - 1])
    BY VisitedProps
  <1>2. last \in Nat /\ first \in Nat
    BY Powers, NumberBound
  <1>3. \A ip \in Address(length) :
           Number(incrementIP(ip)) = IF Number(ip) = last - 1 THEN 0 ELSE Number(ip) + 1
    BY IncrementNumber
  <1>. HIDE DEF last, visit
  <1>4. 0 \in T
    BY <1>1, <1>2
  <1>5. ASSUME NEW n \in 0 .. last - 1, n \in T PROVE n + 1 \in T
    <2>1. n + 1 \in 1 .. last /\ (n + 1) - 1 = n /\ n \in 0 .. last /\ n \in Nat
      BY <1>2
    <2>2. visit[n + 1] = incrementIP(visit[n]) /\ visit[n] \in Address(length)
      BY <1>1, <2>1
    <2>. QED
      BY <1>2, <1>3, <1>5, <2>1, <2>2
  <1>6. \A n \in 0 .. last : n \in T
    <2>. HIDE DEF T
    <2>. QED
      BY <1>2, <1>4, <1>5, UpTo
  <1>. QED
    BY <1>6 DEF last, visit

-----------------------------------------------------------------------------
(* IPNet.Contains *)

LEMMA Regrouped ==
    ASSUME NEW a \in Nat, NEW b \in Nat, NEW c \in Nat, NEW k \in Nat, NEW m \in Nat
    PROVE  /\ (a * b) * c + (a * k + m) = a * (b * c + k) + m
           /\ a * (b * c + k) + m = (a * b) * c + (a * k + m)
  OBVIOUS

\* Two numbers of which d and e are the last bytes, compared above the unit u of a byte of
\* s = u * q values ...
SameAboveUnit(s, q, u, x, y, d, e) ==
    (s * x + d) \div u = (s * y + e) \div u <=> x = y /\ d \div u = e \div u

LEMMA CutInByte ==
    ASSUME NEW q \in Nat \ {0}, NEW u \in Nat \ {0}, NEW s \in Nat, s = u * q,
           NEW x \in Nat, NEW y \in Nat, NEW d \in 0 .. s - 1, NEW e \in 0 .. s - 1
    PROVE  SameAboveUnit(s, q, u, x, y, d, e)
  <1>1. ASSUME NEW z \in Nat, NEW c \in 0 .. s - 1
        PROVE  (s * z + c) \div u = q * z + (c \div u) /\ c \div u \in 0 .. q - 1
    <2>1. c \in Nat /\ u * q \in Nat
      OBVIOUS
    <2>2. c \div u \in Nat /\ c % u \in 0 .. u - 1 /\ c = u * (c \div u) + (c % u)
      BY <2>1, Division
    <2>3. c \div u < q
      <3>1. ASSUME ~(c \div u < q) PROVE FALSE
        <4>1. u * (c \div u) >= u * q
          BY <2>2, <3>1
        <4>. QED
          BY <2>1, <2>2, <4>1
      <3>. QED
        BY <3>1
    <2> DEFINE k == c \div u
               m == c % u
    <2>4. k \in Nat /\ k < q /\ m \in 0 .. u - 1 /\ c = u * k + m
      BY <2>2, <2>3
    <2>. HIDE DEF k, m
    <2>5. (u * q) * z + (u * k + m) = u * (q * z + k) + m
      BY <2>4, Regrouped
    <2>6. s * z + c \in Nat /\ q * z + k \in Nat
      BY <2>1, <2>4
    <2>7. s * z + c = u * (q * z + k) + m
      BY <2>4, <2>5
    <2>8. (s * z + c) \div u = q * z + k
      BY <2>4, <2>6, <2>7, Divided
    <2>. QED
      BY <2>4, <2>8 DEF k
  <1> DEFINE dd == d \div u
             ee == e \div u
  <1>2. /\ (s * x + d) \div u = q * x + dd /\ dd \in 0 .. q - 1
        /\ (s * y + e) \div u = q * y + ee /\ ee \in 0 .. q - 1
    BY <1>1
  <1>. HIDE DEF dd, ee
  <1>3. x = y /\ dd = ee <=> q * x + dd = q * y + ee
    BY <1>2, LastByte
  <1>. QED
    BY <1>2, <1>3 DEF dd, ee, SameAboveUnit

\* ... and above the unit w = s * v that begins in the bytes before.
CutAbove(s, v, w, x, d) == (s * x + d) \div w = x \div v /\ d \div s = 0

LEMMA CutBefore ==
    ASSUME NEW s \in Nat \ {0}, NEW v \in Nat \ {0}, NEW w, w = s * v, NEW x \in Nat, NEW d \in 0 .. s - 1
    PROVE  CutAbove(s, v, w, x, d)
  <1>1. x \div v \in Nat /\ x % v \in 0 .. v - 1 /\ x = v * (x \div v) + (x % v)
    BY Division
  <1> DEFINE k == x \div v
             m == x % v
             r == s * m + d
  <1>2. k \in Nat /\ m \in 0 .. v - 1 /\ x = v * k + m
    BY <1>1
  <1>. HIDE DEF k, m
  <1>3. s * (v * k + m) + d = (s * v) * k + r
    BY <1>2, Regrouped
  <1>4. r \in 0 .. w - 1
    <2>1. s * m + s <= s * v
      BY <1>2, Multiples
    <2>2. s * m \in Nat /\ s * v \in Nat
      BY <1>2
    <2>. QED
      BY <2>1, <2>2
  <1>5. s * x + d \in Nat /\ w \in Nat \ {0}
    OBVIOUS
  <1>6. s * x + d = w * k + r
    BY <1>2, <1>3
  <1>. HIDE DEF r
  <1>7. (s * x + d) \div w = k
    BY <1>2, <1>4, <1>5, <1>6, Divided
  <1>8. d = s * 0 + d /\ d \in Nat
    OBVIOUS
  <1>9. d \div s = 0
    BY <1>8, Divided
  <1>. QED
    BY <1>7, <1>9 DEF k, CutAbove

\* The host bits in the first i bytes.
HostBitsUpTo(net, i) == IF Bits * i <= net.ones THEN 0 ELSE Bits * i - net.ones

SameByte(net, ip, i) ==
    ip[i] \div Two[HostBits(net, i)] = net.ip[i] \div Two[HostBits(net, i)]

SameUpper(net, ip, i) ==
    Upper(ip, i) \div Two[HostBitsUpTo(net, i)] = Upper(net.ip, i) \div Two[HostBitsUpTo(net, i)]

\* One more byte: its host bits follow host bits or bits of the mask.
LEMMA OneMoreByte ==
    ASSUME NEW length \in Nat, NEW net, net.ip \in Address(length), net.ones \in Nat,
           NEW ip \in Address(length), NEW i \in 0 .. length - 1
    PROVE  SameUpper(net, ip, i + 1) <=> SameUpper(net, ip, i) /\ SameByte(net, ip, i + 1)
  <1> DEFINE x == Upper(ip, i)
             y == Upper(net.ip, i)
             d == ip[i + 1]
             e == net.ip[i + 1]
             g == HostBits(net, i + 1)
             b == HostBitsUpTo(net, i)
             c == HostBitsUpTo(net, i + 1)
  <1>1. i + 1 \in 1 .. length /\ (i + 1) - 1 = i /\ i \in 0 .. length
    OBVIOUS
  <1>2. /\ Upper(ip, i + 1) = Size * x + d /\ x \in Nat
        /\ Upper(net.ip, i + 1) = Size * y + e /\ y \in Nat
    BY <1>1, UpperProps
  <1>3. d \in 0 .. Size - 1 /\ e \in 0 .. Size - 1 /\ Size \in Nat \ {0}
    BY <1>1, AddressProps, SizeProps
  <1>4. /\ SameUpper(net, ip, i + 1) <=> (Size * x + d) \div Two[c] = (Size * y + e) \div Two[c]
        /\ SameUpper(net, ip, i) <=> x \div Two[b] = y \div Two[b]
        /\ SameByte(net, ip, i + 1) <=> d \div Two[g] = e \div Two[g]
    BY <1>2 DEF SameUpper, SameByte
  <1>5. Bits * i \in Nat /\ Bits * (i + 1) = Bits * i + Bits /\ Bits \in Nat \ {0}
    BY SizeProps
  <1>6. g = LET covered == net.ones - Bits * i
            IN IF covered < 0 THEN Bits ELSE IF covered > Bits THEN 0 ELSE Bits - covered
    BY <1>1 DEF HostBits
  <1>7. /\ b = IF Bits * i <= net.ones THEN 0 ELSE Bits * i - net.ones
        /\ c = IF Bits * i + Bits <= net.ones THEN 0 ELSE Bits * i + Bits - net.ones
    BY <1>5 DEF HostBitsUpTo
  <1>. HIDE DEF x, y, d, e, b, c, g
  <1>8. CASE net.ones <= Bits * i
    <2>1. g = Bits /\ c = Bits + b /\ b \in Nat
      BY <1>5, <1>6, <1>7, <1>8
    <2>2. Two[g] = Size /\ Two[c] = Size * Two[b] /\ Two[b] \in Nat \ {0}
      BY <1>5, <2>1, TwoPlus, TwoProps DEF Size
    <2>3. /\ (Size * x + d) \div Two[c] = x \div Two[b] /\ d \div Size = 0
          /\ (Size * y + e) \div Two[c] = y \div Two[b] /\ e \div Size = 0
      <3> DEFINE v == Two[b]
                 w == Two[c]
      <3>1. v \in Nat \ {0} /\ w = Size * v
        BY <2>2
      <3>. HIDE DEF v, w
      <3>2. /\ (Size * x + d) \div w = x \div v /\ d \div Size = 0
            /\ (Size * y + e) \div w = y \div v /\ e \div Size = 0
        <4>1. CutAbove(Size, v, w, x, d) /\ CutAbove(Size, v, w, y, e)
          BY <1>2, <1>3, <3>1, CutBefore
        <4>. QED
          BY <4>1 DEF CutAbove
      <3>. QED
        BY <3>2 DEF v, w
    <2>. QED
      BY <1>4, <2>2, <2>3
  <1>9. CASE ~(net.ones <= Bits * i)
    <2>1. b = 0 /\ c = g /\ g \in 0 .. Bits
      BY <1>5, <1>6, <1>7, <1>9
    <2>2. Size = Two[g] * Two[Bits - g] /\ Two[g] \in Nat \ {0} /\ Two[Bits - g] \in Nat \ {0}
      <3>1. Bits - g \in Nat /\ g \in Nat /\ g + (Bits - g) = Bits
        BY <1>5, <2>1
      <3>2. Two[g + (Bits - g)] = Two[g] * Two[Bits - g]
        BY <3>1, TwoPlus
      <3>. QED
        BY <3>1, <3>2, TwoProps DEF Size
    <2>3. x \div Two[b] = x /\ y \div Two[b] = y
      <3>1. Two[b] = 1
        BY <2>1, TwoProps
      <3>. QED
        BY <1>2, <3>1
    <2> DEFINE u == Two[g]
               q == Two[Bits - g]
    <2>. HIDE DEF u, q
    <2>4. /\ u \in Nat \ {0} /\ q \in Nat \ {0} /\ Size = u * q
      BY <1>3, <2>2 DEF u, q
    <2>6. (Size * x + d) \div u = (Size * y + e) \div u <=> x = y /\ d \div u = e \div u
      <3>1. SameAboveUnit(Size, q, u, x, y, d, e)
        BY <1>2, <1>3, <2>4, CutInByte
      <3>. QED
        BY <3>1 DEF SameAboveUnit
    <2>7. Two[c] = u /\ Two[g] = u
      BY <2>1 DEF u
    <2>. QED
      BY <1>4, <2>3, <2>6, <2>7
  <1>. QED
    BY <1>8, <1>9

\* IPNet.Contains compares what is above the host bits of the numbers.
LEMMA ContainsUpper ==
    ASSUME NEW length \in Nat, NEW net, IsNetwork(net, length), NEW ip \in Address(length)
    PROVE  InNetwork(net, ip) <=>
             Number(ip) \div Two[Bits * length - net.ones]
               = Number(net.ip) \div Two[Bits * length - net.ones]
  <1> DEFINE T == {i \in Nat : (\A j \in 1 .. i : SameByte(net, ip, j)) <=> SameUpper(net, ip, i)}
  <1>0. net.ip \in Address(length) /\ net.ones \in Nat /\ net.ones <= Bits * length
    BY SizeProps DEF IsNetwork
  <1>1. 0 \in T
    BY <1>0, UpperProps DEF SameUpper
  <1>2. ASSUME NEW i \in 0 .. length - 1, i \in T PROVE i + 1 \in T
    <2>1. SameUpper(net, ip, i + 1) <=> SameUpper(net, ip, i) /\ SameByte(net, ip, i + 1)
      BY <1>0, OneMoreByte
    <2>2. \A j : j \in 1 .. i + 1 <=> j \in 1 .. i \/ j = i + 1
      OBVIOUS
    <2>. QED
      BY <1>2, <2>1, <2>2
  <1>3. \A i \in 0 .. length : i \in T
    <2>. HIDE DEF T
    <2>. QED
      BY <1>1, <1>2, UpTo
  <1>4. (\A j \in 1 .. length : SameByte(net, ip, j)) <=> SameUpper(net, ip, length)
    BY <1>3
  <1>5. InNetwork(net, ip) <=> \A j \in 1 .. length : SameByte(net, ip, j)
    BY AddressProps DEF InNetwork, SameByte
  <1>6. HostBitsUpTo(net, length) = Bits * length - net.ones
    BY <1>0, SizeProps DEF HostBitsUpTo
  <1>7. Number(ip) = Upper(ip, length) /\ Number(net.ip) = Upper(net.ip, length)
    BY <1>0, UpperProps
  <1>. QED
    BY <1>4, <1>5, <1>6, <1>7 DEF SameUpper

\* A network is a row of numbers that ends where the numbers do or before.
LEMMA NetworkProps ==
    ASSUME NEW length \in Nat, NEW net, IsNetwork(net, length)
    PROVE  LET first == Number(net.ip)
               count == Two[Bits * length - net.ones]
           IN /\ first \in Nat /\ count \in Nat \ {0}
              /\ first + count <= Two[Bits * length] /\ 2 * count <= Two[Bits * length]
              /\ \A ip \in Address(length) :
                   InNetwork(net, ip) <=> Number(ip) \in first .. first + count - 1
  <1> DEFINE first == Number(net.ip)
             host == Bits * length - net.ones
             count == Two[host]
             last == Two[Bits * length]
             k == first \div count
  <1>1. /\ net.ip \in Address(length) /\ net.ones \in Nat \ {0} /\ host \in Nat
        /\ net.ones + host = Bits * length /\ first % count = 0
    BY SizeProps DEF IsNetwork
  <1>2. first \in 0 .. last - 1 /\ last \in Nat
    BY <1>1, NumberBound, Powers
  <1>3. count \in Nat \ {0} /\ last = Two[net.ones] * count /\ Two[net.ones] \in Nat /\ Two[net.ones] >= 2
    <2>1. last = Two[net.ones + host] /\ Two[net.ones + host] = Two[net.ones] * Two[host]
      BY <1>1, TwoPlus
    <2>2. Two[net.ones] \in Nat /\ Two[net.ones] >= 2
      <3>1. net.ones - 1 \in Nat /\ (net.ones - 1) + 1 = net.ones
        BY <1>1
      <3>2. Two[(net.ones - 1) + 1] = 2 * Two[net.ones - 1] /\ Two[net.ones - 1] \in Nat \ {0}
        BY <3>1, TwoProps
      <3>. QED
        BY <3>1, <3>2
    <2>. QED
      BY <1>1, <2>1, <2>2, TwoProps
  <1>4. first = count * k /\ k \in Nat
    <2> DEFINE n == first
               c == count
    <2>1. n \in Nat /\ c \in Nat \ {0} /\ n % c = 0
      BY <1>1, <1>2, <1>3
    <2>. HIDE DEF n, c
    <2>2. n = c * (n \div c) + (n % c) /\ n \div c \in Nat
      BY <2>1
    <2> DEFINE m == n \div c
    <2>3. m \in Nat /\ n = c * m + 0
      BY <2>1, <2>2
    <2>. HIDE DEF m
    <2>4. n = c * m
      BY <2>1, <2>3
    <2>. QED
      BY <2>3, <2>4 DEF n, c, m
  <1>5. \A ip \in Address(length) : /\ InNetwork(net, ip) <=> Number(ip) \div count = k
                                    /\ Number(ip) \in Nat
    BY ContainsUpper, NumberBound
  <1> DEFINE ones == Two[net.ones]
  <1>. HIDE DEF first, host, count, last, k, ones
  <1>6. last = ones * count /\ ones \in Nat /\ ones >= 2
    BY <1>3 DEF ones
  <1>7. first + count <= last
    <2>1. k < ones
      <3>1. ASSUME ones <= k PROVE FALSE
        <4>1. ones * count <= count * k
          BY <1>3, <1>4, <1>6, <3>1
        <4>. QED
          BY <1>2, <1>4, <1>6, <4>1
      <3>. QED
        BY <1>4, <1>6, <3>1
    <2>2. count * k + count <= count * ones
      BY <1>3, <1>4, <1>6, <2>1, Multiples
    <2>3. count * ones = ones * count
      BY <1>3, <1>6
    <2>. QED
      BY <1>4, <1>6, <2>2, <2>3
  <1>8. 2 * count <= last
    BY <1>3, <1>6
  <1>9. ASSUME NEW n \in Nat PROVE n \div count = k <=> n \in first .. first + count - 1
    <2>1. n \div count \in Nat /\ n % count \in 0 .. count - 1 /\ n = count * (n \div count) + (n % count)
      BY <1>3, Division
    <2>2. ASSUME n \div count = k PROVE n \in first .. first + count - 1
      <3>1. n = first + (n % count)
        BY <1>4, <2>1, <2>2
      <3>. QED
        BY <1>2, <1>3, <2>1, <3>1
    <2>3. ASSUME n \in first .. first + count - 1 PROVE n \div count = k
      <3>1. n - first \in 0 .. count - 1 /\ n = count * k + (n - first)
        BY <1>2, <1>3, <1>4, <2>3
      <3>. QED
        BY <1>3, <1>4, <3>1, Divided, ZenonT(40)
    <2>. QED
      BY <2>2, <2>3
  <1>10. /\ first \in Nat /\ count \in Nat \ {0} /\ first + count <= last /\ 2 * count <= last
         /\ \A ip \in Address(length) : InNetwork(net, ip) <=> Number(ip) \in first .. first + count - 1
    BY <1>2, <1>3, <1>5, <1>7, <1>8, <1>9
  <1>. QED
    BY <1>10 DEF first, count, last, host

-----------------------------------------------------------------------------
(* AllocateIP *)

\* The numbers of the used addresses that are addresses of length bytes.
UsedNumbers(used, length) == {Number(u) : u \in used \cap Address(length)}

\* The n-th address the loop visits, up to the first one past the network: whether it is
\* contained, skipped, or used.
LEMMA VisitedAddress ==
    ASSUME NEW length \in Nat, NEW net, IsNetwork(net, length), NEW used
    PROVE  LET first == Number(net.ip)
               count == Two[Bits * length - net.ones]
               visit == Visited(net)
           IN /\ count \in 1 .. Two[Bits * length] /\ first \in Nat
              /\ ~InNetwork(net, visit[count])
              /\ \A n \in 0 .. count - 1 :
                   /\ visit[n] \in Address(length) /\ Number(visit[n]) = first + n
                   /\ InNetwork(net, visit[n])
                   /\ n >= 1 => (Skipped(net, visit[n]) <=> n = count - 1)
                   /\ visit[n] \in used <=> first + n \in UsedNumbers(used, length)
  <1> DEFINE first == Number(net.ip)
             count == Two[Bits * length - net.ones]
             last == Two[Bits * length]
             visit == Visited(net)
  <1>1. /\ first \in Nat /\ count \in Nat \ {0} /\ first + count <= last /\ 2 * count <= last
        /\ \A ip \in Address(length) : InNetwork(net, ip) <=> Number(ip) \in first .. first + count - 1
    BY NetworkProps
  <1>2. last \in Nat /\ net.ip \in Address(length)
    BY Powers DEF IsNetwork
  <1>3. /\ \A n \in 0 .. last : visit[n] \in Address(length)
        /\ visit[0] = net.ip
        /\ \A n \in 1 .. last : visit[n] = incrementIP(visit[n - 1])
    BY <1>2, VisitedProps
  <1>4. \A n \in 0 .. last : first + n < last => Number(visit[n]) = first + n
    BY <1>2, VisitedNumber
  <1>5. Number(net.ip) = first
    OBVIOUS
  <1>6. \A ip \in Address(length) :
           Number(incrementIP(ip)) = IF Number(ip) = last - 1 THEN 0 ELSE Number(ip) + 1
    BY IncrementNumber
  <1>. HIDE DEF first, count, last, visit
  <1>7. ASSUME NEW n \in 0 .. count - 1
        PROVE  visit[n] \in Address(length) /\ Number(visit[n]) = first + n /\ InNetwork(net, visit[n])
    <2>1. n \in 0 .. last /\ first + n < last /\ first + n \in first .. first + count - 1
      BY <1>1, <1>2
    <2>. QED
      BY <1>1, <1>3, <1>4, <2>1
  <1>8. ~InNetwork(net, visit[count])
    <2>1. /\ count \in 1 .. last /\ count \in 0 .. last /\ count - 1 \in 0 .. count - 1
          /\ first + (count - 1) = first + count - 1
      BY <1>1, <1>2
    <2>2. visit[count - 1] \in Address(length) /\ Number(visit[count - 1]) = first + count - 1
      BY <1>7, <2>1
    <2>3. Number(visit[count]) = IF first + count - 1 = last - 1 THEN 0 ELSE first + count - 1 + 1
      BY <1>3, <1>6, <2>1, <2>2
    <2>4. Number(visit[count]) \notin first .. first + count - 1
      BY <1>1, <1>2, <2>3
    <2>. QED
      BY <1>1, <1>3, <2>1, <2>4
  <1>9. ASSUME NEW n \in 1 .. count - 1 PROVE Skipped(net, visit[n]) <=> n = count - 1
    <2>1. n \in 0 .. count - 1 /\ n + 1 \in 1 .. last /\ (n + 1) - 1 = n
      BY <1>1, <1>2
    <2>2. visit[n] # net.ip
      BY <1>1, <1>5, <1>7, <2>1
    <2>3. visit[n + 1] = incrementIP(visit[n])
      BY <1>3, <2>1
    <2>4. CASE n = count - 1
      <3>1. n + 1 = count
        BY <1>1, <2>4
      <3>. QED
        BY <1>8, <2>3, <2>4, <3>1 DEF Skipped
    <2>5. CASE n # count - 1
      <3>1. n + 1 \in 0 .. count - 1
        BY <1>1, <2>5
      <3>. QED
        BY <1>7, <2>2, <2>3, <2>5, <3>1 DEF Skipped
    <2>. QED
      BY <2>4, <2>5
  <1>10. ASSUME NEW n \in 0 .. count - 1
         PROVE  visit[n] \in used <=> first + n \in UsedNumbers(used, length)
    <2>1. visit[n] \in Address(length) /\ Number(visit[n]) = first + n
      BY <1>7
    <2>2. ASSUME first + n \in UsedNumbers(used, length) PROVE visit[n] \in used
      <3>1. PICK u \in used \cap Address(length) : Number(u) = first + n
        BY <2>2 DEF UsedNumbers
      <3>2. u = visit[n]
        BY <2>1, <3>1, NumberInjective
      <3>. QED
        BY <3>1, <3>2
    <2>3. ASSUME visit[n] \in used PROVE first + n \in UsedNumbers(used, length)
      BY <2>1, <2>3 DEF UsedNumbers
    <2>. QED
      BY <2>2, <2>3
  <1>11. count \in 1 .. last
    BY <1>1, <1>2
  <1>12. /\ count \in 1 .. last /\ first \in Nat /\ ~InNetwork(net, visit[count])
         /\ \A n \in 0 .. count - 1 :
              /\ visit[n] \in Address(length) /\ Number(visit[n]) = first + n
              /\ InNetwork(net, visit[n])
              /\ n >= 1 => (Skipped(net, visit[n]) <=> n = count - 1)
              /\ visit[n] \in used <=> first + n \in UsedNumbers(used, length)
    <2>1. \A n \in 0 .. count - 1 : n >= 1 => n \in 1 .. count - 1
      BY <1>1
    <2>. QED
      BY <1>1, <1>7, <1>8, <1>9, <1>10, <1>11, <2>1
  <1>. QED
    BY <1>12 DEF first, count, last, visit

\* AllocateIP returns the lowest host address of the network that is not in use, and none
\* if there is none: of any network with a mask, of addresses of any length, and whatever
\* is in use.
THEOREM AllocatesLowest ==
    ASSUME NEW length \in Nat, NEW net, IsNetwork(net, length), NEW used, NEW ip \in Address(length)
    PROVE  Allocated(net, used, ip) <=> Lowest(net, used, ip)
  <1> DEFINE first == Number(net.ip)
             count == Two[Bits * length - net.ones]
             last == Two[Bits * length]
             visit == Visited(net)
             taken == UsedNumbers(used, length)
  <1>1. /\ count \in 1 .. last /\ first \in Nat /\ ~InNetwork(net, visit[count])
        /\ \A n \in 0 .. count - 1 :
             /\ visit[n] \in Address(length) /\ Number(visit[n]) = first + n
             /\ InNetwork(net, visit[n])
             /\ n >= 1 => (Skipped(net, visit[n]) <=> n = count - 1)
             /\ visit[n] \in used <=> first + n \in taken
    BY VisitedAddress
  <1>2. Allocated(net, used, ip) <=>
          \E n \in 1 .. last :
             /\ ip = visit[n]
             /\ \A m \in 1 .. n : InNetwork(net, visit[m])
             /\ ~Skipped(net, ip) /\ ip \notin used
             /\ \A m \in 1 .. n - 1 : Skipped(net, visit[m]) \/ visit[m] \in used
    <2>1. Len(net.ip) = length
      BY AddressProps DEF IsNetwork
    <2>. QED
      BY <2>1 DEF Allocated, Addresses
  <1>3. Lowest(net, used, ip) <=>
          /\ Number(ip) \in (first + 1 .. first + count - 2) \ taken
          /\ \A n \in (first + 1 .. first + count - 2) \ taken : Number(ip) <= n
    <2>1. Len(net.ip) = length
      BY AddressProps DEF IsNetwork
    <2>2. [DOMAIN ip -> 0 .. Size - 1] = Address(length)
      BY AddressProps DEF Address
    <2>3. Hosts(net) = first + 1 .. first + count - 2
      BY <2>1 DEF Hosts
    <2>. QED
      BY <2>2, <2>3 DEF Lowest, UsedNumbers
  <1>4. last \in Nat
    BY Powers
  <1>. HIDE DEF first, count, last, visit, taken
  <1>5. ASSUME Allocated(net, used, ip) PROVE Lowest(net, used, ip)
    <2>1. PICK n \in 1 .. last :
             /\ ip = visit[n]
             /\ \A m \in 1 .. n : InNetwork(net, visit[m])
             /\ ~Skipped(net, ip) /\ ip \notin used
             /\ \A m \in 1 .. n - 1 : Skipped(net, visit[m]) \/ visit[m] \in used
      BY <1>2, <1>5
    <2>2. n < count
      <3>1. ~(count \in 1 .. n)
        BY <1>1, <2>1
      <3>. QED
        BY <1>1, <1>4, <3>1
    <2>3. n \in 0 .. count - 1 /\ n \in 1 .. count - 2
      <3>1. n \in 0 .. count - 1 /\ n >= 1
        BY <1>1, <1>4, <2>2
      <3>2. n # count - 1
        BY <1>1, <2>1, <3>1
      <3>. QED
        BY <1>1, <1>4, <3>1, <3>2
    <2>4. Number(ip) = first + n /\ first + n \notin taken
      BY <1>1, <2>1, <2>3
    <2>5. Number(ip) \in (first + 1 .. first + count - 2) \ taken
      BY <1>1, <1>4, <2>3, <2>4
    <2>6. ASSUME NEW k \in (first + 1 .. first + count - 2) \ taken PROVE Number(ip) <= k
      <3>. SUFFICES ASSUME k < first + n PROVE FALSE
        BY <1>1, <1>4, <2>3, <2>4
      <3> DEFINE m == k - first
      <3>1. m \in 1 .. n - 1 /\ m \in 0 .. count - 1 /\ m >= 1 /\ m # count - 1 /\ first + m = k
        BY <1>1, <1>4, <2>3
      <3>. HIDE DEF m
      <3>2. ~Skipped(net, visit[m]) /\ visit[m] \notin used
        BY <1>1, <3>1
      <3>. QED
        BY <2>1, <3>1, <3>2
    <2>. QED
      BY <1>3, <2>5, <2>6
  <1>6. ASSUME Lowest(net, used, ip) PROVE Allocated(net, used, ip)
    <2>1. /\ Number(ip) \in (first + 1 .. first + count - 2) \ taken
          /\ \A n \in (first + 1 .. first + count - 2) \ taken : Number(ip) <= n
      BY <1>3, <1>6
    <2> DEFINE n == Number(ip) - first
    <2>2. n \in 1 .. count - 2 /\ n \in 0 .. count - 1 /\ n \in 1 .. last /\ n # count - 1
          /\ first + n = Number(ip)
      BY <1>1, <1>4, <2>1
    <2>. HIDE DEF n
    <2>3. ip = visit[n]
      BY <1>1, <2>2, NumberInjective
    <2>4. ~Skipped(net, ip) /\ ip \notin used
      <3>1. n >= 1
        BY <2>2
      <3>. QED
        BY <1>1, <2>1, <2>2, <2>3, <3>1
    <2>5. \A m \in 1 .. n : InNetwork(net, visit[m])
      <3>1. \A m \in 1 .. n : m \in 0 .. count - 1
        BY <1>1, <1>4, <2>2
      <3>. QED
        BY <1>1, <3>1
    <2>6. ASSUME NEW m \in 1 .. n - 1 PROVE Skipped(net, visit[m]) \/ visit[m] \in used
      <3>1. m \in 0 .. count - 1 /\ first + m \in first + 1 .. first + count - 2 /\ first + m < Number(ip)
        BY <1>1, <1>4, <2>2
      <3>2. first + m \in taken
        BY <1>1, <2>1, <2>2, <3>1
      <3>. QED
        BY <1>1, <3>1, <3>2
    <2>. QED
      BY <1>2, <2>2, <2>3, <2>4, <2>5, <2>6
  <1>. QED
    BY <1>5, <1>6
=============================================================================
