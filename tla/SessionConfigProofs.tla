-------------------------- MODULE SessionConfigProofs --------------------------
(***************************************************************************)
(* What the recursive functions of SessionConfig compute, for every input: *)
(* the routes a document gives, the merged resolvers and the subnets that  *)
(* cover a range of addresses.  Induction is over sets of naturals: a set  *)
(* that holds 0 and, with n, n + 1 holds every natural, because a least    *)
(* counterexample would exist (WFMin of module WellFoundedInduction).      *)
(* A recursive function is a CHOOSE of a function that satisfies its       *)
(* equation; that there is one is proved in the same way, by extending it  *)
(* from 0 .. n to 0 .. n + 1.                                              *)
(***************************************************************************)
EXTENDS SessionConfig, FiniteSetTheorems, SequenceTheorems, WellFoundedInduction, TLAPS

(* A set of naturals that is not empty has a least element. *)
LEMMA Least ==
    ASSUME NEW T, T \subseteq Nat, T # {}
    PROVE  \E x \in T : \A y \in T : x <= y
<1> DEFINE R == OpToRel(<, Nat)
<1>1. IsWellFoundedOn(R, Nat)
  BY NatLessThanWellFounded
<1>2. \A x, y \in Nat : x < y => <<x, y>> \in R
  BY DEF OpToRel
<1> HIDE DEF R
<1>3. PICK x \in T : \A y \in T : ~(<<y, x>> \in R)
  BY <1>1, WFMin
<1>4. \A y \in T : ~(y < x)
  BY <1>2, <1>3
<1>5. \A y \in T : x <= y
  BY <1>4
<1> QED
  BY <1>5

(* Induction. *)
LEMMA Ind ==
    ASSUME NEW S, 0 \in S, \A n \in Nat : n \in S => n + 1 \in S
    PROVE  \A n \in Nat : n \in S
<1> DEFINE T == Nat \ S
<1>1. ASSUME T # {} PROVE FALSE
  <2>1. PICK x \in T : \A y \in T : x <= y
    BY <1>1, Least
  <2>2. x # 0 /\ x - 1 \in Nat
    BY <2>1
  <2>3. x - 1 \in S
    BY <2>1, <2>2
  <2> QED
    BY <2>2, <2>3
<1> QED
  BY <1>1

----------------------------------------------------------------------------
(* Powers of two *)

LEMMA Pow2Def ==
    Pow2 = [n \in 0 .. Bits + 1 |-> IF n = 0 THEN 1 ELSE 2 * Pow2[n - 1]]
<1> DEFINE Good(g, m) == g = [n \in 0 .. m |-> IF n = 0 THEN 1 ELSE 2 * g[n - 1]]
           S == {m \in Nat : \E g : Good(g, m)}
<1>1. 0 \in S
  <2> DEFINE g == [n \in 0 .. 0 |-> 1]
  <2>1. Good(g, 0)
    OBVIOUS
  <2> QED
    BY <2>1
<1>2. ASSUME NEW m \in Nat, m \in S PROVE m + 1 \in S
  <2>1. PICK g : Good(g, m)
    BY <1>2
  <2> DEFINE h == [n \in 0 .. m + 1 |-> IF n = 0 THEN 1 ELSE 2 * g[n - 1]]
  <2>2. \A n \in 0 .. m : h[n] = g[n]
    BY <2>1
  <2>3. Good(h, m + 1)
    <3>1. \A n \in 0 .. m + 1 : n # 0 => h[n - 1] = g[n - 1]
      <4>1. \A n \in 0 .. m + 1 : n # 0 => n - 1 \in 0 .. m
        OBVIOUS
      <4> HIDE DEF h
      <4> QED
        BY <2>2, <4>1
    <3> QED
      BY <3>1
  <2>4. m + 1 \in Nat /\ \E f : Good(f, m + 1)
    <3> HIDE DEF h, Good
    <3> QED
      BY <2>3
  <2> QED
    BY <2>4
<1>3. \A m \in Nat : m \in S
  <2> HIDE DEF S
  <2> QED
    BY <1>1, <1>2, Ind
<1>4. Bits + 1 \in Nat
  BY BitsAssumption
<1>5. \E g : Good(g, Bits + 1)
  BY <1>3, <1>4
<1> QED
  BY <1>5 DEF Pow2

LEMMA Pow2Step ==
    /\ Pow2[0] = 1
    /\ \A n \in 0 .. Bits : Pow2[n + 1] = 2 * Pow2[n]
BY Pow2Def, BitsAssumption

LEMMA Pow2Nat == \A n \in 0 .. Bits + 1 : Pow2[n] \in Nat \ {0}
<1> DEFINE S == {n \in Nat : n <= Bits + 1 => Pow2[n] \in Nat \ {0}}
<1>1. 0 \in S
  BY Pow2Step
<1>2. ASSUME NEW n \in Nat, n \in S PROVE n + 1 \in S
  <2>1. CASE n + 1 <= Bits + 1
    <3>1. n \in 0 .. Bits /\ Pow2[n] \in Nat \ {0}
      BY <1>2, <2>1, BitsAssumption
    <3>2. Pow2[n + 1] \in Nat \ {0}
      BY <3>1, Pow2Step
    <3> QED
      BY <3>2
  <2>2. CASE ~(n + 1 <= Bits + 1)
    BY <2>2
  <2> QED
    BY <2>1, <2>2
<1>3. \A n \in Nat : n \in S
  <2> HIDE DEF S
  <2> QED
    BY <1>1, <1>2, Ind
<1> QED
  BY <1>3, BitsAssumption

(* A larger power is a multiple of a smaller one, and not below it. *)
LEMMA HalfDivides ==
    ASSUME NEW n \in Nat, NEW P \in Nat \ {0}, n % (2 * P) = 0
    PROVE  n % P = 0
<1>1. n = (2 * P) * (n \div (2 * P))
  <2> DEFINE Q == 2 * P
  <2>1. Q \in Nat \ {0} /\ n % Q = 0
    OBVIOUS
  <2> HIDE DEF Q
  <2>2. n = Q * (n \div Q) + (n % Q)
    BY <2>1
  <2>3. n = Q * (n \div Q)
    BY <2>1, <2>2
  <2> QED
    BY <2>3 DEF Q
<1> DEFINE q == n \div (2 * P)
<1>2. q \in Nat
  OBVIOUS
<1> HIDE DEF q
<1>3. n = P * (2 * q)
  BY <1>1, <1>2 DEF q
<1> DEFINE d == 2 * q
<1>4. d \in Nat
  BY <1>2
<1> HIDE DEF d
<1>5. (P * d) % P = 0
  BY <1>4
<1> QED
  BY <1>3, <1>5 DEF d

LEMMA Pow2Divides ==
    ASSUME NEW n \in Nat, NEW k \in 0 .. Bits, n % Pow2[k] = 0
    PROVE  \A b \in 0 .. k : n % Pow2[b] = 0 /\ Pow2[b] <= Pow2[k]
<1> DEFINE S == {d \in Nat : d <= k => n % Pow2[k - d] = 0 /\ Pow2[k - d] <= Pow2[k]}
<1>1. 0 \in S
  BY Pow2Nat, BitsAssumption
<1>2. ASSUME NEW d \in Nat, d \in S PROVE d + 1 \in S
  <2>1. CASE d + 1 <= k
    <3> DEFINE b == k - (d + 1)
    <3>1. b \in 0 .. Bits /\ b + 1 = k - d /\ b + 1 \in 0 .. Bits + 1 /\ k \in 0 .. Bits + 1
      BY <2>1, BitsAssumption
    <3>2. n % Pow2[b + 1] = 0 /\ Pow2[b + 1] <= Pow2[k]
      BY <1>2, <2>1, <3>1
    <3>3. Pow2[b + 1] = 2 * Pow2[b] /\ Pow2[b] \in Nat \ {0} /\ Pow2[k] \in Nat
      BY <3>1, Pow2Step, Pow2Nat, BitsAssumption
    <3>4. n % Pow2[b] = 0
      BY <3>2, <3>3, HalfDivides
    <3>5. Pow2[b] <= Pow2[k]
      BY <3>2, <3>3
    <3> QED
      BY <3>4, <3>5
  <2>2. CASE ~(d + 1 <= k)
    BY <2>2
  <2> QED
    BY <2>1, <2>2
<1>3. \A d \in Nat : d \in S
  <2> HIDE DEF S
  <2> QED
    BY <1>1, <1>2, Ind
<1>4. ASSUME NEW b \in 0 .. k PROVE n % Pow2[b] = 0 /\ Pow2[b] <= Pow2[k]
  <2>1. k - b \in Nat /\ k - b <= k /\ k - (k - b) = b
    OBVIOUS
  <2> QED
    BY <1>3, <2>1
<1> QED
  BY <1>4

----------------------------------------------------------------------------
(* Aligned blocks *)

LEMMA SizeBitsFits ==
    ASSUME NEW m \in 1 .. Pow2[Bits]
    PROVE  SizeBits(m) \in 0 .. Bits /\ Pow2[SizeBits(m)] <= m /\ m < Pow2[SizeBits(m) + 1]
<1>1. Pow2[0] = 1 /\ Pow2[Bits] \in Nat \ {0} /\ Pow2[Bits + 1] = 2 * Pow2[Bits] /\ Bits \in Nat
  BY Pow2Step, Pow2Nat, BitsAssumption
<1>2. m \in Nat \ {0} /\ m < Pow2[Bits + 1]
  BY <1>1
<1> DEFINE T == {k \in 0 .. Bits : m < Pow2[k + 1]}
<1>3. Bits \in T /\ T \subseteq Nat
  BY <1>1, <1>2
<1>4. PICK k \in T : \A j \in T : k <= j
  <2> HIDE DEF T
  <2> QED
    BY <1>3, Least
<1>5. Pow2[k] <= m
  <2>1. CASE k = 0
    BY <1>1, <1>2, <2>1
  <2>2. CASE k # 0
    <3>1. k - 1 \in 0 .. Bits /\ ~(k <= k - 1)
      BY <1>1, <2>2
    <3>2. k - 1 \notin T
      BY <1>4, <3>1
    <3>3. ~(m < Pow2[k])
      BY <3>1, <3>2
    <3>4. Pow2[k] \in Nat
      BY Pow2Nat, <1>1
    <3> QED
      BY <3>3, <3>4, <1>2
  <2> QED
    BY <2>1, <2>2
<1>6. k \in 0 .. Bits /\ Pow2[k] <= m /\ m < Pow2[k + 1]
  BY <1>4, <1>5
<1> QED
  BY <1>6 DEF SizeBits

LEMMA TrailingZerosDivide ==
    ASSUME NEW n \in 1 .. Pow2[Bits] - 1
    PROVE  TrailingZeros(n) \in 0 .. Bits /\ n % Pow2[TrailingZeros(n)] = 0
<1>1. Pow2[0] = 1 /\ Pow2[Bits] \in Nat \ {0} /\ Pow2[Bits + 1] = 2 * Pow2[Bits] /\ Bits \in Nat
  BY Pow2Step, Pow2Nat, BitsAssumption
<1>2. n \in Nat \ {0} /\ n < Pow2[Bits + 1]
  BY <1>1
<1> DEFINE T == {k \in 0 .. Bits : n % Pow2[k + 1] # 0}
<1>3. Bits \in T /\ T \subseteq Nat
  <2>1. n % Pow2[Bits + 1] = n
    BY <1>1, <1>2
  <2> QED
    BY <1>1, <1>2, <2>1
<1>4. PICK k \in T : \A j \in T : k <= j
  <2> HIDE DEF T
  <2> QED
    BY <1>3, Least
<1>5. n % Pow2[k] = 0
  <2>1. CASE k = 0
    BY <1>1, <1>2, <2>1
  <2>2. CASE k # 0
    <3>1. k - 1 \in 0 .. Bits /\ ~(k <= k - 1)
      BY <1>1, <2>2
    <3>2. k - 1 \notin T
      BY <1>4, <3>1
    <3> QED
      BY <3>1, <3>2
  <2> QED
    BY <2>1, <2>2
<1>6. k \in 0 .. Bits /\ n % Pow2[k] = 0 /\ n % Pow2[k + 1] # 0
  BY <1>4, <1>5
<1> QED
  BY <1>6 DEF TrailingZeros

(* The block that range_to_subnets takes next is aligned and does not pass the
   end of the range. *)
LEMMA HostBitsFit ==
    ASSUME NEW end \in Addresses, NEW start \in 0 .. end
    PROVE  LET b == HostBits(start, end)
           IN  /\ b \in 0 .. Bits
               /\ start % Pow2[b] = 0
               /\ Pow2[b] \in Nat \ {0}
               /\ start + Pow2[b] <= end + 1
<1>1. Pow2[Bits] \in Nat \ {0} /\ Bits \in Nat /\ Bits \in 0 .. Bits
  BY Pow2Nat, BitsAssumption
<1>2. start \in Nat /\ end \in Nat /\ end < Pow2[Bits] /\ end - start + 1 \in 1 .. Pow2[Bits]
  BY <1>1 DEF Addresses
<1> DEFINE s == SizeBits(end - start + 1)
           a == AlignBits(start)
           b == HostBits(start, end)
<1>3. s \in 0 .. Bits /\ Pow2[s] <= end - start + 1
  BY <1>2, SizeBitsFits
<1>4. a \in 0 .. Bits /\ start % Pow2[a] = 0
  <2>1. CASE start = 0
    BY <1>1, <2>1 DEF AlignBits
  <2>2. CASE start # 0
    <3>1. start \in 1 .. Pow2[Bits] - 1
      BY <1>1, <1>2, <2>2
    <3> QED
      BY <3>1, <2>2, TrailingZerosDivide DEF AlignBits
  <2> QED
    BY <2>1, <2>2
<1>5. b = IF a < s THEN a ELSE s
  BY DEF HostBits
<1> HIDE DEF a, s, b
<1>6. b \in 0 .. a /\ b \in 0 .. s /\ b \in 0 .. Bits
  BY <1>3, <1>4, <1>5
<1>7. start % Pow2[b] = 0
  BY <1>2, <1>4, <1>6, Pow2Divides
<1>8. Pow2[b] <= Pow2[s]
  <2>1. 0 % Pow2[s] = 0
    BY <1>3, Pow2Nat, <1>1
  <2> QED
    BY <1>3, <1>6, <2>1, Pow2Divides
<1>9. Pow2[b] \in Nat \ {0} /\ Pow2[s] \in Nat
  BY <1>1, <1>3, <1>6, Pow2Nat
<1>10. start + Pow2[b] <= end + 1
  BY <1>2, <1>3, <1>8, <1>9
<1> QED
  BY <1>6, <1>7, <1>9, <1>10 DEF b

(* The addresses that share the prefix of an aligned block are the block. *)
LEMMA Quotient ==
    ASSUME NEW P \in Nat \ {0}, NEW n \in Nat, n % P = 0, NEW a \in Nat
    PROVE  a \div P = n \div P <=> a \in n .. n + P - 1
<1> DEFINE q == n \div P
           r == a \div P
<1>1. q \in Nat /\ r \in Nat
  OBVIOUS
<1>2. n = P * q
  OBVIOUS
<1>3. a = P * r + (a % P) /\ a % P \in 0 .. P - 1
  OBVIOUS
<1> DEFINE m == a % P
<1> HIDE DEF q, r, m
<1>4. m \in Nat /\ m < P /\ a = P * r + m
  BY <1>3 DEF r, m
<1>5. ASSUME r = q PROVE a \in n .. n + P - 1
  BY <1>2, <1>4, <1>5, <1>1
<1>6. ASSUME a \in n .. n + P - 1 PROVE r = q
  <2>1. a - n \in Nat /\ a - n < P
    BY <1>6, <1>1, <1>2
  <2>2. (P * q + (a - n)) \div P = q
    BY <2>1, <1>1
  <2>3. P * q + (a - n) = a
    BY <1>1, <1>2
  <2> QED
    BY <2>2, <2>3 DEF r
<1> QED
  BY <1>5, <1>6 DEF q, r

LEMMA BlockIsInterval ==
    ASSUME NEW k \in 0 .. Bits, NEW n \in Nat, n % Pow2[k] = 0,
           n + Pow2[k] <= Pow2[Bits]
    PROVE  Block(<<n, Bits - k>>) = n .. n + Pow2[k] - 1
<1>1. Bits - (Bits - k) = k
  BY BitsAssumption
<1>2. Pow2[k] \in Nat \ {0} /\ Pow2[Bits] \in Nat
  BY BitsAssumption, Pow2Nat
<1>3. Block(<<n, Bits - k>>) = {a \in Addresses : a \div Pow2[k] = n \div Pow2[k]}
  BY <1>1 DEF Block
<1>4. Addresses \subseteq Nat /\ n .. n + Pow2[k] - 1 \subseteq Addresses
  BY <1>2 DEF Addresses
<1>5. \A a \in Addresses : a \div Pow2[k] = n \div Pow2[k] <=> a \in n .. n + Pow2[k] - 1
  BY <1>2, <1>4, Quotient
<1> QED
  BY <1>3, <1>4, <1>5

----------------------------------------------------------------------------
(* range_to_subnets *)

LEMMA ConcatSet ==
    ASSUME NEW S, NEW s \in Seq(S), NEW t \in Seq(S)
    PROVE  ToSet(s \o t) = ToSet(s) \cup ToSet(t)
<1>1. /\ DOMAIN (s \o t) = 1 .. Len(s) + Len(t)
      /\ DOMAIN s = 1 .. Len(s) /\ DOMAIN t = 1 .. Len(t)
      /\ Len(s) \in Nat /\ Len(t) \in Nat
      /\ \A i \in 1 .. Len(s) : (s \o t)[i] = s[i]
      /\ \A i \in Len(s) + 1 .. Len(s) + Len(t) : (s \o t)[i] = t[i - Len(s)]
  OBVIOUS
<1>2. \A i \in 1 .. Len(t) : Len(s) + i \in 1 .. Len(s) + Len(t) /\ (s \o t)[Len(s) + i] = t[i]
  BY <1>1
<1>3. \A i \in 1 .. Len(s) : i \in 1 .. Len(s) + Len(t)
  BY <1>1
<1>4. ASSUME NEW i \in 1 .. Len(s) + Len(t), i \notin 1 .. Len(s)
      PROVE  i - Len(s) \in 1 .. Len(t) /\ (s \o t)[i] = t[i - Len(s)]
  BY <1>1, <1>4
<1> DEFINE u == s \o t
<1> HIDE DEF u
<1>5. ToSet(u) \subseteq ToSet(s) \cup ToSet(t)
  BY <1>1, <1>4 DEF u, ToSet
<1>6. ToSet(s) \subseteq ToSet(u)
  BY <1>1, <1>3 DEF u, ToSet
<1>7. ASSUME NEW i \in 1 .. Len(t) PROVE t[i] \in ToSet(u)
  <2>1. Len(s) + i \in DOMAIN u /\ u[Len(s) + i] = t[i]
    BY <1>1, <1>2 DEF u
  <2> QED
    BY <2>1 DEF ToSet
<1>8. ToSet(t) \subseteq ToSet(u)
  BY <1>1, <1>7 DEF ToSet
<1> QED
  BY <1>5, <1>6, <1>8 DEF u

Subnets == Addresses \X (0 .. Bits)

(* The blocks up to `to`, by where they start. *)
BlocksEquation(g, low, to) ==
    g = [start \in low .. Pow2[Bits] |->
            IF start > to THEN <<>>
            ELSE <<<<start, Bits - HostBits(start, to)>>>>
                    \o g[start + Pow2[HostBits(start, to)]]]

LEMMA BlocksExist ==
    ASSUME NEW to \in Addresses
    PROVE  \E g : BlocksEquation(g, 0, to)
<1> DEFINE top == Pow2[Bits]
           First(start) == <<<<start, Bits - HostBits(start, to)>>>>
           After(start) == start + Pow2[HostBits(start, to)]
           S == {d \in Nat : d <= top => \E g : BlocksEquation(g, top - d, to)}
<1>1. top \in Nat /\ to \in Nat /\ to < top
  BY Pow2Nat, BitsAssumption DEF Addresses
<1>2. \A start \in 0 .. to : After(start) \in start + 1 .. top
  <2> SUFFICES ASSUME NEW start \in 0 .. to PROVE After(start) \in start + 1 .. top
    OBVIOUS
  <2>1. Pow2[HostBits(start, to)] \in Nat \ {0} /\ After(start) <= to + 1
    BY HostBitsFit
  <2> QED
    BY <1>1, <2>1
<1> HIDE DEF top
<1>3. 0 \in S
  <2> DEFINE g == [start \in top - 0 .. top |-> <<>>]
  <2>1. \A start \in top - 0 .. top : start > to
    BY <1>1
  <2>2. BlocksEquation(g, top - 0, to)
    BY <2>1 DEF BlocksEquation, top
  <2> QED
    BY <2>2
<1>4. ASSUME NEW d \in Nat, d \in S PROVE d + 1 \in S
  <2>1. CASE d + 1 <= top
    <3>1. PICK g : BlocksEquation(g, top - d, to)
      BY <1>1, <1>4, <2>1
    <3> DEFINE low == top - (d + 1)
               h == [start \in low .. top |->
                        IF start > to THEN <<>> ELSE First(start) \o g[After(start)]]
    <3>2. low \in Nat /\ top - d = low + 1
      BY <1>1, <2>1
    <3> HIDE DEF low, First, After
    <3>3. g = [start \in low + 1 .. top |->
                  IF start > to THEN <<>> ELSE First(start) \o g[After(start)]]
      BY <3>1, <3>2 DEF BlocksEquation, First, After, top
    <3>4. \A start \in low + 1 .. top : h[start] = g[start]
      <4>1. \A start \in low + 1 .. top : start \in low .. top
        BY <1>1, <3>2
      <4> QED
        BY <3>3, <4>1
    <3>5. \A start \in low .. top : start <= to => After(start) \in low + 1 .. top
      BY <1>1, <1>2, <3>2
    <3>6. h = [start \in low .. top |->
                  IF start > to THEN <<>> ELSE First(start) \o h[After(start)]]
      <4>1. \A start \in low .. top : ~(start > to) => h[After(start)] = g[After(start)]
        <5>1. \A start \in low .. top : ~(start > to) => After(start) \in low + 1 .. top
          BY <1>1, <3>2, <3>5
        <5> QED
          BY <3>4, <5>1
      <4> QED
        BY <4>1
    <3> HIDE DEF h
    <3>7. BlocksEquation(h, low, to)
      BY <3>6 DEF BlocksEquation, First, After, top
    <3> QED
      BY <3>7 DEF low
  <2>2. CASE ~(d + 1 <= top)
    BY <2>2
  <2> QED
    BY <2>1, <2>2
<1>5. \A d \in Nat : d \in S
  <2> HIDE DEF S
  <2> QED
    BY <1>3, <1>4, Ind
<1>6. \E g : BlocksEquation(g, top - top, to)
  BY <1>1, <1>5
<1> QED
  BY <1>1, <1>6

LEMMA RangeToSubnetsDef ==
    ASSUME NEW to \in Addresses
    PROVE  \E g : /\ BlocksEquation(g, 0, to)
                  /\ \A from \in Addresses : RangeToSubnets(from, to) = g[from]
<1> DEFINE f == CHOOSE g : BlocksEquation(g, 0, to)
<1>1. BlocksEquation(f, 0, to)
  BY BlocksExist
<1>2. \A from \in Addresses : RangeToSubnets(from, to) = f[from]
  BY DEF RangeToSubnets, BlocksEquation
<1> QED
  BY <1>1, <1>2

Disjoint(routes) ==
    \A i, j \in 1 .. Len(routes) : i < j => Block(routes[i]) \cap Block(routes[j]) = {}

(* Aligned blocks, no two of which overlap, that together are exactly start .. to. *)
Covers(routes, start, to) ==
    /\ routes \in Seq(Subnets)
    /\ UNION {Block(b) : b \in ToSet(routes)} = start .. to
    /\ \A b \in ToSet(routes) : b[1] % Pow2[Bits - b[2]] = 0
    /\ Disjoint(routes)

LEMMA CoversExtends ==
    ASSUME NEW to \in Addresses, NEW start \in 0 .. to, NEW routes,
           Covers(routes, start + Pow2[HostBits(start, to)], to)
    PROVE  Covers(<<<<start, Bits - HostBits(start, to)>>>> \o routes, start, to)
<1> DEFINE k == HostBits(start, to)
           x == <<start, Bits - k>>
           P == Pow2[k]
           u == <<x>> \o routes
<1>1. k \in 0 .. Bits /\ start % P = 0 /\ P \in Nat \ {0} /\ start + P <= to + 1
  BY HostBitsFit
<1>2. Bits \in Nat /\ Pow2[Bits] \in Nat /\ to \in Nat /\ to < Pow2[Bits] /\ start \in Nat
  BY Pow2Nat, BitsAssumption DEF Addresses
<1> HIDE DEF k
<1>3. x \in Subnets /\ Bits - (Bits - k) = k
  BY <1>1, <1>2 DEF Subnets, Addresses
<1>4. Block(x) = start .. start + P - 1
  <2>1. start + P <= Pow2[Bits]
    BY <1>1, <1>2
  <2> QED
    BY <1>1, <1>2, <2>1, BlockIsInterval
<1>5. x[1] % Pow2[Bits - x[2]] = 0
  BY <1>1, <1>3
<1> HIDE DEF x, P
<1>6. <<x>> \in Seq(Subnets) /\ ToSet(<<x>>) = {x}
  BY <1>3 DEF ToSet
<1>7. /\ routes \in Seq(Subnets)
      /\ UNION {Block(b) : b \in ToSet(routes)} = start + P .. to
      /\ \A b \in ToSet(routes) : b[1] % Pow2[Bits - b[2]] = 0
      /\ Disjoint(routes)
  BY DEF Covers, P, k
<1>8. u \in Seq(Subnets) /\ ToSet(u) = {x} \cup ToSet(routes)
  <2>0. routes \in Seq(Subnets) /\ <<x>> \in Seq(Subnets)
    BY <1>6, <1>7
  <2>1. u \in Seq(Subnets)
    BY ONLY <2>0
  <2>2. ToSet(u) = ToSet(<<x>>) \cup ToSet(routes)
    BY ONLY <2>0, ConcatSet
  <2> QED
    BY <1>6, <2>1, <2>2
<1> HIDE DEF u
<1>9. UNION {Block(b) : b \in ToSet(u)} = Block(x) \cup UNION {Block(b) : b \in ToSet(routes)}
  BY <1>8
<1>10. (start .. start + P - 1) \cup (start + P .. to) = start .. to
  BY <1>1, <1>2 DEF P
<1>11. \A b \in ToSet(u) : b[1] % Pow2[Bits - b[2]] = 0
  BY <1>5, <1>7, <1>8
<1>12. Disjoint(u)
  <2>1. Len(u) = Len(routes) + 1 /\ Len(routes) \in Nat /\ u[1] = x
    BY <1>3, <1>7 DEF u
  <2>2. \A j \in 2 .. Len(u) : u[j] = routes[j - 1] /\ j - 1 \in 1 .. Len(routes)
    BY <1>3, <1>7 DEF u
  <2>3. \A j \in 1 .. Len(routes) : Block(routes[j]) \subseteq start + P .. to
    <3>1. \A j \in 1 .. Len(routes) : routes[j] \in ToSet(routes)
      BY <1>7 DEF ToSet
    <3> QED
      BY <1>7, <3>1
  <2>4. (start .. start + P - 1) \cap (start + P .. to) = {}
    BY <1>1, <1>2 DEF P
  <2> SUFFICES ASSUME NEW i \in 1 .. Len(u), NEW j \in 1 .. Len(u), i < j
               PROVE  Block(u[i]) \cap Block(u[j]) = {}
    BY DEF Disjoint
  <2>5. j \in 2 .. Len(u)
    BY <2>1
  <2>6. CASE i = 1
    BY <1>4, <2>1, <2>2, <2>3, <2>4, <2>5, <2>6
  <2>7. CASE i # 1
    <3>1. i \in 2 .. Len(u) /\ i - 1 < j - 1
      BY <2>1, <2>7
    <3> QED
      BY <1>7, <2>2, <2>5, <3>1 DEF Disjoint
  <2> QED
    BY <2>6, <2>7
<1>13. Covers(u, start, to)
  BY <1>4, <1>7, <1>8, <1>9, <1>10, <1>11, <1>12 DEF Covers
<1> QED
  BY <1>13 DEF u, x, k

(* range_to_subnets gives aligned subnets that cover the range and nothing else,
   no two of which overlap, whatever its ends. *)
THEOREM RangeToSubnetsExact ==
    \A from, to \in Addresses : Covers(RangeToSubnets(from, to), from, to)
<1> SUFFICES ASSUME NEW from \in Addresses, NEW to \in Addresses
             PROVE  Covers(RangeToSubnets(from, to), from, to)
  OBVIOUS
<1>1. PICK g : BlocksEquation(g, 0, to) /\ RangeToSubnets(from, to) = g[from]
  BY RangeToSubnetsDef
<1>2. Pow2[Bits] \in Nat /\ to \in Nat /\ from \in Nat /\ to < Pow2[Bits] /\ from < Pow2[Bits]
  BY Pow2Nat, BitsAssumption DEF Addresses
<1> DEFINE S == {d \in Nat : \A start \in 0 .. Pow2[Bits] :
                                 to + 1 - start <= d => Covers(g[start], start, to)}
<1>3. ASSUME NEW start \in 0 .. Pow2[Bits], start > to PROVE Covers(g[start], start, to)
  <2>1. g[start] = <<>> /\ start .. to = {}
    BY <1>1, <1>2, <1>3 DEF BlocksEquation
  <2>2. <<>> \in Seq(Subnets) /\ ToSet(<<>>) = {}
    BY DEF ToSet
  <2> QED
    BY <2>1, <2>2 DEF Covers, Disjoint
<1>4. 0 \in S
  BY <1>2, <1>3
<1>5. ASSUME NEW d \in Nat, d \in S PROVE d + 1 \in S
  <2> SUFFICES ASSUME NEW start \in 0 .. Pow2[Bits], to + 1 - start <= d + 1
               PROVE  Covers(g[start], start, to)
    OBVIOUS
  <2>1. CASE start > to
    BY <1>3, <2>1
  <2>2. CASE ~(start > to)
    <3> DEFINE P == Pow2[HostBits(start, to)]
    <3>1. start \in 0 .. to
      BY <1>2, <2>2
    <3>2. P \in Nat \ {0} /\ start + P <= to + 1
      BY <3>1, HostBitsFit
    <3>3. start + P \in 0 .. Pow2[Bits] /\ to + 1 - (start + P) <= d
      BY <1>2, <3>1, <3>2
    <3>4. Covers(g[start + P], start + P, to)
      BY <1>5, <3>3
    <3>5. g[start] = <<<<start, Bits - HostBits(start, to)>>>> \o g[start + P]
      BY <1>1, <2>2 DEF BlocksEquation
    <3> QED
      BY <3>1, <3>4, <3>5, CoversExtends
  <2> QED
    BY <2>1, <2>2
<1>6. \A d \in Nat : d \in S
  <2> HIDE DEF S
  <2> QED
    BY <1>4, <1>5, Ind
<1>7. to + 1 \in Nat /\ from \in 0 .. Pow2[Bits] /\ to + 1 - from <= to + 1
  BY <1>2
<1>8. Covers(g[from], from, to)
  BY <1>6, <1>7
<1> QED
  BY <1>1, <1>8

----------------------------------------------------------------------------
(* parse_hello_reply: the routes of the ranges *)

(* The routes of the first ranges. *)
HelloEquation(g, ranges, m) ==
    g = [n \in 0 .. m |-> IF n = 0 THEN <<>> ELSE IF Skipped(ranges[n]) THEN g[n - 1]
            ELSE g[n - 1] \o RangeToSubnets(ranges[n][1], ranges[n][2])]

LEMMA HelloDef ==
    ASSUME NEW ranges, Len(ranges) \in Nat
    PROVE  \E g : HelloEquation(g, ranges, Len(ranges)) /\ HelloRoutes(ranges) = g[Len(ranges)]
<1> DEFINE S == {m \in Nat : \E g : HelloEquation(g, ranges, m)}
           f == CHOOSE g : HelloEquation(g, ranges, Len(ranges))
<1>1. 0 \in S
  <2> DEFINE g == [n \in 0 .. 0 |-> <<>>]
  <2>1. HelloEquation(g, ranges, 0)
    BY DEF HelloEquation
  <2> QED
    BY <2>1
<1>2. ASSUME NEW m \in Nat, m \in S PROVE m + 1 \in S
  <2>1. PICK g : HelloEquation(g, ranges, m)
    BY <1>2
  <2> DEFINE h == [n \in 0 .. m + 1 |-> IF n = 0 THEN <<>> ELSE IF Skipped(ranges[n]) THEN g[n - 1]
            ELSE g[n - 1] \o RangeToSubnets(ranges[n][1], ranges[n][2])]
  <2>2. \A n \in 0 .. m : h[n] = g[n]
    BY <2>1 DEF HelloEquation
  <2>3. HelloEquation(h, ranges, m + 1)
    <3>1. \A n \in 0 .. m + 1 : n # 0 => h[n - 1] = g[n - 1]
      <4>1. \A n \in 0 .. m + 1 : n # 0 => n - 1 \in 0 .. m
        OBVIOUS
      <4> HIDE DEF h
      <4> QED
        BY <2>2, <4>1
    <3> QED
      BY <3>1 DEF HelloEquation
  <2>4. m + 1 \in Nat /\ \E k : HelloEquation(k, ranges, m + 1)
    <3> HIDE DEF h
    <3> QED
      BY <2>3
  <2> QED
    BY <2>4
<1>3. \A m \in Nat : m \in S
  <2> HIDE DEF S
  <2> QED
    BY <1>1, <1>2, Ind
<1>4. HelloEquation(f, ranges, Len(ranges))
  <2>1. \E g : HelloEquation(g, ranges, Len(ranges))
    BY <1>3
  <2> QED
    BY <2>1
<1>5. HelloRoutes(ranges) = f[Len(ranges)]
  BY DEF HelloRoutes, HelloEquation
<1> QED
  BY <1>4, <1>5

RangesUpTo(ranges, n) ==
    UNION {ranges[i][1] .. ranges[i][2] : i \in {i \in 1 .. n : ~Skipped(ranges[i])}}

Exact(routes, addresses) ==
    /\ routes \in Seq(Subnets)
    /\ UNION {Block(b) : b \in ToSet(routes)} = addresses
    /\ \A b \in ToSet(routes) : b[1] % Pow2[Bits - b[2]] = 0

LEMMA ExactConcat ==
    ASSUME NEW s, NEW t, NEW A, NEW B, Exact(s, A), Exact(t, B)
    PROVE  Exact(s \o t, A \cup B)
<1>1. s \in Seq(Subnets) /\ t \in Seq(Subnets)
  BY DEF Exact
<1> DEFINE u == s \o t
<1>2. u \in Seq(Subnets)
  BY <1>1
<1>3. ToSet(u) = ToSet(s) \cup ToSet(t)
  BY ONLY <1>1, ConcatSet
<1> HIDE DEF u
<1> QED
  BY <1>2, <1>3 DEF Exact, u

(* The subnets of all the ranges cover their addresses and no other. *)
LEMMA HelloRoutesCover ==
    ASSUME NEW ranges \in Seq(Ranges)
    PROVE  Exact(HelloRoutes(ranges), RangeAddresses(ranges))
<1>1. PICK g : HelloEquation(g, ranges, Len(ranges)) /\ HelloRoutes(ranges) = g[Len(ranges)]
  BY HelloDef
<1> DEFINE S == {n \in Nat : n <= Len(ranges) => Exact(g[n], RangesUpTo(ranges, n))}
<1>2. 0 \in S
  <2>1. g[0] = <<>> /\ RangesUpTo(ranges, 0) = {}
    BY <1>1 DEF HelloEquation, RangesUpTo
  <2>2. <<>> \in Seq(Subnets) /\ ToSet(<<>>) = {}
    BY DEF ToSet
  <2>3. Exact(g[0], RangesUpTo(ranges, 0))
    BY <2>1, <2>2 DEF Exact
  <2> QED
    BY <2>3
<1>3. ASSUME NEW n \in Nat, n \in S PROVE n + 1 \in S
  <2>1. CASE n + 1 <= Len(ranges)
    <3> DEFINE r == ranges[n + 1]
    <3>1. Exact(g[n], RangesUpTo(ranges, n))
      BY <1>3, <2>1
    <3>2. n + 1 \in 1 .. Len(ranges) /\ r \in Ranges
      BY <2>1
    <3>3. 1 .. n + 1 = (1 .. n) \cup {n + 1}
      OBVIOUS
    <3>4. g[n + 1] = IF Skipped(r) THEN g[n] ELSE g[n] \o RangeToSubnets(r[1], r[2])
      BY <1>1, <3>2 DEF HelloEquation
    <3> HIDE DEF r
    <3>5. CASE Skipped(r)
      <4>1. RangesUpTo(ranges, n + 1) = RangesUpTo(ranges, n)
        BY <3>3, <3>5 DEF RangesUpTo, r
      <4> QED
        BY <3>1, <3>4, <3>5, <4>1
    <3>6. CASE ~Skipped(r)
      <4>1. r[1] \in Addresses /\ r[2] \in Addresses
        BY <3>2, <3>6 DEF Ranges, Skipped
      <4>2. Exact(RangeToSubnets(r[1], r[2]), r[1] .. r[2])
        BY <4>1, RangeToSubnetsExact DEF Covers, Exact
      <4>3. RangesUpTo(ranges, n + 1) = RangesUpTo(ranges, n) \cup (r[1] .. r[2])
        BY <3>3, <3>6 DEF RangesUpTo, r
      <4> QED
        <5>1. Exact(g[n] \o RangeToSubnets(r[1], r[2]), RangesUpTo(ranges, n) \cup (r[1] .. r[2]))
          BY ONLY <3>1, <4>2, ExactConcat
        <5>2. g[n + 1] = g[n] \o RangeToSubnets(r[1], r[2])
          BY <3>4, <3>6
        <5>3. Exact(g[n + 1], RangesUpTo(ranges, n + 1))
          BY ONLY <4>3, <5>1, <5>2
        <5> QED
          BY <5>3
    <3> QED
      BY <3>5, <3>6
  <2>2. CASE ~(n + 1 <= Len(ranges))
    BY <2>2
  <2> QED
    BY <2>1, <2>2
<1>4. \A n \in Nat : n \in S
  <2> HIDE DEF S
  <2> QED
    BY <1>2, <1>3, Ind
<1>5. Exact(g[Len(ranges)], RangesUpTo(ranges, Len(ranges)))
  BY <1>4
<1>6. RangesUpTo(ranges, Len(ranges)) = RangeAddresses(ranges)
  BY DEF RangesUpTo, RangeAddresses, Skipped, ToSet
<1> QED
  BY <1>1, <1>5, <1>6

(* Without an address there is no subnet, and the default ranges are installed. *)
LEMMA HelloRoutesEmpty ==
    ASSUME NEW routes, NEW A, Exact(routes, A)
    PROVE  A = {} <=> routes = <<>>
<1>1. routes \in Seq(Subnets)
  BY DEF Exact
<1>2. ASSUME routes = <<>> PROVE A = {}
  BY <1>2 DEF Exact, ToSet
<1>3. ASSUME routes # <<>> PROVE A # {}
  <2>1. 1 \in DOMAIN routes /\ routes[1] \in Subnets
    BY <1>1, <1>3
  <2> DEFINE b == routes[1]
  <2>2. b \in ToSet(routes)
    BY <2>1 DEF ToSet
  <2>3. b[1] \in Block(b)
    BY <2>1 DEF Block, Subnets
  <2> HIDE DEF b
  <2> QED
    BY <2>2, <2>3 DEF Exact
<1> QED
  BY <1>2, <1>3

(* A range becomes the route for every address exactly if it is the whole space. *)
LEMMA WholeRange ==
    ASSUME NEW from \in Addresses, NEW to \in Addresses
    PROVE  FullTunnel \in ToSet(RangeToSubnets(from, to)) <=> from = 0 /\ to = Pow2[Bits] - 1
<1> DEFINE routes == RangeToSubnets(from, to)
<1>1. Pow2[Bits] \in Nat \ {0} /\ Bits \in Nat /\ Bits \in 0 .. Bits /\ Bits - Bits = 0
  BY Pow2Nat, BitsAssumption
<1>2. from \in Nat /\ to \in Nat /\ from < Pow2[Bits] /\ to < Pow2[Bits]
  BY <1>1 DEF Addresses
<1>3. Covers(routes, from, to)
  BY RangeToSubnetsExact
<1>4. ASSUME FullTunnel \in ToSet(routes) PROVE from = 0 /\ to = Pow2[Bits] - 1
  <2>1. Block(FullTunnel) = 0 .. Pow2[Bits] - 1
    <3>1. 0 % Pow2[Bits] = 0 /\ 0 + Pow2[Bits] <= Pow2[Bits]
      BY <1>1
    <3>2. Block(<<0, Bits - Bits>>) = 0 .. 0 + Pow2[Bits] - 1
      BY <1>1, <3>1, BlockIsInterval
    <3> QED
      BY <1>1, <3>2 DEF FullTunnel
  <2> HIDE DEF routes
  <2>2. Block(FullTunnel) \subseteq from .. to
    BY <1>3, <1>4 DEF Covers
  <2>3. 0 \in from .. to /\ Pow2[Bits] - 1 \in from .. to
    BY <1>1, <2>1, <2>2
  <2> QED
    BY <1>1, <1>2, <2>3
<1>5. ASSUME from = 0, to = Pow2[Bits] - 1 PROVE FullTunnel \in ToSet(routes)
  <2>1. HostBits(0, to) = Bits
    <3> DEFINE n == to - 0 + 1
               k == SizeBits(n)
    <3>1. n = Pow2[Bits] /\ n \in 1 .. Pow2[Bits]
      BY <1>1, <1>5
    <3> HIDE DEF n
    <3>2. k \in 0 .. Bits /\ n < Pow2[k + 1]
      BY <3>1, SizeBitsFits
    <3> HIDE DEF k
    <3>3. k = Bits
      <4>1. SUFFICES ASSUME k # Bits PROVE FALSE
        OBVIOUS
      <4>2. k + 1 \in 0 .. Bits /\ 0 % Pow2[Bits] = 0
        BY <1>1, <3>2, <4>1
      <4>3. Pow2[k + 1] <= Pow2[Bits]
        BY <1>1, <4>2, Pow2Divides
      <4>4. Pow2[k + 1] \in Nat
        BY <1>1, <4>2, Pow2Nat
      <4> QED
        BY <1>1, <3>1, <3>2, <4>3, <4>4
    <3>4. AlignBits(0) = Bits
      BY DEF AlignBits
    <3> QED
      BY <3>3, <3>4 DEF HostBits, k, n
  <2>2. PICK g : BlocksEquation(g, 0, to) /\ routes = g[from]
    BY RangeToSubnetsDef
  <2>3. g[0] = <<FullTunnel>> \o g[0 + Pow2[Bits]]
    <3>1. 0 \in 0 .. Pow2[Bits] /\ ~(0 > to)
      BY <1>1, <1>2
    <3>2. g[0] = <<<<0, Bits - HostBits(0, to)>>>> \o g[0 + Pow2[HostBits(0, to)]]
      BY <2>2, <3>1 DEF BlocksEquation
    <3> QED
      BY <1>1, <2>1, <3>2 DEF FullTunnel
  <2>4. g[0 + Pow2[Bits]] = <<>>
    <3>1. 0 + Pow2[Bits] \in 0 .. Pow2[Bits] /\ 0 + Pow2[Bits] > to
      BY <1>1, <1>2
    <3> QED
      BY <2>2, <3>1 DEF BlocksEquation
  <2> DEFINE x == FullTunnel
  <2>5. routes = <<x>> \o <<>>
    BY <1>5, <2>2, <2>3, <2>4
  <2> HIDE DEF x, routes
  <2>6. 1 \in DOMAIN routes /\ routes[1] = x
    BY <2>5
  <2> QED
    BY <2>6 DEF ToSet, x
<1> QED
  BY <1>4, <1>5

(* The ranges give the route for every address exactly if one is the whole space:
   parse_hello_reply does not strip it. *)
LEMMA HelloRoutesWhole ==
    ASSUME NEW ranges \in Seq(Ranges)
    PROVE  FullTunnel \in ToSet(HelloRoutes(ranges)) <=> WholeSpace \in ToSet(ranges)
<1>1. PICK g : HelloEquation(g, ranges, Len(ranges)) /\ HelloRoutes(ranges) = g[Len(ranges)]
  BY HelloDef
<1> DEFINE Whole(n) == FullTunnel \in ToSet(g[n]) <=> \E i \in 1 .. n : ranges[i] = WholeSpace
           S == {n \in Nat : n <= Len(ranges) => g[n] \in Seq(Subnets) /\ Whole(n)}
<1>2. 0 \in S
  <2>1. g[0] = <<>>
    BY <1>1 DEF HelloEquation
  <2>2. <<>> \in Seq(Subnets) /\ ToSet(<<>>) = {}
    BY DEF ToSet
  <2>3. Whole(0)
    BY <2>1, <2>2
  <2> QED
    BY <2>1, <2>2, <2>3
<1>3. ASSUME NEW n \in Nat, n \in S PROVE n + 1 \in S
  <2>1. CASE n + 1 <= Len(ranges)
    <3> DEFINE r == ranges[n + 1]
    <3>1. g[n] \in Seq(Subnets) /\ Whole(n)
      BY <1>3, <2>1
    <3>2. n + 1 \in 1 .. Len(ranges) /\ r \in Ranges
      BY <2>1
    <3>3. (\E i \in 1 .. n + 1 : ranges[i] = WholeSpace)
            <=> (\E i \in 1 .. n : ranges[i] = WholeSpace) \/ r = WholeSpace
      <4>1. 1 .. n + 1 = (1 .. n) \cup {n + 1}
        OBVIOUS
      <4> QED
        BY <4>1
    <3>4. g[n + 1] = IF Skipped(r) THEN g[n] ELSE g[n] \o RangeToSubnets(r[1], r[2])
      BY <1>1, <3>2 DEF HelloEquation
    <3>5. Pow2[Bits] \in Nat \ {0}
      BY Pow2Nat, BitsAssumption
    <3> HIDE DEF r
    <3>6. r = WholeSpace <=> r[1] = 0 /\ r[2] = Pow2[Bits] - 1
      BY <3>2 DEF Ranges, WholeSpace
    <3>7. CASE Skipped(r)
      <4>1. r # WholeSpace
        BY <3>5, <3>6, <3>7 DEF Skipped, NoValue, Sentinel
      <4> QED
        BY <3>1, <3>3, <3>4, <3>7, <4>1
    <3>8. CASE ~Skipped(r)
      <4> DEFINE t == RangeToSubnets(r[1], r[2])
      <4>1. r[1] \in Addresses /\ r[2] \in Addresses
        BY <3>2, <3>8 DEF Ranges, Skipped
      <4>2. t \in Seq(Subnets)
        BY <4>1, RangeToSubnetsExact DEF Covers
      <4>3. FullTunnel \in ToSet(t) <=> r = WholeSpace
        BY <3>6, <4>1, WholeRange
      <4>4. g[n + 1] = g[n] \o t
        BY <3>4, <3>8
      <4> HIDE DEF t
      <4>5. g[n] \in Seq(Subnets)
        BY <3>1
      <4>6. g[n + 1] \in Seq(Subnets)
        BY ONLY <4>2, <4>4, <4>5
      <4>7. ToSet(g[n + 1]) = ToSet(g[n]) \cup ToSet(t)
        BY ONLY <4>2, <4>4, <4>5, ConcatSet
      <4>8. Whole(n + 1)
        BY <3>1, <3>3, <4>3, <4>7
      <4> QED
        BY <4>6, <4>8
    <3> QED
      BY <3>7, <3>8
  <2>2. CASE ~(n + 1 <= Len(ranges))
    BY <2>2
  <2> QED
    BY <2>1, <2>2
<1>4. \A n \in Nat : n \in S
  <2> HIDE DEF S
  <2> QED
    BY <1>2, <1>3, Ind
<1>5. Whole(Len(ranges))
  BY <1>4
<1> QED
  BY <1>1, <1>5 DEF ToSet

----------------------------------------------------------------------------
(* to_session_params: resolvers and keepalive *)

(* The first resolvers merged. *)
MergeEquation(g, s, m) ==
    g = [n \in 0 .. m |-> IF n = 0 THEN <<>> ELSE AppendNew(g[n - 1], s[n])]

LEMMA MergeDef ==
    ASSUME NEW s, Len(s) \in Nat
    PROVE  \E g : MergeEquation(g, s, Len(s)) /\ Merge(s) = g[Len(s)]
<1> DEFINE S == {m \in Nat : \E g : MergeEquation(g, s, m)}
           f == CHOOSE g : MergeEquation(g, s, Len(s))
<1>1. 0 \in S
  <2> DEFINE g == [n \in 0 .. 0 |-> <<>>]
  <2>1. MergeEquation(g, s, 0)
    BY DEF MergeEquation
  <2> QED
    BY <2>1
<1>2. ASSUME NEW m \in Nat, m \in S PROVE m + 1 \in S
  <2>1. PICK g : MergeEquation(g, s, m)
    BY <1>2
  <2> DEFINE h == [n \in 0 .. m + 1 |-> IF n = 0 THEN <<>> ELSE AppendNew(g[n - 1], s[n])]
  <2>2. \A n \in 0 .. m : h[n] = g[n]
    BY <2>1 DEF MergeEquation
  <2>3. MergeEquation(h, s, m + 1)
    <3>1. \A n \in 0 .. m + 1 : n # 0 => h[n - 1] = g[n - 1]
      <4>1. \A n \in 0 .. m + 1 : n # 0 => n - 1 \in 0 .. m
        OBVIOUS
      <4> HIDE DEF h
      <4> QED
        BY <2>2, <4>1
    <3> QED
      BY <3>1 DEF MergeEquation
  <2>4. m + 1 \in Nat /\ \E k : MergeEquation(k, s, m + 1)
    <3> HIDE DEF h
    <3> QED
      BY <2>3
  <2> QED
    BY <2>4
<1>3. \A m \in Nat : m \in S
  <2> HIDE DEF S
  <2> QED
    BY <1>1, <1>2, Ind
<1>4. MergeEquation(f, s, Len(s))
  <2>1. \E g : MergeEquation(g, s, Len(s))
    BY <1>3
  <2> QED
    BY <2>1
<1>5. Merge(s) = f[Len(s)]
  BY DEF Merge, MergeEquation
<1> QED
  BY <1>4, <1>5

Distinct(s) == \A i, j \in 1 .. Len(s) : s[i] = s[j] => i = j

LEMMA AppendFacts ==
    ASSUME NEW X, NEW m \in Seq(X), NEW x \in X
    PROVE  /\ Append(m, x) \in Seq(X) /\ Len(Append(m, x)) = Len(m) + 1 /\ Len(m) \in Nat
           /\ \A i \in 1 .. Len(m) : Append(m, x)[i] = m[i]
           /\ Append(m, x)[Len(m) + 1] = x
OBVIOUS

LEMMA AppendNewDistinct ==
    ASSUME NEW X, NEW m \in Seq(X), NEW x \in X, Distinct(m)
    PROVE  AppendNew(m, x) \in Seq(X) /\ Distinct(AppendNew(m, x))
<1>1. CASE Contains(m, x)
  BY <1>1 DEF AppendNew
<1>2. CASE ~Contains(m, x)
  <2> DEFINE u == Append(m, x)
             k == Len(m)
  <2>1. /\ u \in Seq(X) /\ Len(u) = k + 1 /\ k \in Nat
        /\ \A i \in 1 .. k : u[i] = m[i]
        /\ u[k + 1] = x
    BY AppendFacts
  <2>2. \A i \in 1 .. k : m[i] # x
    BY <1>2 DEF Contains
  <2>3. \A i, j \in 1 .. k : m[i] = m[j] => i = j
    BY DEF Distinct
  <2> HIDE DEF u, k
  <2>4. \A i \in 1 .. k + 1 : i \in 1 .. k \/ i = k + 1
    BY <2>1
  <2>5. Distinct(u)
    BY <2>1, <2>2, <2>3, <2>4 DEF Distinct
  <2> QED
    BY <1>2, <2>1, <2>5 DEF AppendNew, u
<1> QED
  BY <1>1, <1>2

(* The resolvers of PPP come first, in their order, and none is there twice. *)
LEMMA MergeKeepsOrder ==
    ASSUME NEW X, NEW a \in Seq(X), NEW b \in Seq(X), Distinct(a)
    PROVE  /\ Merge(a \o b) \in Seq(X)
           /\ Distinct(Merge(a \o b))
           /\ IsPrefix(a, Merge(a \o b))
<1> DEFINE w == a \o b
           l == Len(a)
<1>1. /\ w \in Seq(X) /\ Len(w) \in Nat /\ l \in Nat /\ l <= Len(w)
      /\ \A i \in 1 .. l : w[i] = a[i]
      /\ \A i \in 1 .. Len(w) : w[i] \in X
  OBVIOUS
<1>2. \A i, j \in 1 .. l : a[i] = a[j] => i = j
  BY DEF Distinct
<1> HIDE DEF w, l
<1>3. PICK g : MergeEquation(g, w, Len(w)) /\ Merge(w) = g[Len(w)]
  BY <1>1, MergeDef
<1> DEFINE Good(m, n) == /\ m \in Seq(X) /\ Distinct(m)
                         /\ n <= l => Len(m) = n
                         /\ \A i \in 1 .. l : i <= n => i <= Len(m) /\ m[i] = a[i]
           S == {n \in Nat : n <= Len(w) => Good(g[n], n)}
<1>4. 0 \in S
  <2>1. g[0] = <<>>
    BY <1>1, <1>3 DEF MergeEquation
  <2>2. Good(<<>>, 0)
    BY <1>1 DEF Distinct
  <2> QED
    BY <2>1, <2>2
<1>5. ASSUME NEW n \in Nat, n \in S PROVE n + 1 \in S
  <2>1. CASE n + 1 <= Len(w)
    <3> DEFINE m == g[n]
               x == w[n + 1]
               k == Len(m)
               u == Append(m, x)
    <3>1. Good(m, n)
      BY <1>1, <1>5, <2>1
    <3>2. x \in X
      BY <1>1, <2>1
    <3>3. g[n + 1] = AppendNew(m, x)
      BY <1>1, <1>3, <2>1 DEF MergeEquation
    <3> HIDE DEF m, x
    <3>4. AppendNew(m, x) \in Seq(X) /\ Distinct(AppendNew(m, x))
      BY <3>1, <3>2, AppendNewDistinct
    <3>5. /\ Len(u) = k + 1 /\ k \in Nat
          /\ \A i \in 1 .. k : u[i] = m[i]
          /\ u[k + 1] = x
      BY <3>1, <3>2, AppendFacts
    <3> HIDE DEF u, k
    <3>6. CASE n + 1 <= l
      <4>1. k = n /\ x = a[n + 1]
        BY <1>1, <3>1, <3>6 DEF k, x
      <4>2. \A i \in 1 .. n : i \in 1 .. l /\ i # n + 1 /\ m[i] = a[i]
        BY <1>1, <3>1, <3>6
      <4>3. n + 1 \in 1 .. l
        BY <1>1, <3>6
      <4>4. \A i \in 1 .. n : m[i] # x
        BY <1>2, <4>1, <4>2, <4>3
      <4>5. AppendNew(m, x) = u
        BY <4>1, <4>4 DEF AppendNew, Contains, u, k
      <4>6. Good(u, n + 1)
        <5>1. \A i \in 1 .. l : i <= n + 1 => i <= Len(u) /\ u[i] = a[i]
          <6>1. \A i \in 1 .. l : i <= n + 1 => i \in 1 .. n \/ i = n + 1
            OBVIOUS
          <6> QED
            BY <3>5, <4>1, <4>2, <6>1
        <5> QED
          BY <3>4, <3>5, <4>1, <4>5, <5>1
      <4> QED
        BY <3>3, <4>5, <4>6
    <3>7. CASE ~(n + 1 <= l)
      <4>1. \A i \in 1 .. l : i <= n
        BY <1>1, <3>7
      <4>2. \A i \in 1 .. l : i \in 1 .. k /\ m[i] = a[i]
        BY <3>1, <3>5, <4>1 DEF k
      <4>3. \A i \in 1 .. l : i <= Len(AppendNew(m, x)) /\ AppendNew(m, x)[i] = a[i]
        <5>1. CASE AppendNew(m, x) = m
          BY <4>2, <5>1, <3>5 DEF k
        <5>2. CASE AppendNew(m, x) = u
          BY <4>2, <5>2, <3>5
        <5> QED
          BY <5>1, <5>2 DEF AppendNew, u
      <4>4. Good(AppendNew(m, x), n + 1)
        BY <3>4, <3>7, <4>3
      <4> QED
        BY <3>3, <4>4
    <3> QED
      BY <3>6, <3>7
  <2>2. CASE ~(n + 1 <= Len(w))
    BY <2>2
  <2> QED
    BY <2>1, <2>2
<1>6. \A n \in Nat : n \in S
  <2> HIDE DEF S
  <2> QED
    BY <1>4, <1>5, Ind
<1>7. Good(Merge(w), Len(w))
  BY <1>1, <1>3, <1>6
<1> DEFINE m == Merge(w)
<1> HIDE DEF m
<1>8. m \in Seq(X) /\ Distinct(m) /\ l <= Len(m) /\ \A i \in 1 .. l : m[i] = a[i]
  <2>1. CASE l = 0
    BY <1>1, <1>7, <2>1 DEF m
  <2>2. CASE l # 0
    <3>1. l \in 1 .. l /\ l <= Len(w) /\ \A i \in 1 .. l : i <= Len(w)
      BY <1>1, <2>2
    <3> QED
      BY <1>7, <3>1 DEF m
  <2> QED
    BY <2>1, <2>2
<1>9. IsPrefix(a, m)
  <2>1. SubSeq(a, 1, l) = a
    BY DEF l
  <2>2. SubSeq(m, 1, l) \in Seq(X) /\ Len(SubSeq(m, 1, l)) = l
        /\ \A i \in 1 .. l : SubSeq(m, 1, l)[i] = m[i]
    BY <1>1, <1>8
  <2>3. SubSeq(m, 1, l) = a
    BY <1>8, <2>2, SeqEqual DEF l
  <2> QED
    BY <1>8, <2>1, <2>3 DEF IsPrefix, l
<1> QED
  BY <1>8, <1>9 DEF m, w

LEMMA DistinctCount ==
    ASSUME NEW X, NEW s \in Seq(X), Distinct(s)
    PROVE  Cardinality(ToSet(s)) = Len(s)
<1>1. s \in [1 .. Len(s) -> ToSet(s)] /\ Len(s) \in Nat /\ DOMAIN s = 1 .. Len(s)
  BY DEF ToSet
<1>2. s \in Bijection(1 .. Len(s), ToSet(s))
  <2>1. s \in Injection(1 .. Len(s), ToSet(s))
    BY <1>1 DEF Injection, IsInjective, Distinct
  <2>2. s \in Surjection(1 .. Len(s), ToSet(s))
    BY <1>1 DEF Surjection, ToSet
  <2> QED
    BY <2>1, <2>2 DEF Bijection
<1>3. ExistsBijection(1 .. Len(s), ToSet(s))
  BY <1>2 DEF ExistsBijection
<1> QED
  BY <1>1, <1>3, FS_CountingElements

(* A third of the idle timeout, at least 5 s and at most a minute. *)
LEMMA KeepaliveBounds ==
    ASSUME NEW idle \in Int
    PROVE  /\ KeepaliveSecs(idle) \in 5 .. 60
           /\ idle >= 15 => 3 * KeepaliveSecs(idle) <= idle
BY DEF KeepaliveSecs, Clamp

----------------------------------------------------------------------------
(* parse_config_xml *)

(* What the scan has gathered from the first elements. *)
ParseEquation(g, doc, m) ==
    g = [n \in 0 .. m |-> IF n = 0 THEN EmptyConfig ELSE ParseElement(g[n - 1], doc[n])]

LEMMA ParseDef ==
    ASSUME NEW doc, Len(doc) \in Nat
    PROVE  \E g : ParseEquation(g, doc, Len(doc)) /\ ParseConfig(doc) = g[Len(doc)]
<1> DEFINE S == {m \in Nat : \E g : ParseEquation(g, doc, m)}
           f == CHOOSE g : ParseEquation(g, doc, Len(doc))
<1>1. 0 \in S
  <2> DEFINE g == [n \in 0 .. 0 |-> EmptyConfig]
  <2>1. ParseEquation(g, doc, 0)
    BY DEF ParseEquation
  <2> QED
    BY <2>1
<1>2. ASSUME NEW m \in Nat, m \in S PROVE m + 1 \in S
  <2>1. PICK g : ParseEquation(g, doc, m)
    BY <1>2
  <2> DEFINE h == [n \in 0 .. m + 1 |-> IF n = 0 THEN EmptyConfig ELSE ParseElement(g[n - 1], doc[n])]
  <2>2. \A n \in 0 .. m : h[n] = g[n]
    BY <2>1 DEF ParseEquation
  <2>3. ParseEquation(h, doc, m + 1)
    <3>1. \A n \in 0 .. m + 1 : n # 0 => h[n - 1] = g[n - 1]
      <4>1. \A n \in 0 .. m + 1 : n # 0 => n - 1 \in 0 .. m
        OBVIOUS
      <4> HIDE DEF h
      <4> QED
        BY <2>2, <4>1
    <3> QED
      BY <3>1 DEF ParseEquation
  <2>4. m + 1 \in Nat /\ \E k : ParseEquation(k, doc, m + 1)
    <3> HIDE DEF h
    <3> QED
      BY <2>3
  <2> QED
    BY <2>4
<1>3. \A m \in Nat : m \in S
  <2> HIDE DEF S
  <2> QED
    BY <1>1, <1>2, Ind
<1>4. ParseEquation(f, doc, Len(doc))
  <2>1. \E g : ParseEquation(g, doc, Len(doc))
    BY <1>3
  <2> QED
    BY <2>1
<1>5. ParseConfig(doc) = f[Len(doc)]
  BY DEF ParseConfig, ParseEquation
<1> QED
  BY <1>4, <1>5

RouteValues == {Route(e) : e \in Elements}
Configs ==
    [address : Int, netmask : SUBSET Int, dns : Seq(Int), routes : Seq(RouteValues),
     excludes : Seq(RouteValues), idle : Int, inSplit : BOOLEAN, negated : BOOLEAN]

LEMMA AddressesNat == Addresses \subseteq Nat
BY Pow2Nat, BitsAssumption DEF Addresses

LEMMA ParseElementTyped ==
    ASSUME NEW c \in Configs, NEW e \in Elements
    PROVE  ParseElement(c, e) \in Configs
<1>1. e.ip \in Int /\ e.len \in Int /\ e.val \in Int /\ e.negate \in BOOLEAN
  <2>1. e.ip \in Addresses \cup {NoValue} /\ e.len \in Nat \cup {NoValue} /\ e.val \in Nat \cup {NoValue}
    BY DEF Elements
  <2>2. e.negate \in BOOLEAN
    BY DEF Elements
  <2>3. NoValue \in Int /\ Nat \subseteq Int /\ Addresses \subseteq Nat
    BY AddressesNat DEF NoValue
  <2>4. e.ip \in Int /\ e.len \in Int /\ e.val \in Int
    BY ONLY <2>1, <2>3, Zenon
  <2> QED
    BY <2>2, <2>4
<1>2. Route(e) \in RouteValues /\ Route(e) = <<e.ip, AddrPrefix(e)>>
  BY DEF RouteValues, Route
<1>3. [c EXCEPT !.idle = e.val] \in Configs
  BY <1>1 DEF Configs
<1>4. OnAssigned(c, e) \in Configs
  <2>1. PrefixToMask(e.len) \in SUBSET Int
    BY <1>1, BitsAssumption DEF PrefixToMask
  <2> HIDE DEF PrefixToMask
  <2> QED
    BY <1>1, <2>1 DEF OnAssigned, Configs
<1>5. OnDns(c, e) \in Configs
  <2>1. AppendNew(c.dns, e.ip) \in Seq(Int)
    BY <1>1 DEF AppendNew, Configs
  <2> QED
    BY <2>1 DEF OnDns, Configs
<1>6. OnSplitStart(c, e) \in Configs /\ OnSplitEnd(c) \in Configs
  BY <1>1 DEF OnSplitStart, OnSplitEnd, Configs
<1>7. OnAddr(c, e) \in Configs
  <2> DEFINE r == <<e.ip, AddrPrefix(e)>>
  <2>1. Append(c.routes, r) \in Seq(RouteValues) /\ Append(c.excludes, r) \in Seq(RouteValues)
    BY <1>2 DEF Configs
  <2> HIDE DEF r
  <2>2. [c EXCEPT !.excludes = Append(@, r)] \in Configs /\ [c EXCEPT !.routes = Append(@, r)] \in Configs
    BY <2>1 DEF Configs
  <2> QED
    BY <2>2 DEF OnAddr, r
<1> QED
  BY <1>3, <1>4, <1>5, <1>6, <1>7 DEF ParseElement

(* The three ways an element bears on the routes. *)
IsTag(e) == e.name = "split-tunnel-info"
IsRoute(e) == e.name = "addr" /\ ~e.closing /\ e.ip # NoValue /\ AddrPrefix(e) # NoValue

LEMMA ParseElementRoutes ==
    ASSUME NEW c \in Configs, NEW e \in Elements
    PROVE  LET d == ParseElement(c, e)
           IN  /\ IsTag(e) /\ ~e.closing =>
                     /\ d.inSplit = TRUE /\ d.negated = e.negate
                     /\ d.routes = c.routes /\ d.excludes = c.excludes
               /\ ~(IsTag(e) /\ ~e.closing) => d.inSplit = c.inSplit /\ d.negated = c.negated
               /\ IsRoute(e) /\ c.inSplit /\ c.negated =>
                     d.routes = c.routes /\ d.excludes = Append(c.excludes, Route(e))
               /\ IsRoute(e) /\ c.inSplit /\ ~c.negated =>
                     d.routes = Append(c.routes, Route(e)) /\ d.excludes = c.excludes
               /\ ~(IsRoute(e) /\ c.inSplit) => d.routes = c.routes /\ d.excludes = c.excludes
<1> DEFINE d == ParseElement(c, e)
<1>1. CASE e.closing
  <2>1. d = c
    BY <1>1 DEF ParseElement, ScannedName
  <2> HIDE DEF d
  <2> QED
    BY <1>1, <2>1 DEF d, IsTag, IsRoute
<1>2. CASE ~e.closing /\ e.name = "split-tunnel-info"
  <2>1. d = [c EXCEPT !.inSplit = TRUE, !.negated = e.negate]
    BY <1>2 DEF ParseElement, ScannedName, OnSplitStart
  <2> HIDE DEF d
  <2> QED
    BY <1>2, <2>1 DEF d, IsTag, IsRoute, Configs
<1>3. CASE ~e.closing /\ e.name = "addr"
  <2>1. d = OnAddr(c, e)
    BY <1>3 DEF ParseElement, ScannedName
  <2> HIDE DEF d
  <2>2. CASE IsRoute(e) /\ c.inSplit /\ c.negated
    <3>1. d = [c EXCEPT !.excludes = Append(@, Route(e))]
      BY <2>1, <2>2 DEF OnAddr, IsRoute, Route
    <3> QED
      BY <1>3, <2>2, <3>1 DEF d, IsTag, Configs
  <2>3. CASE IsRoute(e) /\ c.inSplit /\ ~c.negated
    <3>1. d = [c EXCEPT !.routes = Append(@, Route(e))]
      BY <2>1, <2>3 DEF OnAddr, IsRoute, Route
    <3> QED
      BY <1>3, <2>3, <3>1 DEF d, IsTag, Configs
  <2>4. CASE ~(IsRoute(e) /\ c.inSplit)
    <3>1. d = c
      BY <1>3, <2>1, <2>4 DEF OnAddr, IsRoute
    <3> QED
      BY <1>3, <2>4, <3>1 DEF d, IsTag
  <2> QED
    BY <2>2, <2>3, <2>4
<1>4. CASE ~e.closing /\ e.name \notin {"split-tunnel-info", "addr"}
  <2>1. d \in {[c EXCEPT !.idle = e.val], OnAssigned(c, e), OnDns(c, e), c}
    BY <1>4 DEF ParseElement, ScannedName, Elements
  <2> HIDE DEF d
  <2>2. d.inSplit = c.inSplit /\ d.negated = c.negated /\ d.routes = c.routes
        /\ d.excludes = c.excludes
    BY <2>1 DEF OnAssigned, OnDns, Configs
  <2> QED
    BY <1>4, <2>2 DEF d, IsTag, IsRoute
<1> QED
  BY <1>1, <1>2, <1>3, <1>4

(* What the scan knows after n elements: whether a list is open (the closing tag is
   not seen, so a closed list still counts), with the negate of the last opening
   tag, and in the lists what they enclose and at most what follows them. *)
GivenAt(doc, i, negate) ==
    /\ i \in Routable(doc)
    /\ \E j \in DOMAIN doc : LastTag(doc, i, j) /\ ~doc[j].closing /\ doc[j].negate = negate
AfterAt(doc, i) ==
    /\ i \in Routable(doc)
    /\ \E j \in DOMAIN doc : LastTag(doc, i, j) /\ doc[j].closing

Kept(doc, n, list, negate) ==
    /\ \A i \in 1 .. n : GivenAt(doc, i, negate) => Route(doc[i]) \in ToSet(list)
    /\ \A x \in ToSet(list) :
          \E i \in 1 .. n : x = Route(doc[i]) /\ (GivenAt(doc, i, negate) \/ AfterAt(doc, i))

Scanned(doc, n, c) ==
    /\ c \in Configs
    /\ c.inSplit =>
          \E k \in 1 .. n : LastTag(doc, n + 1, k)
                              /\ (doc[k].closing \/ doc[k].negate = c.negated)
    /\ ~c.inSplit => \A k \in 1 .. n : LastTag(doc, n + 1, k) => doc[k].closing
    /\ Kept(doc, n, c.routes, FALSE)
    /\ Kept(doc, n, c.excludes, TRUE)

LEMMA LastTagNext ==
    ASSUME NEW doc, NEW n \in Nat
    PROVE  /\ IsTag(doc[n + 1]) =>
                 \A k \in 1 .. n + 1 : LastTag(doc, n + 2, k) <=> k = n + 1
           /\ ~IsTag(doc[n + 1]) =>
                 \A k \in 1 .. n + 1 : LastTag(doc, n + 2, k) <=> k \in 1 .. n /\ LastTag(doc, n + 1, k)
<1>1. \A k \in 1 .. n + 1 : k < n + 2 /\ (k \in 1 .. n <=> k # n + 1) /\ (k \in 1 .. n => k < n + 1)
  OBVIOUS
<1>2. \A k \in 1 .. n + 1, i \in Int :
          i \in k + 1 .. n + 2 - 1 <=> i \in k + 1 .. n + 1 - 1 \/ (k # n + 1 /\ i = n + 1)
  OBVIOUS
<1>3. ASSUME IsTag(doc[n + 1]), NEW k \in 1 .. n + 1
      PROVE  LastTag(doc, n + 2, k) <=> k = n + 1
  BY <1>1, <1>2, <1>3 DEF LastTag, IsTag
<1>4. ASSUME ~IsTag(doc[n + 1]), NEW k \in 1 .. n + 1
      PROVE  LastTag(doc, n + 2, k) <=> k \in 1 .. n /\ LastTag(doc, n + 1, k)
  BY <1>1, <1>2, <1>4 DEF LastTag, IsTag
<1> QED
  BY <1>3, <1>4

(* There is one last tag. *)
LEMMA LastTagUnique ==
    ASSUME NEW doc, NEW i \in Nat, NEW j \in Nat, NEW k \in Nat,
           LastTag(doc, i, j), LastTag(doc, i, k)
    PROVE  j = k
<1>1. CASE j < k
  <2>1. k \in j + 1 .. i - 1
    BY <1>1 DEF LastTag
  <2> QED
    BY <2>1 DEF LastTag
<1>2. CASE k < j
  <2>1. j \in k + 1 .. i - 1
    BY <1>2 DEF LastTag
  <2> QED
    BY <2>1 DEF LastTag
<1> QED
  BY <1>1, <1>2

LEMMA ToSetAppend ==
    ASSUME NEW X, NEW s \in Seq(X), NEW x \in X
    PROVE  ToSet(Append(s, x)) = ToSet(s) \cup {x}
<1>1. /\ DOMAIN Append(s, x) = 1 .. Len(s) + 1 /\ DOMAIN s = 1 .. Len(s) /\ Len(s) \in Nat
      /\ \A i \in 1 .. Len(s) : Append(s, x)[i] = s[i]
      /\ Append(s, x)[Len(s) + 1] = x
  OBVIOUS
<1>2. 1 .. Len(s) + 1 = (1 .. Len(s)) \cup {Len(s) + 1}
  BY <1>1
<1> QED
  BY <1>1, <1>2 DEF ToSet

(* An entry joins the lists it belongs to. *)
LEMMA KeptSame ==
    ASSUME NEW doc, NEW n \in Nat, NEW list, NEW negate, Kept(doc, n, list, negate),
           ~GivenAt(doc, n + 1, negate)
    PROVE  Kept(doc, n + 1, list, negate)
<1>1. 1 .. n + 1 = (1 .. n) \cup {n + 1}
  OBVIOUS
<1> QED
  BY <1>1 DEF Kept

LEMMA KeptAppend ==
    ASSUME NEW doc, NEW n \in Nat, NEW X, NEW list \in Seq(X), Route(doc[n + 1]) \in X,
           NEW negate, Kept(doc, n, list, negate),
           GivenAt(doc, n + 1, negate) \/ AfterAt(doc, n + 1)
    PROVE  Kept(doc, n + 1, Append(list, Route(doc[n + 1])), negate)
<1>1. 1 .. n + 1 = (1 .. n) \cup {n + 1}
  OBVIOUS
<1> DEFINE u == Append(list, Route(doc[n + 1]))
<1>2. ToSet(u) = ToSet(list) \cup {Route(doc[n + 1])}
  BY ToSetAppend
<1> HIDE DEF u
<1>3. Kept(doc, n + 1, u, negate)
  BY <1>1, <1>2 DEF Kept
<1> QED
  BY <1>3 DEF u

LEMMA ScannedNext ==
    ASSUME NEW doc \in Seq(Elements), NEW n \in Nat, n + 1 <= Len(doc), NEW c, Scanned(doc, n, c)
    PROVE  Scanned(doc, n + 1, ParseElement(c, doc[n + 1]))
<1> DEFINE e == doc[n + 1]
           d == ParseElement(c, e)
<1>1. /\ c \in Configs
      /\ c.inSplit =>
            \E k \in 1 .. n : LastTag(doc, n + 1, k)
                                /\ (doc[k].closing \/ doc[k].negate = c.negated)
      /\ ~c.inSplit => \A k \in 1 .. n : LastTag(doc, n + 1, k) => doc[k].closing
      /\ Kept(doc, n, c.routes, FALSE)
      /\ Kept(doc, n, c.excludes, TRUE)
  BY DEF Scanned
<1>2. e \in Elements /\ DOMAIN doc = 1 .. Len(doc) /\ n + 1 \in DOMAIN doc
      /\ (\A k \in 1 .. n : k \in DOMAIN doc)
      /\ (\A k \in DOMAIN doc : k \in Nat)
  OBVIOUS
<1>3. d \in Configs
  BY <1>1, <1>2, ParseElementTyped
<1>4. /\ IsTag(e) /\ ~e.closing =>
           /\ d.inSplit = TRUE /\ d.negated = e.negate
           /\ d.routes = c.routes /\ d.excludes = c.excludes
      /\ ~(IsTag(e) /\ ~e.closing) => d.inSplit = c.inSplit /\ d.negated = c.negated
      /\ IsRoute(e) /\ c.inSplit /\ c.negated =>
            d.routes = c.routes /\ d.excludes = Append(c.excludes, Route(e))
      /\ IsRoute(e) /\ c.inSplit /\ ~c.negated =>
            d.routes = Append(c.routes, Route(e)) /\ d.excludes = c.excludes
      /\ ~(IsRoute(e) /\ c.inSplit) => d.routes = c.routes /\ d.excludes = c.excludes
  BY <1>1, <1>2, ParseElementRoutes
<1>5. n + 1 \in Routable(doc) <=> IsRoute(e)
  BY <1>2 DEF Routable, IsRoute
<1> HIDE DEF d
<1>6. /\ d.inSplit =>
            \E k \in 1 .. n + 1 : LastTag(doc, n + 2, k)
                                    /\ (doc[k].closing \/ doc[k].negate = d.negated)
      /\ ~d.inSplit => \A k \in 1 .. n + 1 : LastTag(doc, n + 2, k) => doc[k].closing
  <2>1. CASE IsTag(e)
    <3>1. \A k \in 1 .. n + 1 : LastTag(doc, n + 2, k) <=> k = n + 1
      BY <2>1, LastTagNext
    <3>2. n + 1 \in 1 .. n + 1
      OBVIOUS
    <3> QED
      BY <1>4, <2>1, <3>1, <3>2
  <2>2. CASE ~IsTag(e)
    <3>1. \A k \in 1 .. n + 1 : LastTag(doc, n + 2, k) <=> k \in 1 .. n /\ LastTag(doc, n + 1, k)
      BY <2>2, LastTagNext
    <3>2. \A k \in 1 .. n : k \in 1 .. n + 1
      OBVIOUS
    <3>3. d.inSplit = c.inSplit /\ d.negated = c.negated
      BY <1>4, <2>2
    <3> QED
      BY <1>1, <3>1, <3>2, <3>3
  <2> QED
    BY <2>1, <2>2
<1>7. Kept(doc, n + 1, d.routes, FALSE) /\ Kept(doc, n + 1, d.excludes, TRUE)
  <2>1. CASE ~IsRoute(e)
    <3>1. \A b \in BOOLEAN : ~GivenAt(doc, n + 1, b)
      BY <1>5, <2>1 DEF GivenAt
    <3>2. d.routes = c.routes /\ d.excludes = c.excludes
      BY <1>4, <2>1
    <3> QED
      BY <1>1, <3>1, <3>2, KeptSame
  <2>2. CASE IsRoute(e) /\ ~c.inSplit
    <3>1. ASSUME NEW b \in BOOLEAN PROVE ~GivenAt(doc, n + 1, b)
      <4>1. \A j \in DOMAIN doc : LastTag(doc, n + 1, j) => j \in 1 .. n
        BY <1>2 DEF LastTag
      <4> QED
        BY <1>1, <2>2, <4>1 DEF GivenAt
    <3>2. d.routes = c.routes /\ d.excludes = c.excludes
      BY <1>4, <2>2
    <3> QED
      BY <1>1, <3>1, <3>2, KeptSame
  <2>3. CASE IsRoute(e) /\ c.inSplit
    <3>1. PICK k \in 1 .. n : LastTag(doc, n + 1, k)
                                /\ (doc[k].closing \/ doc[k].negate = c.negated)
      BY <1>1, <2>3
    <3>2. \A j \in DOMAIN doc : LastTag(doc, n + 1, j) => j = k
      BY <1>2, <3>1, LastTagUnique
    <3>3. k \in DOMAIN doc
      BY <1>2
    <3>4. Route(e) \in RouteValues /\ c.routes \in Seq(RouteValues) /\ c.excludes \in Seq(RouteValues)
      BY <1>1, <1>2 DEF Configs, RouteValues
    <3>5. CASE c.negated
      <4>1. ~GivenAt(doc, n + 1, FALSE)
        BY <3>1, <3>2, <3>5 DEF GivenAt
      <4>2. GivenAt(doc, n + 1, TRUE) \/ AfterAt(doc, n + 1)
        BY <1>1, <1>5, <2>3, <3>1, <3>3, <3>5 DEF GivenAt, AfterAt, Configs
      <4>3. d.routes = c.routes /\ d.excludes = Append(c.excludes, Route(e))
        BY <1>4, <2>3, <3>5
      <4>4. Kept(doc, n + 1, c.routes, FALSE)
        BY <1>1, <4>1, KeptSame
      <4>5. Kept(doc, n + 1, Append(c.excludes, Route(e)), TRUE)
        BY <1>1, <3>4, <4>2, KeptAppend
      <4> QED
        BY <4>3, <4>4, <4>5
    <3>6. CASE ~c.negated
      <4>1. ~GivenAt(doc, n + 1, TRUE)
        BY <3>1, <3>2, <3>6 DEF GivenAt
      <4>2. GivenAt(doc, n + 1, FALSE) \/ AfterAt(doc, n + 1)
        BY <1>1, <1>5, <2>3, <3>1, <3>3, <3>6 DEF GivenAt, AfterAt, Configs
      <4>3. d.excludes = c.excludes /\ d.routes = Append(c.routes, Route(e))
        BY <1>4, <2>3, <3>6
      <4>4. Kept(doc, n + 1, c.excludes, TRUE)
        BY <1>1, <4>1, KeptSame
      <4>5. Kept(doc, n + 1, Append(c.routes, Route(e)), FALSE)
        BY <1>1, <3>4, <4>2, KeptAppend
      <4> QED
        BY <4>3, <4>4, <4>5
    <3> QED
      BY <3>5, <3>6
  <2> QED
    BY <2>1, <2>2, <2>3
<1>8. (n + 1) + 1 = n + 2
  OBVIOUS
<1>9. Scanned(doc, n + 1, d)
  BY <1>3, <1>6, <1>7, <1>8 DEF Scanned
<1> QED
  BY <1>9 DEF d

(* The routes and the exclusions of a document: every entry that a list encloses,
   by its negate, and beyond these only entries that follow the end of a list.
   What parse_config_xml returns, for every document. *)
THEOREM ParseConfigSound ==
    ASSUME NEW doc \in Seq(Elements)
    PROVE  LET c == ParseConfig(doc)
           IN  /\ c \in Configs
               /\ RoutesGiven(doc, FALSE) \subseteq ToSet(c.routes)
               /\ ToSet(c.routes) \subseteq RoutesGiven(doc, FALSE) \cup RoutesAfter(doc)
               /\ RoutesGiven(doc, TRUE) \subseteq ToSet(c.excludes)
               /\ ToSet(c.excludes) \subseteq RoutesGiven(doc, TRUE) \cup RoutesAfter(doc)
<1>1. PICK g : ParseEquation(g, doc, Len(doc)) /\ ParseConfig(doc) = g[Len(doc)]
  BY ParseDef
<1> DEFINE S == {n \in Nat : n <= Len(doc) => Scanned(doc, n, g[n])}
           c == ParseConfig(doc)
<1>2. 0 \in S
  <2>1. g[0] = EmptyConfig
    BY <1>1 DEF ParseEquation
  <2>2. EmptyConfig \in Configs
    BY DEF EmptyConfig, Configs, NoValue
  <2>3. \A b \in BOOLEAN : Kept(doc, 0, <<>>, b)
    BY DEF Kept, ToSet
  <2>4. ~EmptyConfig.inSplit /\ EmptyConfig.routes = <<>> /\ EmptyConfig.excludes = <<>>
    BY DEF EmptyConfig
  <2>5. Scanned(doc, 0, EmptyConfig)
    <3> DEFINE c0 == EmptyConfig
    <3>1. c0 \in Configs /\ ~c0.inSplit /\ 1 .. 0 = {}
      BY <2>2, <2>4
    <3>2. Kept(doc, 0, c0.routes, FALSE) /\ Kept(doc, 0, c0.excludes, TRUE)
      BY <2>3, <2>4
    <3> HIDE DEF c0
    <3>3. Scanned(doc, 0, c0)
      BY <3>1, <3>2 DEF Scanned
    <3> QED
      BY <3>3 DEF c0
  <2> QED
    BY <2>1, <2>5
<1>3. ASSUME NEW n \in Nat, n \in S PROVE n + 1 \in S
  <2>1. CASE n + 1 <= Len(doc)
    <3>1. Scanned(doc, n, g[n])
      BY <1>3, <2>1
    <3>2. g[n + 1] = ParseElement(g[n], doc[n + 1])
      BY <1>1, <2>1 DEF ParseEquation
    <3>3. Scanned(doc, n + 1, g[n + 1])
      BY <2>1, <3>1, <3>2, ScannedNext
    <3> QED
      BY <3>3
  <2>2. CASE ~(n + 1 <= Len(doc))
    BY <2>2
  <2> QED
    BY <2>1, <2>2
<1>4. \A n \in Nat : n \in S
  <2> HIDE DEF S
  <2> QED
    BY <1>2, <1>3, Ind
<1>5. Scanned(doc, Len(doc), c)
  BY <1>1, <1>4
<1> HIDE DEF c
<1>6. Kept(doc, Len(doc), c.routes, FALSE) /\ Kept(doc, Len(doc), c.excludes, TRUE) /\ c \in Configs
  BY <1>5 DEF Scanned
<1>7. DOMAIN doc = 1 .. Len(doc)
  OBVIOUS
<1>8. ASSUME NEW list, NEW b, Kept(doc, Len(doc), list, b)
      PROVE  /\ RoutesGiven(doc, b) \subseteq ToSet(list)
             /\ ToSet(list) \subseteq RoutesGiven(doc, b) \cup RoutesAfter(doc)
  <2>1. RoutesGiven(doc, b) = {Route(doc[i]) : i \in {i \in 1 .. Len(doc) : GivenAt(doc, i, b)}}
    BY <1>7 DEF RoutesGiven, GivenAt, Routable
  <2>2. RoutesAfter(doc) = {Route(doc[i]) : i \in {i \in 1 .. Len(doc) : AfterAt(doc, i)}}
    BY <1>7 DEF RoutesAfter, AfterAt, Routable
  <2> QED
    BY <1>8, <2>1, <2>2 DEF Kept
<1> QED
  BY <1>6, <1>8 DEF c
===============================================================================
