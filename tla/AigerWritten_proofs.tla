------------------------ MODULE AigerWritten_proofs ------------------------
(***************************************************************************)
(* What aiger.c writes it reads again, continued from AigerTools_proofs:   *)
(* deltas in words of any width, and graphs in both formats.               *)
(***************************************************************************)
EXTENDS AigerTools_proofs

(***************************************************************************)
(* Bits and powers of two.                                                 *)
(***************************************************************************)
\* Quotients by their bounds.
LEMMA DivUnique ==
    ASSUME NEW n \in Nat, NEW d \in Nat \ {0}, NEW q \in Nat, NEW r \in Nat, r < d, n = q * d + r
    PROVE  n \div d = q /\ n % d = r
  OBVIOUS

\* A quotient and its remainder.
LEMMA DivParts ==
    ASSUME NEW n \in Nat, NEW d \in Nat \ {0}
    PROVE  n \div d \in Nat /\ n % d \in Nat /\ n % d < d /\ n = (n \div d) * d + (n % d)
  OBVIOUS

\* A quotient is small when the number is.
LEMMA DivLess ==
    ASSUME NEW n \in Nat \ {0}, NEW d \in Nat, d > 1
    PROVE  n \div d \in Nat /\ n \div d < n
  OBVIOUS

\* A multiple is small when the number is.
LEMMA TimesLess ==
    ASSUME NEW a \in Nat, NEW b \in Nat, NEW c \in Nat, NEW r \in Nat, a < b, r < c
    PROVE  a * c + r < b * c
  OBVIOUS

\* A multiple is large when the number is.
LEMMA LessTimes ==
    ASSUME NEW a \in Nat, NEW b \in Nat, NEW c \in Nat \ {0}, a * c < b * c
    PROVE  a < b
  OBVIOUS

\* Quotients of quotients.
LEMMA DivDiv ==
    ASSUME NEW n \in Nat, NEW d \in Nat \ {0}, NEW e \in Nat \ {0}
    PROVE  (n \div d) \div e = n \div (d * e)
  OBVIOUS

\* One bit more.
LEMMA ModDouble ==
    ASSUME NEW n \in Nat, NEW p \in Nat \ {0}
    PROVE  n % (2 * p) = (n % p) + (IF (n \div p) % 2 = 1 THEN p ELSE 0)
  <1> DEFINE q == n \div p
             r == n % p
             u == q \div 2
             s == q % 2
             t == IF s = 1 THEN p ELSE 0
  <1>1. q \in Nat /\ r \in Nat /\ r < p /\ n = q * p + r
    BY DivParts
  <1> HIDE DEF q, r
  <1>2. u \in Nat /\ s \in {0, 1} /\ q = 2 * u + s
    BY <1>1
  <1> HIDE DEF u, s
  <1>3. t \in Nat /\ t + r < 2 * p /\ q * p = u * (2 * p) + t
    <2>1. CASE s = 1
      <3>1. t = p /\ q = 2 * u + 1
        BY <1>2, <2>1
      <3>2. q * p = u * (2 * p) + p
        BY <1>2, <3>1
      <3> QED
        BY <1>1, <3>1, <3>2
    <2>2. CASE s = 0
      <3>1. t = 0 /\ q = 2 * u
        BY <1>2, <2>2
      <3>2. q * p = u * (2 * p)
        BY <1>2, <3>1
      <3> QED
        BY <1>1, <3>1, <3>2
    <2> QED
      BY <1>2, <2>1, <2>2
  <1> HIDE DEF t
  <1>4. n % (2 * p) = t + r
    <2> DEFINE d == 2 * p
               m == t + r
    <2>1. d \in Nat \ {0} /\ m \in Nat /\ m < d
      BY <1>1, <1>3
    <2>2. n = u * d + m
      <3> DEFINE e == q * p
                 f == u * (2 * p)
      <3>1. e \in Nat /\ f \in Nat /\ n = e + r /\ e = f + t
        BY <1>1, <1>2, <1>3
      <3> HIDE DEF e, f
      <3>2. n = f + (t + r)
        BY <1>1, <1>3, <3>1
      <3> QED
        BY <3>2 DEF f
    <2> HIDE DEF d, m
    <2>3. n % d = m
      BY <1>2, <2>1, <2>2, DivUnique
    <2> QED
      BY <2>3 DEF d, m
  <1> QED
    BY <1>1, <1>3, <1>4 DEF r, t, s, q

\* The power of a sum.
LEMMA PowerAdds ==
    ASSUME NEW j \in Nat, NEW k \in Nat, j + k <= WordBits
    PROVE  Power[j + k] = Power[j] * Power[k]
  <1> DEFINE T == {m \in Nat : j + m <= WordBits => Power[j + m] = Power[j] * Power[m]}
  <1>1. 0 \in T
    <2>1. j + 0 = j /\ (j <= WordBits => Power[j] \in Nat)
      BY PowerIs
    <2> QED
      BY <2>1, PowerIs
  <1>2. ASSUME NEW m \in Nat, m \in T PROVE m + 1 \in T
    <2> SUFFICES ASSUME j + (m + 1) <= WordBits PROVE Power[j + (m + 1)] = Power[j] * Power[m + 1]
      OBVIOUS
    <2> DEFINE P == Power[j]
               Q == Power[m]
               R == Power[j + m]
    <2>1. P \in Nat /\ Q \in Nat /\ R \in Nat
      BY PowerIs
    <2>2. Power[m + 1] = 2 * Q
      BY PowerIs
    <2>3. Power[j + (m + 1)] = 2 * R
      <3>1. j + (m + 1) \in 1..WordBits /\ (j + (m + 1)) - 1 = j + m
        BY PowerIs
      <3> QED
        BY <3>1, PowerIs
    <2>4. R = P * Q
      BY <1>2, PowerIs
    <2> HIDE DEF P, Q, R
    <2> QED
      BY <2>1, <2>2, <2>3, <2>4 DEF P
  <1> HIDE DEF T
  <1>3. Nat \subseteq T
    BY <1>1, <1>2, InductionOnNat
  <1> QED
    BY <1>3 DEF T

\* A power is even but for the first, and less than those of larger exponents.
LEMMA PowerDoubles ==
    ASSUME NEW k \in 1..WordBits
    PROVE  Power[k - 1] \in Nat \ {0} /\ Power[k] = 2 * Power[k - 1]
  BY PowerIs

\* Larger exponents have larger powers.
LEMMA PowerGrows ==
    ASSUME NEW j \in Nat, NEW k \in Nat, j <= k, k <= WordBits
    PROVE  Power[j] <= Power[k]
  <1>1. k - j \in Nat /\ j + (k - j) = k /\ Power[j] \in Nat \ {0} /\ Power[k - j] \in Nat \ {0}
    BY PowerIs
  <1>2. Power[k] = Power[j] * Power[k - j]
    BY <1>1, PowerAdds
  <1> DEFINE P == Power[j]
             Q == Power[k - j]
  <1> HIDE DEF P, Q
  <1>3. P <= P * Q
    BY <1>1 DEF P, Q
  <1> QED
    BY <1>2, <1>3 DEF P, Q

(***************************************************************************)
(* The code of a delta.                                                    *)
(***************************************************************************)
\* The bits that the group i of a code is shifted by.
Shift(i) == GroupBits * (i - 1)

\* How far the groups of a delta are shifted.
LEMMA ShiftIs ==
    /\ Shift(1) = 0
    /\ \A i \in Nat \ {0} : Shift(i) \in Nat /\ Shift(i + 1) = Shift(i) + GroupBits
  <1>1. GroupBits \in Nat
    BY WordAssumption
  <1>2. Shift(1) = 0
    BY <1>1 DEF Shift
  <1>3. ASSUME NEW i \in Nat \ {0} PROVE Shift(i) \in Nat /\ Shift(i + 1) = Shift(i) + GroupBits
    <2>1. GroupBits * (i - 1) \in Nat /\ GroupBits * ((i + 1) - 1) = GroupBits * (i - 1) + GroupBits
      BY <1>1
    <2> QED
      BY <2>1 DEF Shift
  <1> QED
    BY <1>2, <1>3

\* A group further on is shifted further.
LEMMA ShiftGrows ==
    ASSUME NEW i \in Nat \ {0}, NEW j \in Nat \ {0}, i <= j
    PROVE  Shift(i) <= Shift(j)
  <1>1. GroupBits \in Nat
    BY WordAssumption
  <1>2. GroupBits * (i - 1) <= GroupBits * (j - 1)
    BY <1>1
  <1> QED
    BY <1>2 DEF Shift

\* A code has as many groups as the bits of n need, and they are the bits of n.
GroupsEnough(n, groups) ==
    /\ groups \in Seq(Nat) /\ Len(groups) \in Nat \ {0}
    /\ \A w \in 1..WordBits : n < Power[w] => Shift(Len(groups)) < w
GroupsAre(n, groups) ==
    n < Word =>
      \A i \in 1..Len(groups) :
        /\ groups[i] = (n \div Power[Shift(i)]) % Group
        /\ i = Len(groups) => n \div Power[Shift(i)] < Group

\* What is smaller than a group is written as one.
LEMMA GroupOfOne ==
    ASSUME NEW n \in Nat, n < Group
    PROVE  GroupsEnough(n, <<n>>) /\ GroupsAre(n, <<n>>)
  <1>1. Shift(1) = 0 /\ Power[0] = 1 /\ Group \in Nat
    BY ShiftIs, PowerIs, WordIs
  <1>2. <<n>> \in Seq(Nat) /\ Len(<<n>>) = 1 /\ <<n>>[1] = n
    OBVIOUS
  <1>3. n \div 1 = n /\ n % Group = n
    BY <1>1
  <1>4. GroupsEnough(n, <<n>>)
    BY <1>1, <1>2, PowerIs DEF GroupsEnough
  <1> DEFINE c == <<n>>
  <1>5. Len(c) = 1 /\ c[1] = n
    BY <1>2
  <1> HIDE DEF c
  <1>6. GroupsAre(n, c)
    BY <1>1, <1>3, <1>5 DEF GroupsAre
  <1> QED
    BY <1>4, <1>6 DEF c

\* What is written as several groups leaves one that needs a group less.
LEMMA GroupMoreEnough ==
    ASSUME NEW n \in Nat, n >= Group, NEW d, GroupsEnough(n \div Group, d)
    PROVE  GroupsEnough(n, <<n % Group>> \o d)
  <1> DEFINE q == n \div Group
             r == n % Group
             c == <<r>> \o d
  <1>1. Group \in Nat \ {0} /\ GroupBits \in Nat \ {0} /\ GroupBits <= WordBits /\ WordBits \in Nat
        /\ Group = Power[GroupBits]
    BY WordIs, WordAssumption DEF Group
  <1>2. q \in Nat /\ r \in Nat /\ n = q * Group + r
    BY <1>1, DivParts
  <1>3. d \in Seq(Nat) /\ Len(d) \in Nat \ {0} /\ \A w \in 1..WordBits : q < Power[w] => Shift(Len(d)) < w
    BY DEF GroupsEnough
  <1> HIDE DEF q, r
  <1>4. c \in Seq(Nat) /\ Len(c) = Len(d) + 1
    <2>1. <<r>> \in Seq(Nat) /\ Len(<<r>>) = 1
      BY <1>2
    <2> QED
      BY <1>3, <2>1, ConcatProperties
  <1>5. ASSUME NEW w \in 1..WordBits, n < Power[w] PROVE Shift(Len(c)) < w
    <2>1. w > GroupBits
      <3> SUFFICES ASSUME w <= GroupBits PROVE FALSE
        BY <1>1
      <3>1. Power[w] <= Power[GroupBits] /\ Power[w] \in Nat
        BY <1>1, PowerGrows, PowerIs
      <3> QED
        BY <1>1, <1>5, <3>1
    <2> DEFINE v == w - GroupBits
               P == Power[v]
    <2>2. v \in 1..WordBits /\ v + GroupBits = w
      BY <1>1, <2>1
    <2>3. P \in Nat \ {0} /\ Power[w] = P * Group
      <3>1. v \in Nat /\ GroupBits \in Nat /\ v + GroupBits <= WordBits /\ v \in 0..WordBits
        BY <1>1, <2>2
      <3> HIDE DEF v
      <3>2. Power[v + GroupBits] = Power[v] * Power[GroupBits]
        BY <3>1, PowerAdds
      <3> QED
        BY <1>1, <2>2, <3>1, <3>2, PowerIs
    <2>4. q * Group < P * Group
      <3> DEFINE e == q * Group
      <3>1. e \in Nat /\ n = e + r
        BY <1>1, <1>2
      <3> DEFINE f == P * Group
      <3>2. n < f /\ f \in Nat
        BY <1>1, <1>5, <2>3
      <3> HIDE DEF e, f
      <3>3. e < f
        BY <1>2, <3>1, <3>2
      <3> QED
        BY <3>3 DEF e, f
    <2> HIDE DEF P, v
    <2>5. q < P
      BY <1>1, <1>2, <2>3, <2>4, LessTimes
    <2>6. Shift(Len(d)) < v
      BY <1>3, <2>2, <2>5 DEF P
    <2>7. Shift(Len(c)) = Shift(Len(d)) + GroupBits /\ Shift(Len(d)) \in Nat
      BY <1>3, <1>4, ShiftIs
    <2> QED
      BY <1>1, <2>2, <2>6, <2>7
  <1>6. GroupsEnough(n, c)
    BY <1>3, <1>4, <1>5 DEF GroupsEnough
  <1> QED
    BY <1>6 DEF r

\* What follows the first group is the code of the quotient.
LEMMA GroupMoreIs ==
    ASSUME NEW n \in Nat, n >= Group, NEW d, GroupsEnough(n \div Group, d), GroupsAre(n \div Group, d)
    PROVE  GroupsAre(n, <<n % Group>> \o d)
  <1> DEFINE q == n \div Group
             r == n % Group
             c == <<r>> \o d
             L == Len(c)
  <1>1. Group \in Nat \ {0} /\ Group > 1 /\ GroupBits \in Nat \ {0} /\ WordBits \in Nat \ {0}
        /\ Group = Power[GroupBits] /\ Word = Power[WordBits] /\ Word \in Nat
    BY WordIs, WordAssumption DEF Group, Word
  <1>2. q \in Nat /\ r \in Nat /\ q <= n
    BY <1>1, DivParts
  <1>3. d \in Seq(Nat) /\ Len(d) \in Nat \ {0}
    BY DEF GroupsEnough
  <1>4. GroupsEnough(n, c)
    BY GroupMoreEnough
  <1> HIDE DEF r
  <1>5. L = Len(d) + 1 /\ c[1] = r /\ \A i \in 1..Len(d) : c[i + 1] = d[i]
    <2>1. <<r>> \in Seq(Nat) /\ Len(<<r>>) = 1 /\ <<r>>[1] = r
      BY <1>2
    <2> QED
      BY <1>3, <2>1, ConcatProperties
  <1> HIDE DEF c, L
  <1> SUFFICES ASSUME n < Word PROVE GroupsAre(n, c)
    BY DEF GroupsAre, c, r
  <1>6. Shift(L) < WordBits
    BY <1>1, <1>4 DEF GroupsEnough, L
  <1>7. ASSUME NEW i \in 1..L
        PROVE  c[i] = (n \div Power[Shift(i)]) % Group /\ (i = L => n \div Power[Shift(i)] < Group)
    <2>1. CASE i = 1
      <3>1. Power[Shift(i)] = 1 /\ i # L
        <4>1. Shift(i) = 0
          BY <2>1, ShiftIs
        <4> QED
          BY <1>3, <1>5, <2>1, <4>1, PowerIs
      <3>2. n \div 1 = n
        OBVIOUS
      <3> QED
        BY <1>5, <2>1, <3>1, <3>2 DEF r
    <2>2. CASE i # 1
      <3> DEFINE j == i - 1
      <3>1. j \in 1..Len(d) /\ j \in Nat \ {0} /\ i = j + 1 /\ i \in Nat \ {0} /\ L \in Nat \ {0} /\ i <= L
        BY <1>3, <1>5, <2>2
      <3> HIDE DEF j
      <3>2. Shift(i) = Shift(j) + GroupBits /\ Shift(j) \in Nat /\ Shift(i) < WordBits /\ Shift(i) \in Nat
        <4>1. Shift(i) <= Shift(L) /\ Shift(i) \in Nat /\ Shift(L) \in Nat
          BY <3>1, ShiftGrows, ShiftIs
        <4> QED
          BY <1>1, <1>6, <3>1, <4>1, ShiftIs
      <3>3. Power[Shift(i)] = Power[GroupBits] * Power[Shift(j)] /\ Power[Shift(j)] \in Nat \ {0}
        <4>1. GroupBits + Shift(j) = Shift(i)
          BY <1>1, <3>2
        <4>2. GroupBits + Shift(j) <= WordBits /\ Shift(j) \in 0..WordBits
          BY <1>1, <3>2
        <4> QED
          BY <1>1, <3>2, <4>1, <4>2, PowerAdds, PowerIs
      <3>4. q \div Power[Shift(j)] = n \div Power[Shift(i)]
        BY <1>1, <3>3, DivDiv
      <3>5. d[j] = (q \div Power[Shift(j)]) % Group /\ (j = Len(d) => q \div Power[Shift(j)] < Group)
        <4>1. q < Word
          BY <1>1, <1>2
        <4> QED
          BY <3>1, <4>1 DEF GroupsAre
      <3> HIDE DEF q
      <3>6. c[i] = d[j] /\ (i = L <=> j = Len(d))
        BY <1>3, <1>5, <3>1
      <3> QED
        BY <3>4, <3>5, <3>6
    <2> QED
      BY <2>1, <2>2
  <1> QED
    BY <1>7 DEF GroupsAre, L

\* The groups of a delta: its digits, from the lowest, and the last is not zero but for a single one.
LEMMA WriteDeltaGroups ==
    ASSUME NEW delta \in Nat
    PROVE  GroupsEnough(delta, WriteDelta(delta)) /\ GroupsAre(delta, WriteDelta(delta))
  <1>1. PICK codes \in [0..delta -> Seq(Nat)] :
          /\ WriteDelta(delta) = codes[delta]
          /\ \A k \in 0..delta :
               codes[k] = IF k < Group THEN <<k>> ELSE <<k % Group>> \o codes[k \div Group]
    BY WriteDeltaRecursion
  <1> DEFINE Good(k) == GroupsEnough(k, codes[k]) /\ GroupsAre(k, codes[k])
             bad == {k \in 0..delta : ~Good(k)}
  <1>2. Group \in Nat /\ Group > 1
    BY WordIs
  <1>3. bad = {}
    <2> SUFFICES ASSUME bad # {} PROVE FALSE
      OBVIOUS
    <2>1. PICK m \in bad : \A k \in bad : m <= k
      <3>1. bad \in SUBSET Nat
        OBVIOUS
      <3> HIDE DEF bad
      <3> QED
        BY <3>1, LeastNatural
    <2>2. m \in 0..delta /\ ~Good(m)
      OBVIOUS
    <2> HIDE DEF Good, bad
    <2>5. m \in Nat /\ m <= delta
      BY <2>2
    <2>3. CASE m < Group
      <3>1. codes[m] = <<m>> /\ m \in Nat
        BY <1>1, <2>2, <2>3, <2>5
      <3> QED
        BY <2>2, <2>3, <3>1, GroupOfOne DEF Good
    <2>4. CASE ~(m < Group)
      <3>1. m \div Group \in 0..delta /\ m \div Group < m /\ m >= Group /\ m \in Nat
        <4>1. m >= Group
          BY <1>2, <2>5, <2>4
        <4>2. m \in Nat \ {0}
          BY <1>2, <2>5, <4>1
        <4>3. m \div Group \in Nat /\ m \div Group < m
          BY <1>2, <4>2, DivLess, Zenon
        <4> QED
          BY <2>5, <4>1, <4>3
      <3>2. Good(m \div Group)
        BY <2>1, <2>2, <3>1 DEF bad
      <3>3. codes[m] = <<m % Group>> \o codes[m \div Group]
        BY <1>1, <2>2, <2>4
      <3> QED
        BY <2>2, <3>1, <3>2, <3>3, GroupMoreEnough, GroupMoreIs DEF Good
    <2> QED
      BY <2>3, <2>4
  <1>4. Good(delta)
    <2> HIDE DEF Good
    <2>1. delta \in 0..delta
      OBVIOUS
    <2> QED
      BY <1>3, <2>1
  <1> QED
    BY <1>1, <1>4

(***************************************************************************)
(* What is read from the code of a delta.                                  *)
(***************************************************************************)
\* A group g is shifted by s bits into its place in a number of the word.
LEMMA BitBelow ==
    ASSUME NEW g \in Nat, NEW s \in 0..WordBits, NEW k \in 0..WordBits, k < s
    PROVE  ((g * Power[s]) \div Power[k]) % 2 = 0
  <1> DEFINE m == s - k
             P == Power[k]
             Q == Power[m - 1]
  <1>1. m \in 1..WordBits /\ k \in Nat /\ m \in Nat /\ k + m = s /\ k + m <= WordBits
    BY PowerIs
  <1> HIDE DEF m
  <1>2. P \in Nat \ {0} /\ Q \in Nat \ {0} /\ Power[m] = 2 * Q
    BY <1>1, PowerIs
  <1>3. Power[s] = P * Power[m]
    BY <1>1, PowerAdds
  <1> HIDE DEF P, Q
  <1>4. g * Power[s] = (g * (2 * Q)) * P + 0
    BY <1>2, <1>3
  <1> DEFINE q == g * (2 * Q)
  <1>5. q \in Nat /\ q % 2 = 0
    BY <1>2
  <1>6. (g * Power[s]) \div P = q
    <2> DEFINE n == g * Power[s]
    <2>1. n \in Nat /\ n = q * P + 0
      BY <1>2, <1>4, <1>5
    <2> HIDE DEF n, q
    <2>2. n \div P = q
      BY <1>2, <1>5, <2>1, DivUnique
    <2> QED
      BY <2>2 DEF n
  <1> QED
    BY <1>5, <1>6 DEF P

\* Bits above the group.
LEMMA BitAbove ==
    ASSUME NEW g \in Nat, NEW s \in 0..WordBits, NEW k \in 0..WordBits, s <= k
    PROVE  (g * Power[s]) \div Power[k] = g \div Power[k - s]
  <1> DEFINE S == Power[s]
             P == Power[k - s]
  <1>1. k - s \in 0..WordBits /\ k - s \in Nat /\ s \in Nat /\ (k - s) + s = k /\ k <= WordBits
    BY PowerIs
  <1>2. S \in Nat \ {0} /\ P \in Nat \ {0} /\ Power[k] = P * S
    BY <1>1, PowerAdds, PowerIs
  <1> HIDE DEF S, P
  <1> DEFINE q == g \div P
             r == g % P
  <1>3. q \in Nat /\ r \in Nat /\ r < P /\ g = q * P + r
    BY <1>2, DivParts
  <1> HIDE DEF q, r
  <1> DEFINE n == g * S
             d == P * S
             t == r * S
  <1>4. n \in Nat /\ d \in Nat \ {0} /\ t \in Nat /\ t < d
    BY <1>2, <1>3
  <1>5. n = q * d + t
    BY <1>2, <1>3
  <1> HIDE DEF n, d, t
  <1>6. n \div d = q
    BY <1>3, <1>4, <1>5, DivUnique
  <1> QED
    BY <1>2, <1>6 DEF n, d, q, P, S

\* The bits of a group are those of the number it is the rest of.
LEMMA BitOfGroup ==
    ASSUME NEW u \in Nat, NEW m \in Nat, m < GroupBits
    PROVE  ((u % Group) \div Power[m]) % 2 = (u \div Power[m]) % 2
  <1> DEFINE P == Power[m]
             H == Power[(GroupBits - m) - 1]
             v == u \div Group
             g == u % Group
             q == g \div P
             r == g % P
  <1>1. /\ GroupBits \in Nat /\ GroupBits <= WordBits /\ WordBits \in Nat /\ Group \in Nat \ {0}
        /\ Group = Power[GroupBits] /\ m \in 0..WordBits
    BY WordIs, WordAssumption DEF Group
  <1>2. P \in Nat \ {0} /\ H \in Nat \ {0} /\ Power[GroupBits - m] = 2 * H
    <2>1. GroupBits - m \in 1..WordBits
      BY <1>1
    <2> QED
      BY <1>1, <2>1, PowerIs, PowerDoubles
  <1>3. Group = P * Power[GroupBits - m]
    <2>1. GroupBits - m \in Nat /\ m + (GroupBits - m) = GroupBits
      BY <1>1
    <2> QED
      BY <1>1, <2>1, PowerAdds
  <1> HIDE DEF P, H
  <1>4. v \in Nat /\ g \in Nat /\ u = v * Group + g
    BY <1>1, DivParts
  <1> HIDE DEF v, g
  <1>5. q \in Nat /\ r \in Nat /\ r < P /\ g = q * P + r
    BY <1>2, <1>4, DivParts
  <1> HIDE DEF q, r
  <1> DEFINE w == v * (2 * H) + q
  <1>6. w \in Nat /\ w % 2 = q % 2
    BY <1>2, <1>4, <1>5
  <1>7. u = w * P + r
    BY <1>2, <1>3, <1>4, <1>5
  <1> HIDE DEF w
  <1>8. u \div P = w
    BY <1>2, <1>5, <1>6, <1>7, DivUnique
  <1> QED
    BY <1>6, <1>8 DEF q, g, P

\* There are none beyond the word.
LEMMA BitBeyond ==
    ASSUME NEW n \in Nat, NEW k \in 0..WordBits, n < Power[k]
    PROVE  (n \div Power[k]) % 2 = 0
  <1> DEFINE P == Power[k]
  <1>1. P \in Nat \ {0} /\ n < P
    BY PowerIs
  <1> HIDE DEF P
  <1>2. n = 0 * P + n
    BY <1>1
  <1>3. n \div P = 0
    BY <1>1, <1>2, DivUnique
  <1> QED
    BY <1>3 DEF P

\* What group i of the code of a delta brings into the word.
LEMMA ShiftedIs ==
    ASSUME NEW delta \in Nat, delta < Word, NEW i \in 1..Len(WriteDelta(delta))
    PROVE  /\ Shift(i) \in Nat /\ Shift(i) < WordBits
           /\ Shifted(WriteDelta(delta)[i], i - 1)
                = ((delta \div Power[Shift(i)]) % Group) * Power[Shift(i)]
  <1> DEFINE c == WriteDelta(delta)
             s == Shift(i)
             P == Power[s]
             u == delta \div P
             g == u % Group
  <1>1. /\ Word \in Nat \ {0} /\ Group \in Nat \ {0} /\ WordBits \in Nat \ {0}
        /\ Word = Power[WordBits]
    BY WordIs, WordAssumption DEF Word
  <1>2. GroupsEnough(delta, c) /\ GroupsAre(delta, c)
    BY WriteDeltaGroups
  <1>3. Len(c) \in Nat \ {0} /\ i \in Nat \ {0} /\ i <= Len(c) /\ c[i] = g
    BY <1>2 DEF GroupsEnough, GroupsAre
  <1>4. Shift(Len(c)) < WordBits
    BY <1>1, <1>2 DEF GroupsEnough
  <1>5. s \in Nat /\ s < WordBits
    <2>1. Shift(i) <= Shift(Len(c)) /\ Shift(i) \in Nat /\ Shift(Len(c)) \in Nat
      BY <1>3, ShiftGrows, ShiftIs
    <2> QED
      BY <1>1, <1>4, <2>1
  <1>6. Shifted(c[i], i - 1) = (g * Power[s % WordBits]) % Word
    BY <1>3 DEF Shifted, Shift
  <1>7. s % WordBits = s
    BY <1>1, <1>5
  <1> HIDE DEF s, c
  <1>8. P \in Nat \ {0}
    BY <1>1, <1>5, PowerIs
  <1> HIDE DEF P
  <1>9. u \in Nat /\ u * P <= delta
    <2> DEFINE r == delta % P
               e == u * P
    <2>1. u \in Nat /\ r \in Nat /\ delta = e + r
      BY <1>8, DivParts
    <2>2. e \in Nat
      BY <1>8, <2>1
    <2> HIDE DEF e, r
    <2>3. e <= delta
      BY <2>1, <2>2
    <2> QED
      BY <2>1, <2>3 DEF e
  <1> HIDE DEF u
  <1>10. g \in Nat /\ g <= u
    BY <1>1, <1>9, DivParts
  <1> HIDE DEF g
  <1>11. g * P \in Nat /\ g * P <= u * P /\ u * P \in Nat
    BY <1>8, <1>9, <1>10
  <1>12. (g * P) % Word = g * P
    <2> DEFINE e == g * P
               f == u * P
    <2>1. e \in Nat /\ e < Word
      <3>1. e \in Nat /\ f \in Nat /\ e <= f /\ f <= delta
        BY <1>9, <1>11
      <3> HIDE DEF e, f
      <3> QED
        BY <1>1, <3>1
    <2> HIDE DEF e
    <2>2. e % Word = e
      BY <1>1, <2>1
    <2> QED
      BY <2>2 DEF e
  <1> QED
    BY <1>5, <1>6, <1>7, <1>12 DEF g, u, P, s, c

\* A bit of the word comes from one group.
LEMMA BitOfShifted ==
    ASSUME NEW delta \in Nat, delta < Word, NEW i \in 1..Len(WriteDelta(delta)),
           NEW k \in 0..(WordBits - 1)
    PROVE  (Shifted(WriteDelta(delta)[i], i - 1) \div Power[k]) % 2
             = IF Shift(i) <= k /\ k < Shift(i + 1) THEN (delta \div Power[k]) % 2 ELSE 0
  <1> DEFINE s == Shift(i)
             u == delta \div Power[s]
             g == u % Group
             x == Shifted(WriteDelta(delta)[i], i - 1)
  <1>1. s \in Nat /\ s < WordBits /\ x = g * Power[s]
    BY ShiftedIs
  <1>2. /\ WordBits \in Nat /\ k \in 0..WordBits /\ s \in 0..WordBits /\ k \in Nat
        /\ GroupBits \in Nat /\ GroupBits <= WordBits
        /\ Group \in Nat \ {0} /\ Group = Power[GroupBits]
    BY <1>1, WordIs, WordAssumption DEF Group
  <1>3. Shift(i + 1) = s + GroupBits
    <2>1. i \in Nat \ {0}
      BY WriteDeltaGroups DEF GroupsEnough
    <2> QED
      BY <2>1, ShiftIs
  <1> HIDE DEF s, x
  <1>4. u \in Nat /\ g \in Nat /\ g < Group
    <2>1. Power[s] \in Nat \ {0}
      BY <1>2, PowerIs
    <2>2. u \in Nat
      BY <2>1, DivParts
    <2> HIDE DEF u
    <2> QED
      BY <1>2, <2>2, DivParts
  <1>5. CASE k < s
    <2> HIDE DEF g
    <2>1. (x \div Power[k]) % 2 = 0
      BY <1>1, <1>2, <1>4, <1>5, BitBelow
    <2> QED
      BY <1>1, <1>2, <1>5, <2>1 DEF s, x
  <1>6. CASE s <= k
    <2>1. k - s \in 0..WordBits /\ k - s \in Nat /\ s + (k - s) = k
      BY <1>1, <1>2, <1>6
    <2>2. x \div Power[k] = g \div Power[k - s]
      <3> HIDE DEF g
      <3> QED
        BY <1>1, <1>2, <1>4, <1>6, BitAbove
    <2>3. CASE k - s < GroupBits
      <3>1. (g \div Power[k - s]) % 2 = (u \div Power[k - s]) % 2
        <4> HIDE DEF u
        <4> QED
          BY <1>4, <2>1, <2>3, BitOfGroup
      <3>2. u \div Power[k - s] = delta \div Power[k]
        <4>1. Power[k] = Power[s] * Power[k - s] /\ Power[s] \in Nat \ {0} /\ Power[k - s] \in Nat \ {0}
          <5> DEFINE m == k - s
          <5>1. m \in Nat /\ m \in 0..WordBits /\ s \in Nat /\ s + m = k /\ s + m <= WordBits
            BY <1>1, <1>2, <2>1
          <5> HIDE DEF m
          <5>2. Power[s + m] = Power[s] * Power[m]
            BY <5>1, PowerAdds
          <5>3. Power[k] = Power[s] * Power[m] /\ Power[s] \in Nat \ {0} /\ Power[m] \in Nat \ {0}
            BY <1>2, <5>1, <5>2, PowerIs
          <5> QED
            BY <5>3 DEF m
        <4> QED
          BY <4>1, DivDiv
      <3>3. k < Shift(i + 1)
        BY <1>1, <1>2, <1>3, <2>3
      <3> QED
        BY <1>6, <2>2, <3>1, <3>2, <3>3 DEF s, x
    <2>4. CASE ~(k - s < GroupBits)
      <3>1. GroupBits <= k - s /\ k - s <= WordBits
        BY <1>2, <2>1, <2>4
      <3>2. Power[GroupBits] <= Power[k - s] /\ Power[k - s] \in Nat
        BY <1>2, <2>1, <3>1, PowerGrows, PowerIs
      <3>3. g < Power[k - s]
        BY <1>2, <1>4, <3>2
      <3>4. (g \div Power[k - s]) % 2 = 0
        <4> HIDE DEF g
        <4> QED
          BY <1>4, <2>1, <3>3, BitBeyond
      <3>5. ~(k < Shift(i + 1))
        BY <1>1, <1>2, <1>3, <2>4
      <3> QED
        BY <2>2, <3>4, <3>5 DEF s, x
    <2> QED
      BY <2>3, <2>4
  <1> QED
    BY <1>1, <1>2, <1>5, <1>6

\* A number that the groups do not reach is smaller than the bit they do not reach.
LEMMA GroupsReach ==
    ASSUME NEW delta \in Nat, delta < Word, NEW k \in 0..(WordBits - 1),
           Shift(Len(WriteDelta(delta)) + 1) <= k
    PROVE  delta < Power[k]
  <1> DEFINE L == Len(WriteDelta(delta))
             s == Shift(L)
             P == Power[s]
             u == delta \div P
             r == delta % P
  <1>1. L \in Nat \ {0} /\ L \in 1..L /\ u < Group
    <2>1. L \in Nat \ {0}
      BY WriteDeltaGroups DEF GroupsEnough
    <2>2. L \in 1..L
      BY <2>1
    <2> QED
      BY <2>1, <2>2, WriteDeltaGroups DEF GroupsAre
  <1>2. s \in Nat /\ s < WordBits
    BY <1>1, ShiftedIs
  <1>3. Shift(L + 1) = s + GroupBits
    BY <1>1, ShiftIs
  <1>4. /\ WordBits \in Nat /\ k \in 0..WordBits /\ s \in 0..WordBits /\ k \in Nat
        /\ GroupBits \in Nat /\ Group \in Nat \ {0} /\ Group = Power[GroupBits]
    BY <1>2, WordIs, WordAssumption DEF Group
  <1>5. s + GroupBits <= k
    BY <1>3
  <1> HIDE DEF s, L
  <1>6. P \in Nat \ {0}
    BY <1>4, PowerIs
  <1>7. P * Group <= Power[k] /\ Power[k] \in Nat
    <2>1. Power[s + GroupBits] = P * Group
      BY <1>2, <1>4, <1>5, PowerAdds
    <2>2. Power[s + GroupBits] <= Power[k]
      BY <1>2, <1>4, <1>5, PowerGrows
    <2> QED
      BY <1>4, <2>1, <2>2, PowerIs
  <1> HIDE DEF P
  <1>8. u \in Nat /\ r \in Nat /\ r < P /\ delta = u * P + r
    BY <1>6, DivParts
  <1> HIDE DEF u, r
  <1>9. u * P + r < Group * P
    BY <1>1, <1>4, <1>6, <1>8, TimesLess
  <1>10. Group * P = P * Group
    BY <1>4, <1>6
  <1> DEFINE e == P * Group
  <1>11. e \in Nat /\ delta < e /\ e <= Power[k]
    BY <1>4, <1>6, <1>7, <1>8, <1>9, <1>10
  <1> HIDE DEF e
  <1> QED
    BY <1>7, <1>11

\* The bits that are read are those that were written.
LEMMA BitReadIs ==
    ASSUME NEW delta \in Nat, delta < Word, NEW k \in 0..(WordBits - 1)
    PROVE  BitRead(WriteDelta(delta), k) <=> (delta \div Power[k]) % 2 = 1
  <1> DEFINE c == WriteDelta(delta)
             bit == (delta \div Power[k]) % 2
             of(i) == (Shifted(c[i], i - 1) \div Power[k]) % 2
  <1>1. \A i \in 1..Len(c) : of(i) = IF Shift(i) <= k /\ k < Shift(i + 1) THEN bit ELSE 0
    BY BitOfShifted
  <1>2. BitRead(c, k) <=> \E i \in 1..Len(c) : of(i) = 1
    BY DEF BitRead
  <1>3. Len(c) \in Nat \ {0}
    BY WriteDeltaGroups DEF GroupsEnough
  <1>4. ASSUME bit = 1 PROVE \E i \in 1..Len(c) : Shift(i) <= k /\ k < Shift(i + 1)
    <2> DEFINE q == k \div GroupBits
               i == q + 1
    <2>1. GroupBits \in Nat \ {0} /\ k \in Nat /\ WordBits \in Nat /\ k \in 0..WordBits
      BY WordAssumption
    <2>2. q \in Nat /\ q * GroupBits <= k /\ k < q * GroupBits + GroupBits
      <3> DEFINE r == k % GroupBits
                 e == q * GroupBits
      <3>1. q \in Nat /\ r \in Nat /\ r < GroupBits /\ k = e + r
        BY <2>1, DivParts
      <3>2. e \in Nat
        BY <2>1, <3>1
      <3> HIDE DEF e, r
      <3>3. e <= k /\ k < e + GroupBits
        BY <2>1, <3>1, <3>2
      <3> QED
        BY <3>1, <3>3 DEF e
    <2> HIDE DEF q
    <2>3. i \in Nat \ {0} /\ Shift(i) = q * GroupBits
      <3>1. i - 1 = q /\ GroupBits * q = q * GroupBits
        BY <2>1, <2>2
      <3> QED
        BY <2>2, <3>1 DEF Shift
    <2> HIDE DEF i
    <2>4. Shift(i) <= k /\ k < Shift(i + 1) /\ Shift(i) \in Nat
      BY <2>1, <2>2, <2>3, ShiftIs
    <2>5. i <= Len(c)
      <3> SUFFICES ASSUME Len(c) + 1 <= i PROVE FALSE
        BY <1>3, <2>3
      <3>1. Len(c) + 1 \in Nat \ {0}
        BY <1>3
      <3>2. Shift(Len(c) + 1) <= Shift(i) /\ Shift(Len(c) + 1) \in Nat
        BY <2>3, <3>1, ShiftGrows, ShiftIs
      <3>3. Shift(Len(c) + 1) <= k
        BY <2>1, <2>4, <3>2
      <3>4. delta < Power[k]
        BY <3>3, GroupsReach
      <3> QED
        BY <1>4, <2>1, <3>4, BitBeyond
    <2> QED
      BY <1>3, <2>3, <2>4, <2>5
  <1> HIDE DEF c, bit, of
  <1>5. BitRead(c, k) <=> bit = 1
    BY <1>1, <1>2, <1>4
  <1> QED
    BY <1>5 DEF c, bit

\* So is the number.
LEMMA DeltaRead ==
    ASSUME NEW delta \in Nat, delta < Word
    PROVE  ReadDelta(WriteDelta(delta)) = delta
  <1> DEFINE c == WriteDelta(delta)
             W == WordBits
  <1>1. PICK sum \in [0..WordBits -> Nat] :
          /\ ReadDelta(c) = sum[WordBits] /\ sum[0] = 0
          /\ \A k \in 1..WordBits :
               sum[k] = sum[k - 1] + (IF BitRead(c, k - 1) THEN Power[k - 1] ELSE 0)
    BY ReadDeltaSums
  <1>2. W \in Nat \ {0} /\ Word = Power[W]
    BY WordAssumption DEF Word
  <1>3. \A k \in 1..W : k - 1 \in 0..(W - 1) /\ k - 1 \in 0..W
    BY <1>2
  <1> DEFINE T == {m \in Nat : m <= W => sum[m] = delta % Power[m]}
  <1>4. 0 \in T
    <2>1. delta % 1 = 0 /\ Power[0] = 1
      BY PowerIs
    <2> QED
      BY <1>1, <2>1
  <1>5. ASSUME NEW m \in Nat, m \in T PROVE m + 1 \in T
    <2> SUFFICES ASSUME m + 1 <= W PROVE sum[m + 1] = delta % Power[m + 1]
      OBVIOUS
    <2> DEFINE P == Power[m]
    <2>1. m + 1 \in 1..W /\ (m + 1) - 1 = m /\ m \in 0..(W - 1) /\ m <= W
      BY <1>2
    <2>2. sum[m] = delta % P
      BY <1>5, <2>1
    <2>3. sum[m + 1] = sum[m] + (IF BitRead(c, m) THEN P ELSE 0)
      BY <1>1, <2>1
    <2>4. BitRead(c, m) <=> (delta \div P) % 2 = 1
      BY <2>1, BitReadIs
    <2>5. Power[m + 1] = 2 * P /\ P \in Nat \ {0}
      BY <2>1, PowerDoubles
    <2>6. delta % (2 * P) = (delta % P) + (IF (delta \div P) % 2 = 1 THEN P ELSE 0)
      BY <2>5, ModDouble
    <2> QED
      BY <2>2, <2>3, <2>4, <2>5, <2>6
  <1> HIDE DEF T
  <1>6. sum[W] = delta % Word
    <2>1. Nat \subseteq T
      BY <1>4, <1>5, InductionOnNat
    <2> QED
      BY <1>2, <2>1 DEF T
  <1>7. delta % Word = delta
    BY WordIs
  <1> QED
    BY <1>1, <1>6, <1>7

\* What is written is not refused.
LEMMA DeltaWrittenAccepted ==
    ASSUME NEW delta \in Nat, delta < Word
    PROVE  DeltaAccepted(WriteDelta(delta), TRUE)
  <1> DEFINE c == WriteDelta(delta)
             L == Len(c)
  <1>1. c \in Seq(Nat) /\ L \in Nat \ {0}
    BY WriteDeltaGroups DEF GroupsEnough
  <1>2. Shift(L) < WordBits
    BY <1>1, ShiftedIs
  <1>3. GroupBits \in Nat \ {0} /\ WordBits \in Nat /\ MaxGroups \in Nat /\ WordBits <= MaxGroups * GroupBits
    BY WordAssumption
  <1>4. c # <<>>
    BY <1>1
  <1> HIDE DEF L
  <1>5. L - 1 \in Nat /\ Shift(L) = (L - 1) * GroupBits
    BY <1>1, <1>3 DEF Shift
  <1>6. (L - 1) * GroupBits < MaxGroups * GroupBits
    <2> DEFINE e == (L - 1) * GroupBits
               f == MaxGroups * GroupBits
    <2>1. e \in Nat /\ f \in Nat /\ e < WordBits /\ WordBits <= f
      BY <1>2, <1>3, <1>5
    <2> HIDE DEF e, f
    <2>2. e < f
      BY <1>3, <2>1
    <2> QED
      BY <2>2 DEF e, f
  <1>7. L - 1 < MaxGroups
    BY <1>3, <1>5, <1>6, LessTimes
  <1> QED
    BY <1>1, <1>3, <1>4, <1>7 DEF DeltaAccepted, L

\* What '|=' and the shifts read off the bytes of a delta is the delta that
\* was written, in words of any width, groups of any size.
THEOREM DeltasAreKept == ToolsSpec => []DeltasKept
  <1>1. DeltasKept
    <2>1. Word \in Nat
      BY WordIs
    <2>2. \A delta \in 0..(Word - 1) : delta \in Nat /\ delta < Word
      BY <2>1
    <2>3. \A delta \in 0..(Word - 1) : DeltaAccepted(WriteDelta(delta), TRUE) /\ ReadDelta(WriteDelta(delta)) = delta
      BY <2>2, DeltaWrittenAccepted, DeltaRead
    <2> QED
      BY <2>3 DEF DeltasKept
  <1> QED
    BY <1>1, PTL

(***************************************************************************)
(* Where the lines of a graph are in its file.                             *)
(***************************************************************************)
\* The places where the sequences that FlattenSeq joins end.
Ends(seqs, e) ==
    /\ e \in [0..Len(seqs) -> Nat] /\ e[0] = 0
    /\ \A k \in 1..Len(seqs) : e[k] = e[k - 1] + Len(seqs[k])
Joins(u, s, t) ==
    /\ Len(u) = Len(s) + Len(t)
    /\ \A k \in 1..Len(s) : u[k] = s[k]
    /\ \A k \in 1..Len(t) : u[Len(s) + k] = t[k]
\* An entry of two sequences joined is one of the first or of the second.
LEMMA JoinedTwo ==
    ASSUME NEW A, NEW s \in Seq(A), NEW t \in Seq(A), NEW u, u = s \o t
    PROVE  u \in Seq(A) /\ Joins(u, s, t)
  BY DEF Joins

\* An entry of one of them is found behind those before it.
Flat(s, seqs, e) ==
    /\ Len(s) = e[Len(seqs)]
    /\ \A k \in 1..Len(seqs) : \A i \in 1..Len(seqs[k]) : s[e[k - 1] + i] = seqs[k][i]
\* Every entry of the sequences that FlattenSeq joins is where the ends of those
\* before its sequence put it.
LEMMA FlattenedAt ==
    ASSUME NEW A, NEW seqs \in Seq(Seq(A)), NEW e, Ends(seqs, e), NEW s, s = FlattenSeq(seqs)
    PROVE  s \in Seq(A) /\ Flat(s, seqs, e)
  <1> DEFINE n == Len(seqs)
  <1>1. n \in Nat /\ \A k \in 1..n : seqs[k] \in Seq(A) /\ Len(seqs[k]) \in Nat
    OBVIOUS
  <1>2. PICK h : JoinedSteps(A, seqs, h)
    BY FlattenedBySteps
  <1>3. /\ h \in [0..n -> Seq(A)] /\ h[0] = <<>> /\ \A k \in 1..n : h[k] = h[k - 1] \o seqs[k]
        /\ FlattenSeq(seqs) = h[n]
    BY <1>2 DEF JoinedSteps
  <1>4. e \in [0..n -> Nat] /\ e[0] = 0 /\ \A k \in 1..n : e[k] = e[k - 1] + Len(seqs[k])
    BY DEF Ends
  <1> DEFINE At(k, m) == \A i \in 1..Len(seqs[m]) : e[m - 1] + i \in 1..e[k] /\ h[k][e[m - 1] + i] = seqs[m][i]
             T == {k \in Nat : k \in 0..n => Len(h[k]) = e[k] /\ \A m \in 1..k : At(k, m)}
  <1> HIDE DEF n
  <1>5. 0 \in T
    <2>1. Len(h[0]) = e[0] /\ 1..0 = {}
      BY <1>3, <1>4
    <2> HIDE DEF At
    <2> QED
      BY <2>1
  <1>6. ASSUME NEW k \in Nat, k \in T PROVE k + 1 \in T
    <2> SUFFICES ASSUME k + 1 \in 0..n
                 PROVE  Len(h[k + 1]) = e[k + 1] /\ \A m \in 1..(k + 1) : At(k + 1, m)
      OBVIOUS
    <2>1. k \in 0..n /\ k + 1 \in 1..n /\ (k + 1) - 1 = k
      BY <1>1
    <2>2. Len(h[k]) = e[k] /\ \A m \in 1..k : At(k, m)
      BY <1>6, <2>1
    <2>3. /\ h[k] \in Seq(A) /\ seqs[k + 1] \in Seq(A) /\ h[k + 1] = h[k] \o seqs[k + 1]
          /\ e[k + 1] = e[k] + Len(seqs[k + 1]) /\ e[k] \in Nat /\ Len(seqs[k + 1]) \in Nat
      BY <1>1, <1>3, <1>4, <2>1
    <2>4. PICK b, t, u : b = h[k] /\ t = seqs[k + 1] /\ u = h[k + 1]
      OBVIOUS
    <2>5. /\ h[k + 1] = u /\ Len(u) = Len(b) + Len(t)
          /\ \A i \in 1..Len(b) : u[i] = b[i]
          /\ \A i \in 1..Len(t) : u[Len(b) + i] = t[i]
      <3>1. b \in Seq(A) /\ t \in Seq(A) /\ u = b \o t
        BY <2>3, <2>4
      <3>2. Joins(u, b, t)
        BY <3>1, JoinedTwo
      <3> QED
        BY <2>4, <3>2 DEF Joins
    <2>6. Len(h[k + 1]) = e[k + 1]
      BY <2>2, <2>3, <2>4, <2>5
    <2>7. ASSUME NEW m \in 1..(k + 1), NEW i \in 1..Len(seqs[m])
          PROVE  e[m - 1] + i \in 1..e[k + 1] /\ h[k + 1][e[m - 1] + i] = seqs[m][i]
      <3>1. CASE m = k + 1
        <4>1. m - 1 = k /\ seqs[m] = t /\ i \in 1..Len(t) /\ i \in Nat
          BY <2>3, <2>4, <3>1
        <4>2. e[k] + i \in 1..e[k + 1]
          BY <2>3, <2>4, <4>1
        <4>3. h[k + 1][Len(b) + i] = t[i] /\ Len(b) = e[k]
          BY <2>2, <2>4, <2>5, <4>1
        <4> QED
          BY <4>1, <4>2, <4>3
      <3>2. CASE m # k + 1
        <4>1. m \in 1..k
          BY <3>2
        <4>2. e[m - 1] + i \in 1..e[k] /\ h[k][e[m - 1] + i] = seqs[m][i]
          BY <2>2, <4>1
        <4>3. PICK x : x = e[m - 1] + i
          OBVIOUS
        <4>4. x \in 1..Len(b) /\ b[x] = seqs[m][i] /\ x \in 1..e[k]
          BY <2>2, <2>4, <4>2, <4>3
        <4>5. h[k + 1][x] = seqs[m][i] /\ x \in 1..e[k + 1]
          BY <2>3, <2>5, <4>4
        <4> QED
          BY <4>3, <4>5
      <3> QED
        BY <3>1, <3>2
    <2>8. \A m \in 1..(k + 1) : At(k + 1, m)
      BY <2>7
    <2> HIDE DEF At
    <2> QED
      BY <2>6, <2>8
  <1>7. n \in T /\ n \in 0..n
    <2>1. Nat \subseteq T
      <3> HIDE DEF T
      <3> QED
        BY <1>5, <1>6, InductionOnNat
    <2> QED
      BY <1>1, <2>1
  <1>8. Len(h[n]) = e[n] /\ h[n] \in Seq(A) /\ \A m \in 1..n : At(n, m)
    BY <1>3, <1>7
  <1> HIDE DEF T
  <1> QED
    BY <1>3, <1>8 DEF n, Flat

\* How many entries of a kind a graph has, and of the kinds before it.
Size(a, m) == Len(a.symbols[Kinds[m]])
Before(a, m) ==
    (IF m > 1 THEN Size(a, 1) ELSE 0) + (IF m > 2 THEN Size(a, 2) ELSE 0)
      + (IF m > 3 THEN Size(a, 3) ELSE 0) + (IF m > 4 THEN Size(a, 4) ELSE 0)
      + (IF m > 5 THEN Size(a, 5) ELSE 0)
\* The entries before a kind are those before the last one and those of it.
LEMMA BeforeIs ==
    ASSUME NEW a, \A m \in 1..5 : Size(a, m) \in Nat
    PROVE  /\ Before(a, 1) = 0 /\ \A m \in 1..6 : Before(a, m) \in Nat
           /\ \A m \in 1..5 : Before(a, m + 1) = Before(a, m) + Size(a, m)
  <1>1. /\ Size(a, 1) \in Nat /\ Size(a, 2) \in Nat /\ Size(a, 3) \in Nat /\ Size(a, 4) \in Nat /\ Size(a, 5) \in Nat
    OBVIOUS
  <1>2. /\ Before(a, 1) = 0 /\ Before(a, 2) = Size(a, 1) /\ Before(a, 3) = Size(a, 1) + Size(a, 2)
        /\ Before(a, 4) = Size(a, 1) + Size(a, 2) + Size(a, 3)
        /\ Before(a, 5) = Size(a, 1) + Size(a, 2) + Size(a, 3) + Size(a, 4)
        /\ Before(a, 6) = Size(a, 1) + Size(a, 2) + Size(a, 3) + Size(a, 4) + Size(a, 5)
    BY <1>1 DEF Before
  <1>3. \A m \in 1..5 : m = 1 \/ m = 2 \/ m = 3 \/ m = 4 \/ m = 5
    OBVIOUS
  <1>4. \A m \in 1..6 : m = 6 \/ m \in 1..5
    OBVIOUS
  <1>5. \A m \in 1..5 : Before(a, m) \in Nat /\ Before(a, m + 1) = Before(a, m) + Size(a, m)
    BY <1>1, <1>2, <1>3
  <1> QED
    BY <1>1, <1>2, <1>4, <1>5

\* The numbers of entries of the kinds of a graph.
LEMMA SizesAre ==
    ASSUME NEW a, IsGraph(a)
    PROVE  /\ \A m \in 1..5 : Size(a, m) \in Nat
           /\ \A m \in 1..5 : a.symbols[Kinds[m]] \in Seq(Seq(Nat))
  <1>1. Len(Kinds) = 5 /\ \A m \in 1..5 : Kinds[m] \in ToSet(Kinds)
    BY KindNames
  <1>2. 2 * a.maxvar + 1 \in Nat /\ \A kind \in ToSet(Kinds) : a.symbols[kind] \in Seq(Seq(0..(2 * a.maxvar + 1))) /\ Len(a.symbols[kind]) \in Nat
    BY GraphParts, GraphEntries DEF LitsOf
  <1>3. \A kind \in ToSet(Kinds) : a.symbols[kind] \in Seq(Seq(Nat))
    BY <1>2, NumberSeqs
  <1> QED
    BY <1>1, <1>2, <1>3 DEF Size

\* No kind has entries behind the last line of the symbols.
LEMMA SizesBound ==
    ASSUME NEW a, IsGraph(a)
    PROVE  /\ \A m \in 1..5 : Size(a, m) \in Nat
           /\ \A m \in 1..6 : Before(a, m) \in Nat
           /\ \A m \in 1..5 : Before(a, m + 1) = Before(a, m) + Size(a, m)
           /\ \A m \in 1..5 : Before(a, m) + Size(a, m) <= Before(a, 6)
           /\ Before(a, 1) = 0
  <1>1. \A i \in 1..5 : Size(a, i) \in Nat
    BY SizesAre
  <1>2. /\ Before(a, 1) = 0 /\ \A i \in 1..6 : Before(a, i) \in Nat
        /\ \A i \in 1..5 : Before(a, i + 1) = Before(a, i) + Size(a, i)
    BY <1>1, BeforeIs
  <1>3. /\ Before(a, 2) = Before(a, 1) + Size(a, 1) /\ Before(a, 3) = Before(a, 2) + Size(a, 2)
        /\ Before(a, 4) = Before(a, 3) + Size(a, 3) /\ Before(a, 5) = Before(a, 4) + Size(a, 4)
        /\ Before(a, 6) = Before(a, 5) + Size(a, 5)
    BY <1>2
  <1>4. /\ Before(a, 1) \in Nat /\ Before(a, 2) \in Nat /\ Before(a, 3) \in Nat /\ Before(a, 4) \in Nat
        /\ Before(a, 5) \in Nat /\ Before(a, 6) \in Nat
        /\ Size(a, 1) \in Nat /\ Size(a, 2) \in Nat /\ Size(a, 3) \in Nat /\ Size(a, 4) \in Nat /\ Size(a, 5) \in Nat
    BY <1>1, <1>2
  <1>5. \A m \in 1..5 : m = 1 \/ m = 2 \/ m = 3 \/ m = 4 \/ m = 5
    OBVIOUS
  <1>6. \A m \in 1..5 : Before(a, m) + Size(a, m) <= Before(a, 6)
    BY <1>3, <1>4, <1>5
  <1> QED
    BY <1>1, <1>2, <1>6

\* The lines of the symbols, kind by kind.
SymbolsAt(s, a) ==
    /\ s \in Seq(Seq(Nat)) /\ Len(s) = Before(a, 6)
    /\ \A m \in 1..5 : \A k \in 1..Size(a, m) : s[Before(a, m) + k] = a.symbols[Kinds[m]][k]
\* The lines that FlattenSeq makes of the symbols are the symbols, kind by kind.
LEMMA SymbolLinesAt ==
    ASSUME NEW a, IsGraph(a), NEW s, s = FlattenSeq([n \in 1..Len(Kinds) |-> a.symbols[Kinds[n]]])
    PROVE  SymbolsAt(s, a)
  <1> DEFINE A == Seq(Nat)
             q == [n \in 1..Len(Kinds) |-> a.symbols[Kinds[n]]]
             e == [k \in 0..5 |-> Before(a, k + 1)]
  <1>1. Len(Kinds) = 5
    BY KindNames
  <1>2. /\ \A m \in 1..5 : Size(a, m) \in Nat
        /\ \A m \in 1..5 : a.symbols[Kinds[m]] \in Seq(A)
    BY SizesAre
  <1>3. /\ Before(a, 1) = 0 /\ \A m \in 1..6 : Before(a, m) \in Nat
        /\ \A m \in 1..5 : Before(a, m + 1) = Before(a, m) + Size(a, m)
    BY <1>2, BeforeIs
  <1> HIDE DEF A
  <1>4. /\ q \in Seq(Seq(A)) /\ Len(q) = 5
        /\ \A m \in 1..5 : q[m] = a.symbols[Kinds[m]] /\ Len(q[m]) = Size(a, m)
    BY <1>1, <1>2 DEF Size
  <1>5. Ends(q, e)
    <2>1. e \in [0..5 -> Nat] /\ e[0] = 0
      BY <1>3
    <2>2. ASSUME NEW k \in 1..5 PROVE e[k] = e[k - 1] + Len(q[k])
      <3>1. k \in 0..5 /\ k - 1 \in 0..5 /\ (k - 1) + 1 = k
        OBVIOUS
      <3>2. e[k] = Before(a, k + 1) /\ e[k - 1] = Before(a, k)
        BY <3>1
      <3> HIDE DEF e, q
      <3> QED
        BY <1>3, <1>4, <3>2
    <2> HIDE DEF e, q
    <2> QED
      BY <1>4, <2>1, <2>2 DEF Ends
  <1>6. e[5] = Before(a, 6) /\ \A m \in 1..5 : e[m - 1] = Before(a, m)
    <2>1. \A m \in 1..5 : m - 1 \in 0..5 /\ (m - 1) + 1 = m
      OBVIOUS
    <2> QED
      BY <2>1
  <1>7. s = FlattenSeq(q)
    OBVIOUS
  <1> HIDE DEF q, e
  <1>8. s \in Seq(A) /\ Flat(s, q, e)
    BY <1>4, <1>5, <1>7, FlattenedAt
  <1>9. Len(s) = Before(a, 6)
    BY <1>4, <1>6, <1>8 DEF Flat
  <1>10. ASSUME NEW m \in 1..5, NEW k \in 1..Size(a, m)
         PROVE  s[Before(a, m) + k] = a.symbols[Kinds[m]][k]
    <2>1. s[e[m - 1] + k] = q[m][k]
      BY <1>4, <1>8 DEF Flat
    <2> QED
      BY <1>4, <1>6, <2>1
  <1> QED
    BY <1>8, <1>9, <1>10 DEF SymbolsAt, A

\* The lines before the ands.
LinesAt(ls, a, compact) ==
    LET d == IF compact THEN 0 ELSE Len(a.inputs)  n == Len(a.latches) IN
    /\ ls \in Seq(Seq(Nat)) /\ Len(ls) = d + n + Before(a, 6)
    /\ ~compact => \A k \in 1..Len(a.inputs) : ls[k] = <<a.inputs[k]>>
    /\ \A k \in 1..n : ls[d + k] = LatchLine(a.latches[k], compact)
    /\ \A m \in 1..5 : \A k \in 1..Size(a, m) : ls[d + n + Before(a, m) + k] = a.symbols[Kinds[m]][k]
\* Lines(a, compact), by line: inputs, unless the format leaves them out, then
\* latches, then symbols (aiger.c, aiger_write_generic).
LEMMA LinesAreAt ==
    ASSUME NEW a, IsGraph(a), NEW compact \in BOOLEAN, NEW ls, ls = Lines(a, compact)
    PROVE  LinesAt(ls, a, compact)
  <1> DEFINE A == Seq(Nat)
             d == IF compact THEN 0 ELSE Len(a.inputs)
             n == Len(a.latches)
             s == IF compact THEN <<>> ELSE [k \in 1..Len(a.inputs) |-> <<a.inputs[k]>>]
             t == [k \in 1..Len(a.latches) |-> LatchLine(a.latches[k], compact)]
             u == FlattenSeq([i \in 1..Len(Kinds) |-> a.symbols[Kinds[i]]])
  <1>1. /\ Len(a.inputs) \in Nat /\ Len(a.latches) \in Nat /\ a.maxvar \in Nat
        /\ \A k \in 1..Len(a.inputs) : a.inputs[k] \in LitsOf(a)
        /\ \A k \in 1..Len(a.latches) : a.latches[k].lit \in Nat /\ a.latches[k].next \in Nat /\ a.latches[k].reset \in Nat
    BY GraphParts, GraphEntries, EntryNumbers
  <1>2. \A x \in LitsOf(a) : x \in Nat
    BY <1>1 DEF LitsOf
  <1>3. \A k \in 1..Len(a.inputs) : <<a.inputs[k]>> \in A
    BY <1>1, <1>2
  <1>4. \A k \in 1..Len(a.latches) : LatchLine(a.latches[k], compact) \in A
    BY <1>1, <1>2, LatchLineIs
  <1>5. SymbolsAt(u, a)
    BY SymbolLinesAt
  <1> HIDE DEF A, u
  <1>6. s \in Seq(A) /\ Len(s) = d /\ d \in Nat /\ n \in Nat /\ (~compact => \A k \in 1..d : s[k] = <<a.inputs[k]>>)
    <2>1. CASE compact
      BY <1>1, <2>1
    <2>2. CASE ~compact
      BY <1>1, <1>3, <2>2
    <2> QED
      BY <2>1, <2>2
  <1>7. t \in Seq(A) /\ Len(t) = n /\ \A k \in 1..n : t[k] = LatchLine(a.latches[k], compact)
    BY <1>1, <1>4
  <1>8. ls = (s \o t) \o u
    BY DEF Lines, u
  <1>9. PICK x : x = s \o t
    OBVIOUS
  <1>10. u \in Seq(A) /\ Len(u) = Before(a, 6)
         /\ \A m \in 1..5 : \A k \in 1..Size(a, m) : u[Before(a, m) + k] = a.symbols[Kinds[m]][k]
    BY <1>5 DEF SymbolsAt, A
  <1> HIDE DEF s, t, d, n
  <1>11. x \in Seq(A) /\ Joins(x, s, t)
    BY <1>6, <1>7, <1>9, JoinedTwo
  <1>12. ls \in Seq(A) /\ Joins(ls, x, u)
    BY <1>8, <1>9, <1>10, <1>11, JoinedTwo
  <1>13. Len(x) = d + n /\ Len(u) \in Nat /\ Len(ls) = d + n + Before(a, 6)
    BY <1>6, <1>7, <1>10, <1>11, <1>12 DEF Joins
  <1>14. ASSUME NEW k \in 1..d PROVE ls[k] = s[k]
    <2>1. k \in 1..Len(x) /\ k \in 1..Len(s)
      BY <1>6, <1>13
    <2> QED
      BY <1>11, <1>12, <2>1 DEF Joins
  <1>15. ASSUME NEW k \in 1..n PROVE ls[d + k] = t[k]
    <2>1. d + k \in 1..Len(x) /\ k \in 1..Len(t) /\ Len(s) = d
      BY <1>6, <1>7, <1>13
    <2>2. ls[d + k] = x[d + k]
      BY <1>12, <2>1 DEF Joins
    <2>3. x[Len(s) + k] = t[k]
      BY <1>11, <2>1 DEF Joins
    <2> QED
      BY <2>1, <2>2, <2>3
  <1>16. ASSUME NEW m \in 1..5, NEW k \in 1..Size(a, m)
         PROVE  ls[d + n + Before(a, m) + k] = a.symbols[Kinds[m]][k]
    <2>1. /\ Size(a, m) \in Nat /\ Before(a, m) \in Nat /\ Before(a, m) + Size(a, m) <= Before(a, 6) /\ k \in Nat
      BY SizesBound
    <2>2. PICK i : i = Before(a, m) + k
      OBVIOUS
    <2>3. i \in 1..Len(u)
      BY <1>10, <1>13, <2>1, <2>2
    <2>4. ls[Len(x) + i] = u[i]
      BY <1>12, <2>3 DEF Joins
    <2>5. u[i] = a.symbols[Kinds[m]][k]
      BY <1>10, <2>2
    <2>6. Len(x) + i = d + n + Before(a, m) + k
      BY <1>6, <1>13, <2>1, <2>2
    <2> QED
      BY <2>4, <2>5, <2>6
  <1>17. ~compact => \A k \in 1..Len(a.inputs) : ls[k] = <<a.inputs[k]>>
    BY <1>6, <1>14 DEF d
  <1>18. \A k \in 1..n : ls[d + k] = LatchLine(a.latches[k], compact)
    BY <1>7, <1>15
  <1> QED
    BY <1>12, <1>13, <1>16, <1>17, <1>18 DEF LinesAt, A, d, n

\* A set of names, in some order, each once.
LEMMA NamesOnce ==
    ASSUME NEW S, IsFiniteSet(S), NEW s, s = SetToSeq(S)
    PROVE  s \in Seq(S) /\ IsInjective(s) /\ ToSet(s) = S
  <1> DEFINE n == Cardinality(S)
  <1>1. n \in Nat /\ ExistsBijection(1..n, S)
    BY FS_CardinalityType
  <1> HIDE DEF n
  <1>2. PICK f \in [1..n -> S] : f \in Bijection(1..n, S)
    BY <1>1 DEF ExistsBijection, Bijection, Injection
  <1>3. \A i, j \in 1..n : f[i] = f[j] => i = j
    BY <1>2 DEF Bijection, Injection, IsInjective
  <1>4. DOMAIN f = 1..n
    OBVIOUS
  <1>5. IsInjective(f)
    BY <1>3, <1>4 DEF IsInjective
  <1>6. \E g \in [1..n -> S] : IsInjective(g)
    BY <1>5
  <1>7. s = CHOOSE g \in [1..n -> S] : IsInjective(g)
    BY DEF SetToSeq, n
  <1>8. s \in [1..n -> S] /\ IsInjective(s)
    BY <1>6, <1>7
  <1>9. s \in Seq(S) /\ Len(s) = n
    BY <1>1, <1>8
  <1>10. ToSet(s) = {s[k] : k \in 1..n}
    BY <1>9, SetOfSeq
  <1>11. \A i, j \in 1..n : s[i] = s[j] => i = j
    BY <1>8 DEF IsInjective
  <1>12. {s[k] : k \in 1..n} = S
    <2> DEFINE X == {s[k] : k \in 1..n}
    <2>1. X \in SUBSET S
      BY <1>8
    <2>2. s \in [1..n -> X] /\ s \in Bijection(1..n, X)
      <3>1. s \in [1..n -> X]
        BY <1>8
      <3>2. s \in Injection(1..n, X)
        BY <1>11, <3>1 DEF Injection, IsInjective
      <3>3. s \in Surjection(1..n, X)
        BY <3>1 DEF Surjection
      <3> QED
        BY <3>1, <3>2, <3>3 DEF Bijection
    <2> HIDE DEF X
    <2>3. ExistsBijection(1..n, X)
      BY <2>2 DEF ExistsBijection
    <2>4. IsFiniteSet(X)
      BY <2>1, FS_Subset
    <2>5. Cardinality(X) = n
      BY <1>1, <2>3, <2>4, FS_CardinalityType, FS_CountingElements
    <2>6. X = S
      BY <2>1, <2>5, FS_Subset DEF n
    <2> QED
      BY <2>6 DEF X
  <1> QED
    BY <1>8, <1>9, <1>10, <1>12

\* The numbers of a latch, behind its literal.
LatchFits(s, latch, compact) ==
    LET d == IF compact THEN 0 ELSE 1 IN
    /\ s \in Seq(Nat) /\ Len(s) \in {d + 1, d + 2} /\ s[d + 1] = latch.next
    /\ ~compact => s[1] = latch.lit
    /\ latch.reset = IF Len(s) = d + 2 THEN s[d + 2] ELSE 0
\* The line of a latch has its numbers; a reset value of 0 is left out.
LEMMA LatchLineFits ==
    ASSUME NEW latch, latch.lit \in Nat, latch.next \in Nat, latch.reset \in Nat, NEW compact \in BOOLEAN
    PROVE  LatchFits(LatchLine(latch, compact), latch, compact)
  <1>1. CASE latch.reset = 0
    BY <1>1 DEF LatchLine, LatchFits
  <1>2. CASE latch.reset # 0
    BY <1>2 DEF LatchLine, LatchFits
  <1> QED
    BY <1>1, <1>2

\* A file that says what a graph has.
AndsInLines(ls, d, a) ==
    \A k \in 1..Len(a.ands) : ls[d + k] = <<a.ands[k].lhs, a.ands[k].rhs0, a.ands[k].rhs1>>
AndsInCodes(codes, a) ==
    /\ Len(codes) = 2 * Len(a.ands)
    /\ \A k \in 1..Len(a.ands) : /\ codes[2 * k - 1] = WriteDelta(a.ands[k].lhs - a.ands[k].rhs0)
                                 /\ codes[2 * k] = WriteDelta(a.ands[k].rhs0 - a.ands[k].rhs1)
Shows(f, a) ==
    LET ascii == f.mode = "ascii"
        i == IF ascii THEN Len(a.inputs) ELSE 0
        n == Len(a.latches)
    IN  /\ f.mode \in {"ascii", "binary"} /\ f.header = HeaderOf(a) /\ f.cut = FALSE
        /\ ascii => \A k \in 1..Len(a.inputs) : f.lines[k] = <<a.inputs[k]>>
        /\ \A k \in 1..n : LatchFits(f.lines[i + k], a.latches[k], ~ascii)
        /\ \A m \in 1..5 : \A k \in 1..Size(a, m) : f.lines[i + n + Before(a, m) + k] = a.symbols[Kinds[m]][k]
        /\ ascii => AndsInLines(f.lines, i + n + Before(a, 6), a)
        /\ ~ascii => AndsInCodes(f.codes, a)
        /\ Len(f.lines) = i + n + Before(a, 6) + (IF ascii THEN Len(a.ands) ELSE 0)
        /\ f.names \in Seq(a.names) /\ IsInjective(f.names) /\ ToSet(f.names) = a.names
\* AsciiFile(a) says what the graph has, line by line.
LEMMA AsciiShows ==
    ASSUME NEW a, GraphOK(a), NEW f, f = AsciiFile(a)
    PROVE  Shows(f, a)
  <1> DEFINE A == Seq(Nat)
             i == Len(a.inputs)
             n == Len(a.latches)
             ands == [k \in 1..Len(a.ands) |-> <<a.ands[k].lhs, a.ands[k].rhs0, a.ands[k].rhs1>>]
             ls == Lines(a, FALSE)
  <1>1. IsGraph(a) /\ IsFiniteSet(a.names)
    BY DEF GraphOK
  <1>2. /\ f.mode = "ascii" /\ f.cut = FALSE /\ f.header = HeaderOf(a)
        /\ f.lines = ls \o ands /\ f.names = SetToSeq(a.names)
    BY DEF AsciiFile
  <1>3. f.names \in Seq(a.names) /\ IsInjective(f.names) /\ ToSet(f.names) = a.names
    BY <1>1, <1>2, NamesOnce
  <1>4. /\ i \in Nat /\ n \in Nat /\ Len(a.ands) \in Nat
        /\ \A k \in 1..n : a.latches[k].lit \in Nat /\ a.latches[k].next \in Nat /\ a.latches[k].reset \in Nat
        /\ \A k \in 1..Len(a.ands) : a.ands[k].lhs \in Nat /\ a.ands[k].rhs0 \in Nat /\ a.ands[k].rhs1 \in Nat
    BY <1>1, GraphParts, GraphEntries DEF LitsOf
  <1>5. ands \in Seq(A) /\ Len(ands) = Len(a.ands)
    <2>1. \A k \in 1..Len(a.ands) : <<a.ands[k].lhs, a.ands[k].rhs0, a.ands[k].rhs1>> \in A
      BY <1>4
    <2> HIDE DEF A
    <2> QED
      BY <1>4, <2>1
  <1>6. LinesAt(ls, a, FALSE)
    BY <1>1, LinesAreAt
  <1> HIDE DEF ls
  <1>7. /\ ls \in Seq(A) /\ Len(ls) = i + n + Before(a, 6)
        /\ \A k \in 1..i : ls[k] = <<a.inputs[k]>>
        /\ \A k \in 1..n : ls[i + k] = LatchLine(a.latches[k], FALSE)
        /\ \A m \in 1..5 : \A k \in 1..Size(a, m) : ls[i + n + Before(a, m) + k] = a.symbols[Kinds[m]][k]
    BY <1>6 DEF LinesAt
  <1>8. \A k \in 1..Len(a.ands) : ands[k] = <<a.ands[k].lhs, a.ands[k].rhs0, a.ands[k].rhs1>>
    OBVIOUS
  <1>9. /\ \A m \in 1..5 : Size(a, m) \in Nat
        /\ \A m \in 1..6 : Before(a, m) \in Nat
        /\ \A m \in 1..5 : Before(a, m) + Size(a, m) <= Before(a, 6)
        /\ Before(a, 6) \in Nat
    BY <1>1, SizesBound
  <1> HIDE DEF A, i, n, ands
  <1>20. PICK b : b = Before(a, 6) /\ b \in Nat
    BY <1>9
  <1>21. (\A k \in 1..i : k \in 1..(i + n + b)) /\ (\A k \in 1..n : i + k \in 1..(i + n + b))
    BY <1>4, <1>20
  <1>10. Joins(f.lines, ls, ands)
    BY <1>2, <1>5, <1>7, JoinedTwo
  <1>11. \A k \in 1..(i + n + Before(a, 6)) : f.lines[k] = ls[k]
    BY <1>7, <1>10 DEF Joins
  <1>12. \A k \in 1..i : f.lines[k] = <<a.inputs[k]>>
    <2>1. \A k \in 1..i : k \in 1..(i + n + Before(a, 6))
      BY <1>20, <1>21
    <2> QED
      BY <1>7, <1>11, <2>1
  <1>13. ASSUME NEW k \in 1..n PROVE LatchFits(f.lines[i + k], a.latches[k], FALSE)
    <2>1. i + k \in 1..(i + n + Before(a, 6))
      BY <1>20, <1>21
    <2>2. f.lines[i + k] = LatchLine(a.latches[k], FALSE)
      BY <1>7, <1>11, <2>1
    <2> QED
      BY <1>4, <2>2, LatchLineFits
  <1>14. ASSUME NEW m \in 1..5, NEW k \in 1..Size(a, m)
         PROVE  f.lines[i + n + Before(a, m) + k] = a.symbols[Kinds[m]][k]
    <2>1. i + n + Before(a, m) + k \in 1..(i + n + Before(a, 6))
      <3>1. \A x, y, z, p, q \in Nat : \A j \in 1..q : z + q <= p => x + y + z + j \in 1..(x + y + p)
        OBVIOUS
      <3>2. 6 \in 1..6 /\ m \in 1..6
        OBVIOUS
      <3> QED
        BY <1>4, <1>9, <3>1, <3>2
    <2> QED
      BY <1>7, <1>11, <2>1
  <1>15. AndsInLines(f.lines, i + n + Before(a, 6), a)
    BY <1>5, <1>7, <1>8, <1>10 DEF Joins, AndsInLines
  <1>16. Len(f.lines) = i + n + Before(a, 6) + Len(a.ands)
    BY <1>5, <1>7, <1>10 DEF Joins
  <1> QED
    BY <1>2, <1>3, <1>12, <1>13, <1>14, <1>15, <1>16 DEF Shows, i, n

\* What a graph in the form of the binary format defines, one after the other.
InOrder(a) ==
    LET i == Len(a.inputs)  n == i + Len(a.latches) IN
    /\ \A k \in 1..i : a.inputs[k] = 2 * k
    /\ \A k \in 1..Len(a.latches) : a.latches[k].lit = 2 * (i + k)
    /\ \A k \in 1..Len(a.ands) :
         a.ands[k].lhs = 2 * (n + k) /\ a.ands[k].lhs >= a.ands[k].rhs0 /\ a.ands[k].rhs0 >= a.ands[k].rhs1
    /\ n + Len(a.ands) <= a.maxvar
\* A graph that aiger_is_reencoded accepts has its variables in order, and the
\* literal of the last input or latch is the one the deltas of the ands count from.
LEMMA ReencodedInOrder ==
    ASSUME NEW a, GraphOK(a), IsReencoded(a)
    PROVE  InOrder(a) /\ MaxInputOrLatch(a) = 2 * (Len(a.inputs) + Len(a.latches))
  <1> DEFINE I == Len(a.inputs)
             L == Len(a.latches)
             A == Len(a.ands)
             n == I + L
  <1>1. IsGraph(a)
    BY DEF GraphOK
  <1>2. /\ I \in Nat /\ L \in Nat /\ A \in Nat /\ a.maxvar \in Nat
        /\ \A k \in 1..A : a.ands[k].lhs \in LitsOf(a)
    BY <1>1, GraphParts, GraphEntries
  <1>3. /\ Sources(a) \in Seq(LitsOf(a)) /\ Len(Sources(a)) = n
        /\ \A k \in 1..I : Sources(a)[k] = a.inputs[k]
        /\ \A k \in 1..L : Sources(a)[I + k] = a.latches[k].lit
    BY <1>1, DefinedInTurn
  <1>4. /\ \A k \in 1..n : Sources(a)[k] = 2 * k
        /\ \A k \in 1..A : a.ands[k].lhs = 2 * (n + k) /\ a.ands[k].lhs >= a.ands[k].rhs0 /\ a.ands[k].rhs0 >= a.ands[k].rhs1
    BY DEF IsReencoded
  <1>5. \A x \in LitsOf(a) : x \in Nat /\ x <= 2 * a.maxvar + 1
    BY <1>2 DEF LitsOf
  <1> HIDE DEF I, L, A
  <1>6. n \in Nat
    BY <1>2
  <1>7. n + A <= a.maxvar
    <2> HIDE DEF n
    <2>1. \A x \in Nat : \A y \in Nat : 2 * x <= 2 * y + 1 => x <= y
      OBVIOUS
    <2>2. CASE A # 0
      <3>1. A \in 1..A
        BY <1>2, <2>2
      <3>2. 2 * (n + A) <= 2 * a.maxvar + 1
        BY <1>2, <1>4, <1>5, <3>1
      <3> QED
        BY <1>2, <1>6, <2>1, <3>2
    <2>3. CASE A = 0 /\ n # 0
      <3>1. n \in 1..n
        BY <1>6, <2>3
      <3>2. Sources(a)[n] \in LitsOf(a)
        BY <1>3, <1>6, <3>1, ElementOfSeq
      <3>3. 2 * n <= 2 * a.maxvar + 1
        BY <1>4, <1>5, <3>1, <3>2
      <3> QED
        BY <1>2, <1>6, <2>1, <2>3, <3>3
    <2> QED
      BY <1>2, <1>6, <2>2, <2>3
  <1>8. \A k \in 1..L : a.latches[k].lit = 2 * (I + k)
    <2> SUFFICES ASSUME NEW k \in 1..L PROVE a.latches[k].lit = 2 * (I + k)
      OBVIOUS
    <2>1. I + k \in 1..n
      BY <1>2
    <2> QED
      BY <1>3, <1>4, <2>1
  <1>9. \A k \in 1..I : a.inputs[k] = 2 * k
    <2> SUFFICES ASSUME NEW k \in 1..I PROVE a.inputs[k] = 2 * k
      OBVIOUS
    <2>1. k \in 1..n
      BY <1>2
    <2> QED
      BY <1>3, <1>4, <2>1
  <1>10. MaxInputOrLatch(a) = 2 * n
    BY OrderedLits DEF n, I, L
  <1> QED
    BY <1>4, <1>7, <1>8, <1>9, <1>10 DEF InOrder, I, L, A

\* BinaryFile(a) says what a re-encoded graph has; the deltas are not negative, and
\* those of an and are at its place among the codes.
LEMMA BinaryShows ==
    ASSUME NEW a, GraphOK(a), IsReencoded(a), NEW f, f = BinaryFile(a)
    PROVE  Shows(f, a)
  <1> DEFINE A == Seq(Nat)
             n == Len(a.latches)
             N == Len(a.ands)
             lhs(k) == MaxInputOrLatch(a) + 2 * k
             pairs == [k \in 1..Len(a.ands) |-> <<WriteDelta(lhs(k) - a.ands[k].rhs0),
                                                 WriteDelta(a.ands[k].rhs0 - a.ands[k].rhs1)>>]
             ls == Lines(a, TRUE)
             e == [k \in 0..N |-> 2 * k]
  <1>1. IsGraph(a) /\ IsFiniteSet(a.names)
    BY DEF GraphOK
  <1>2. /\ f.mode = "binary" /\ f.cut = FALSE /\ f.codes = FlattenSeq(pairs) /\ f.header = HeaderOf(a)
        /\ f.lines = ls /\ f.names = SetToSeq(a.names)
    <2>1. f = [ mode |-> "binary", header |-> HeaderOf(a), lines |-> ls, cut |-> FALSE,
                codes |-> FlattenSeq(pairs), names |-> SetToSeq(a.names) ]
      BY BinaryFileParts
    <2> HIDE DEF ls, pairs
    <2> QED
      BY <2>1
  <1>3. f.names \in Seq(a.names) /\ IsInjective(f.names) /\ ToSet(f.names) = a.names
    BY <1>1, <1>2, NamesOnce
  <1>4. /\ Len(a.inputs) \in Nat /\ n \in Nat /\ N \in Nat
        /\ \A k \in 1..n : a.latches[k].lit \in Nat /\ a.latches[k].next \in Nat /\ a.latches[k].reset \in Nat
        /\ \A k \in 1..N : a.ands[k].lhs \in Nat /\ a.ands[k].rhs0 \in Nat /\ a.ands[k].rhs1 \in Nat
    BY <1>1, GraphEntries, EntryNumbers
  <1>5. LinesAt(ls, a, TRUE)
    BY <1>1, LinesAreAt
  <1> HIDE DEF ls
  <1>6. /\ Len(ls) = 0 + n + Before(a, 6)
        /\ \A k \in 1..n : ls[0 + k] = LatchLine(a.latches[k], TRUE)
        /\ \A m \in 1..5 : \A k \in 1..Size(a, m) : ls[0 + n + Before(a, m) + k] = a.symbols[Kinds[m]][k]
    BY <1>5 DEF LinesAt
  <1>7. ASSUME NEW k \in 1..n PROVE LatchFits(f.lines[0 + k], a.latches[k], TRUE)
    BY <1>2, <1>4, <1>6, LatchLineFits
  <1>8. InOrder(a) /\ MaxInputOrLatch(a) = 2 * (Len(a.inputs) + n)
    BY ReencodedInOrder
  <1>9. ASSUME NEW k \in 1..N
        PROVE  /\ lhs(k) = a.ands[k].lhs
               /\ a.ands[k].lhs - a.ands[k].rhs0 \in Nat /\ a.ands[k].rhs0 - a.ands[k].rhs1 \in Nat
    <2>1. /\ a.ands[k].lhs = 2 * (Len(a.inputs) + n + k) /\ a.ands[k].lhs >= a.ands[k].rhs0
          /\ a.ands[k].rhs0 >= a.ands[k].rhs1
      BY <1>8 DEF InOrder
    <2>2. a.ands[k].lhs - a.ands[k].rhs0 \in Nat /\ a.ands[k].rhs0 - a.ands[k].rhs1 \in Nat
      <3>1. \A x, y \in Nat : x >= y => x - y \in Nat
        OBVIOUS
      <3>2. a.ands[k].lhs \in Nat /\ a.ands[k].rhs0 \in Nat /\ a.ands[k].rhs1 \in Nat
        BY <1>4
      <3> QED
        BY <2>1, <3>1, <3>2
    <2>3. lhs(k) = 2 * (Len(a.inputs) + n + k)
      <3> DEFINE p == MaxInputOrLatch(a)
                 i == Len(a.inputs)
      <3>1. p = 2 * (i + n) /\ i \in Nat /\ n \in Nat /\ k \in Nat
        BY <1>4, <1>8
      <3> HIDE DEF p, i, n
      <3>2. p + 2 * k = 2 * (i + n + k)
        BY <3>1
      <3> QED
        BY <3>2 DEF p, i
    <2> QED
      BY <2>1, <2>2, <2>3
  <1>10. /\ pairs \in Seq(Seq(A)) /\ Len(pairs) = N
         /\ \A k \in 1..N : /\ Len(pairs[k]) = 2 /\ pairs[k][1] = WriteDelta(a.ands[k].lhs - a.ands[k].rhs0)
                            /\ pairs[k][2] = WriteDelta(a.ands[k].rhs0 - a.ands[k].rhs1)
    <2> DEFINE pair(k) == <<WriteDelta(a.ands[k].lhs - a.ands[k].rhs0), WriteDelta(a.ands[k].rhs0 - a.ands[k].rhs1)>>
    <2>1. \A k \in 1..N : lhs(k) = a.ands[k].lhs
      BY <1>9
    <2> HIDE DEF lhs
    <2>2. pairs = [k \in 1..N |-> pair(k)]
      BY <2>1
    <2>3. ASSUME NEW k \in 1..N PROVE pair(k) \in Seq(A)
      <3> DEFINE d == a.ands[k].lhs - a.ands[k].rhs0
                 c == a.ands[k].rhs0 - a.ands[k].rhs1
      <3>1. d \in Nat /\ c \in Nat
        BY <1>9
      <3> HIDE DEF d, c
      <3>2. WriteDelta(d) \in A /\ WriteDelta(c) \in A
        BY <3>1, WriteDeltaType
      <3> HIDE DEF A
      <3>3. <<WriteDelta(d), WriteDelta(c)>> \in Seq(A)
        BY <3>2
      <3> QED
        BY <3>3 DEF d, c
    <2> DEFINE B == Seq(A)
    <2>4. \A k \in 1..N : pair(k) \in B
      BY <2>3
    <2>5. \A k \in 1..N : /\ Len(pair(k)) = 2 /\ pair(k)[1] = WriteDelta(a.ands[k].lhs - a.ands[k].rhs0)
                          /\ pair(k)[2] = WriteDelta(a.ands[k].rhs0 - a.ands[k].rhs1)
      OBVIOUS
    <2> HIDE DEF A, B, pair, pairs
    <2>6. pairs \in Seq(B) /\ Len(pairs) = N /\ \A k \in 1..N : pairs[k] = pair(k)
      BY <1>4, <2>2, <2>4
    <2> QED
      BY <2>5, <2>6 DEF B
  <1> HIDE DEF A, pairs, lhs, N
  <1>11. Ends(pairs, e)
    <2>1. e \in [0..N -> Nat] /\ e[0] = 0
      BY <1>4
    <2>2. ASSUME NEW k \in 1..N PROVE e[k] = e[k - 1] + Len(pairs[k])
      <3>1. k \in 0..N /\ k - 1 \in 0..N /\ k \in Nat
        BY <1>4
      <3>2. e[k] = 2 * k /\ e[k - 1] = 2 * (k - 1)
        BY <3>1
      <3>3. Len(pairs[k]) = 2
        BY <1>10
      <3>4. 2 * k = 2 * (k - 1) + 2
        BY <3>1
      <3> HIDE DEF e
      <3> QED
        BY <3>2, <3>3, <3>4
    <2> HIDE DEF e
    <2> QED
      BY <1>10, <2>1, <2>2 DEF Ends
  <1>12. PICK c : c = FlattenSeq(pairs)
    OBVIOUS
  <1>13. e[N] = 2 * N /\ \A k \in 1..N : e[k - 1] = 2 * (k - 1)
    <2>1. N \in 0..N /\ \A k \in 1..N : k - 1 \in 0..N
      BY <1>4
    <2> QED
      BY <2>1
  <1> HIDE DEF e
  <1>14. Flat(c, pairs, e)
    BY <1>10, <1>11, <1>12, FlattenedAt
  <1>15. AndsInCodes(c, a)
    <2>1. Len(c) = 2 * N
      BY <1>10, <1>13, <1>14 DEF Flat
    <2>2. ASSUME NEW k \in 1..N
          PROVE  /\ c[2 * k - 1] = WriteDelta(a.ands[k].lhs - a.ands[k].rhs0)
                 /\ c[2 * k] = WriteDelta(a.ands[k].rhs0 - a.ands[k].rhs1)
      <3>1. c[e[k - 1] + 1] = pairs[k][1] /\ c[e[k - 1] + 2] = pairs[k][2]
        BY <1>10, <1>14 DEF Flat
      <3>2. e[k - 1] + 1 = 2 * k - 1 /\ e[k - 1] + 2 = 2 * k
        <4>1. k \in Nat
          BY <1>4
        <4> QED
          BY <1>13, <4>1
      <3> QED
        BY <1>10, <3>1, <3>2
    <2> QED
      BY <2>1, <2>2 DEF AndsInCodes, N
  <1>16. \A m \in 1..5 : \A k \in 1..Size(a, m) : f.lines[0 + n + Before(a, m) + k] = a.symbols[Kinds[m]][k]
    BY <1>2, <1>6
  <1>17. Len(f.lines) = 0 + n + Before(a, 6) + 0
    <2>1. Before(a, 6) \in Nat
      BY <1>1, SizesBound
    <2> QED
      BY <1>2, <1>4, <1>6, <2>1
  <1> QED
    BY <1>2, <1>3, <1>7, <1>12, <1>15, <1>16, <1>17 DEF Shows, n

(***************************************************************************)
(* What the reader and the check ask of a graph, of the graph alone.       *)
(***************************************************************************)
\* An entry defines one variable, which no other entry defines.
Apart(a) ==
    \A w \in Whats : \A k \in 1..Count(a, w) :
      /\ Var(Defined(a, w, k)) \in 1..a.maxvar /\ Defined(a, w, k) = 2 * Var(Defined(a, w, k))
      /\ \A x \in Whats : \A l \in 1..Count(a, x) : Defined(a, w, k) = Defined(a, x, l) => w = x /\ k = l
\* Where types corresponds to the graph, no variable is defined twice.
LEMMA CorrespondsApart ==
    ASSUME NEW a, NEW t, Corresponds(a, t)
    PROVE  Apart(a)
  <1> SUFFICES ASSUME NEW w \in Whats, NEW k \in 1..Count(a, w)
               PROVE  /\ Var(Defined(a, w, k)) \in 1..a.maxvar /\ Defined(a, w, k) = 2 * Var(Defined(a, w, k))
                      /\ \A x \in Whats : \A l \in 1..Count(a, x) : Defined(a, w, k) = Defined(a, x, l) => w = x /\ k = l
    BY DEF Apart
  <1>1. Placed(a, t, w, k)
    BY DEF Corresponds
  <1>2. ASSUME NEW x \in Whats, NEW l \in 1..Count(a, x), Defined(a, w, k) = Defined(a, x, l)
        PROVE  w = x /\ k = l
    <2>1. Placed(a, t, x, l)
      BY DEF Corresponds
    <2> DEFINE p == Defined(a, w, k)
               q == Defined(a, x, l)
    <2>2. /\ p = q /\ t[Var(p)].is = w /\ t[Var(p)].idx = k
          /\ t[Var(q)].is = x /\ t[Var(q)].idx = l
      BY <1>1, <1>2, <2>1 DEF Placed
    <2> HIDE DEF p, q
    <2> QED
      BY <2>2
  <1> QED
    BY <1>1, <1>2 DEF Placed

\* An entry defines the variable of a literal.
Known(a, lit) == Var(lit) = 0 \/ \E w \in Whats : \E k \in 1..Count(a, w) : Defined(a, w, k) = 2 * Var(lit)
DefinedIn(a) ==
    /\ \A k \in 1..Len(a.latches) : Known(a, a.latches[k].next)
    /\ \A lit \in ToSet(SymbolLits(a)) : Known(a, lit)
    /\ \A k \in 1..Len(a.ands) : Known(a, a.ands[k].rhs0) /\ Known(a, a.ands[k].rhs1)
\* LiteralDefined says of a literal what the entries of the graph say.
LEMMA KnownIs ==
    ASSUME GraphPhase, NEW lit \in LitsOf(aig)
    PROVE  LiteralDefined(lit) <=> Known(aig, lit)
  <1> DEFINE v == Var(lit)
  <1>1. v \in 0..aig.maxvar /\ types[v] \in Types
    BY LitVar DEF GraphPhase, Corresponds
  <1>2. ASSUME v # 0, types[v].is # "none" PROVE Known(aig, lit)
    <2>1. types[v].is \in Whats /\ Leads(aig, types, v)
      BY <1>1, <1>2 DEF GraphPhase, Corresponds, Types, Whats
    <2> QED
      BY <2>1 DEF Leads, Known
  <1>3. ASSUME NEW w \in Whats, NEW k \in 1..Count(aig, w), Defined(aig, w, k) = 2 * v PROVE types[v].is # "none"
    <2>1. Placed(aig, types, w, k)
      BY DEF GraphPhase, Corresponds
    <2>2. Var(2 * v) = v
      BY <1>1, Doubled
    <2> HIDE DEF v
    <2>3. types[v].is = w
      BY <1>3, <2>1, <2>2 DEF Placed
    <2> QED
      BY <2>3 DEF Whats
  <1> QED
    BY <1>2, <1>3 DEF LiteralDefined, Known
\* AllDefined says of the graph what its entries say: it does not depend on types.
LEMMA AllDefinedIs ==
    ASSUME GraphPhase
    PROVE  AllDefined <=> DefinedIn(aig)
  <1>1. IsGraph(aig)
    BY DEF GraphPhase, GraphOK
  <1>2. /\ \A k \in 1..Len(aig.latches) : aig.latches[k].next \in LitsOf(aig)
        /\ \A k \in 1..Len(aig.ands) : aig.ands[k].rhs0 \in LitsOf(aig) /\ aig.ands[k].rhs1 \in LitsOf(aig)
    BY <1>1, GraphEntries
  <1>3. \A lit \in ToSet(SymbolLits(aig)) : lit \in LitsOf(aig)
    BY <1>1, SymbolLitsAre, SetOfSeq
  <1>4. \A lit \in LitsOf(aig) : LiteralDefined(lit) <=> Known(aig, lit)
    BY KnownIs
  <1>5. /\ \A k \in 1..Len(aig.latches) : LiteralDefined(aig.latches[k].next) <=> Known(aig, aig.latches[k].next)
        /\ \A lit \in ToSet(SymbolLits(aig)) : LiteralDefined(lit) <=> Known(aig, lit)
        /\ \A k \in 1..Len(aig.ands) : /\ LiteralDefined(aig.ands[k].rhs0) <=> Known(aig, aig.ands[k].rhs0)
                                       /\ LiteralDefined(aig.ands[k].rhs1) <=> Known(aig, aig.ands[k].rhs1)
    BY <1>2, <1>3, <1>4
  <1> QED
    BY <1>5 DEF AllDefined, DefinedIn

\* The ands that are numbered in S have one that reads none of S.
ReadsOf(a, i) == {Var(a.ands[i].rhs0), Var(a.ands[i].rhs1)}
AcyclicIn(a) ==
    \A S \in SUBSET (1..Len(a.ands)) :
      S # {} => \E i \in S : \A j \in S : Var(a.ands[j].lhs) \notin ReadsOf(a, i)
\* Acyclic says of the graph what its ands say: any set of ands has one that reads
\* none of the set.  It does not depend on types.
LEMMA AcyclicIs ==
    ASSUME GraphPhase
    PROVE  Acyclic <=> AcyclicIn(aig)
  <1>1. /\ \A v \in GateVars : /\ types[v].idx \in 1..Len(aig.ands) /\ Gate(v) = aig.ands[types[v].idx]
                               /\ Var(Gate(v).lhs) = v
        /\ \A i \in 1..Len(aig.ands) : Var(aig.ands[i].lhs) \in GateVars /\ types[Var(aig.ands[i].lhs)].idx = i
    BY GatesAndAnds
  <1>2. \A v \in GateVars : v # 0 /\ Fanin(v) = ReadsOf(aig, types[v].idx) \ {0}
    BY <1>1 DEF Fanin, ReadsOf, GateVars
  <1>3. ASSUME Acyclic PROVE AcyclicIn(aig)
    <2> SUFFICES ASSUME NEW S \in SUBSET (1..Len(aig.ands)), S # {}
                 PROVE  \E i \in S : \A j \in S : Var(aig.ands[j].lhs) \notin ReadsOf(aig, i)
      BY DEF AcyclicIn
    <2>0. S # {}
      OBVIOUS
    <2> DEFINE V == {Var(aig.ands[i].lhs) : i \in S}
    <2>1. V \in SUBSET GateVars /\ V # {}
      <3>1. \A i \in S : Var(aig.ands[i].lhs) \in GateVars
        BY <1>1
      <3>2. \E i \in S : Var(aig.ands[i].lhs) \in V
        BY <2>0
      <3> QED
        BY <3>1, <3>2
    <2>2. PICK v \in V : Fanin(v) \cap V = {}
      BY <1>3, <2>1 DEF Acyclic
    <2>3. PICK i \in S : v = Var(aig.ands[i].lhs)
      BY <2>2
    <2>4. v \in GateVars /\ v # 0 /\ types[v].idx = i /\ Fanin(v) = ReadsOf(aig, i) \ {0}
      BY <1>1, <1>2, <2>1, <2>3
    <2>5. ASSUME NEW j \in S PROVE Var(aig.ands[j].lhs) \notin ReadsOf(aig, i)
      <3>1. Var(aig.ands[j].lhs) \in V /\ Var(aig.ands[j].lhs) # 0
        BY <1>1, <1>2
      <3> QED
        BY <2>2, <2>4, <3>1
    <2> QED
      BY <2>5
  <1>4. ASSUME AcyclicIn(aig) PROVE Acyclic
    <2> SUFFICES ASSUME NEW V \in SUBSET GateVars, V # {} PROVE \E v \in V : Fanin(v) \cap V = {}
      BY DEF Acyclic
    <2> DEFINE S == {types[v].idx : v \in V}
    <2>1. S \in SUBSET (1..Len(aig.ands)) /\ S # {}
      BY <1>1
    <2>2. PICK i \in S : \A j \in S : Var(aig.ands[j].lhs) \notin ReadsOf(aig, i)
      BY <1>4, <2>1 DEF AcyclicIn
    <2>3. PICK v \in V : i = types[v].idx
      BY <2>2
    <2>4. \A u \in V : u \notin ReadsOf(aig, i)
      <3> SUFFICES ASSUME NEW u \in V PROVE u \notin ReadsOf(aig, i)
        OBVIOUS
      <3>1. types[u].idx \in S /\ Var(aig.ands[types[u].idx].lhs) = u
        BY <1>1
      <3> QED
        BY <2>2, <3>1
    <2>5. Fanin(v) = ReadsOf(aig, i) \ {0}
      BY <1>2, <2>3
    <2> QED
      BY <2>4, <2>5
  <1> QED
    BY <1>3, <1>4

\* Of a graph in order every variable has a definition, if it counts no more.
LEMMA InOrderDefined ==
    ASSUME NEW a, IsGraph(a), InOrder(a), ~UnusedVariables(a)
    PROVE  DefinedIn(a)
  <1> DEFINE I == Len(a.inputs)
             L == Len(a.latches)
             A == Len(a.ands)
  <1>1. /\ I \in Nat /\ L \in Nat /\ A \in Nat /\ a.maxvar \in Nat
        /\ \A k \in 1..L : a.latches[k].next \in LitsOf(a)
        /\ \A k \in 1..A : a.ands[k].rhs0 \in LitsOf(a) /\ a.ands[k].rhs1 \in LitsOf(a)
    BY GraphParts, GraphEntries
  <1>2. \A lit \in ToSet(SymbolLits(a)) : lit \in LitsOf(a)
    BY SymbolLitsAre, SetOfSeq
  <1>3. /\ \A k \in 1..I : Defined(a, "input", k) = 2 * k
        /\ \A k \in 1..L : Defined(a, "latch", k) = 2 * (I + k)
        /\ \A k \in 1..A : Defined(a, "and", k) = 2 * (I + L + k)
        /\ Count(a, "input") = I /\ Count(a, "latch") = L /\ Count(a, "and") = A
    BY DEF InOrder, Defined, Count
  <1>4. a.maxvar <= I + L + A
    <2>1. ~(a.maxvar > I + L + A)
      BY DEF UnusedVariables
    <2> HIDE DEF I, L, A
    <2> QED
      BY <1>1, <2>1
  <1> HIDE DEF I, L, A
  <1>5. ASSUME NEW lit \in LitsOf(a) PROVE Known(a, lit)
    <2> DEFINE v == Var(lit)
    <2>1. v \in 0..a.maxvar
      <3>1. lit \in 0..(2 * a.maxvar + 1)
        BY DEF LitsOf
      <3>2. lit \in Nat
        BY <1>1, <3>1
      <3>3. Var(lit) \in Nat /\ Var(lit) <= a.maxvar
        BY <1>1, <3>1, <3>2, Literals
      <3> QED
        BY <1>1, <3>3
    <2> HIDE DEF v
    <2>2. v = 0 \/ v \in 1..I \/ (v - I) \in 1..L \/ (v - (I + L)) \in 1..A
      BY <1>1, <1>4, <2>1
    <2>3. CASE v \in 1..I
      BY <1>3, <2>3 DEF Known, Whats, v
    <2>4. CASE (v - I) \in 1..L
      <3>1. I + (v - I) = v
        BY <1>1, <2>1
      <3>2. Defined(a, "latch", v - I) = 2 * v
        BY <1>3, <2>4, <3>1
      <3> QED
        BY <1>3, <2>4, <3>2 DEF Known, Whats, v
    <2>5. CASE (v - (I + L)) \in 1..A
      <3>1. I + L + (v - (I + L)) = v
        BY <1>1, <2>1
      <3>2. Defined(a, "and", v - (I + L)) = 2 * v
        BY <1>3, <2>5, <3>1
      <3> QED
        BY <1>3, <2>5, <3>2 DEF Known, Whats, v
    <2> QED
      BY <2>2, <2>3, <2>4, <2>5 DEF Known, v
  <1> QED
    BY <1>1, <1>2, <1>5 DEF DefinedIn, L, A

ReadsBelow(a) ==
    \A k \in 1..Len(a.ands) : \A u \in Nat : a.ands[k].lhs = 2 * u =>
      Var(a.ands[k].rhs0) \in 0..(u - 1) /\ Var(a.ands[k].rhs1) \in 0..(u - 1)
\* A graph in order, whose ands read what comes before them, has no cycle.
LEMMA InOrderAcyclic ==
    ASSUME NEW a, IsGraph(a), InOrder(a), ReadsBelow(a)
    PROVE  AcyclicIn(a)
  <1> DEFINE n == Len(a.inputs) + Len(a.latches)
             A == Len(a.ands)
  <1>1. n \in Nat /\ A \in Nat
    <2>1. Len(a.inputs) \in Nat /\ Len(a.latches) \in Nat /\ Len(a.ands) \in Nat
      BY GraphEntries
    <2>2. \A x, y \in Nat : x + y \in Nat
      OBVIOUS
    <2> QED
      BY <2>1, <2>2
  <1>2. \A k \in 1..A : a.ands[k].lhs = 2 * (n + k)
    BY DEF InOrder
  <1> HIDE DEF n
  <1>3. ASSUME NEW k \in 1..A
        PROVE  /\ k \in Nat /\ n + k \in Nat /\ Var(a.ands[k].lhs) = n + k
               /\ Var(a.ands[k].rhs0) \in 0..((n + k) - 1) /\ Var(a.ands[k].rhs1) \in 0..((n + k) - 1)
    <2>1. k \in Nat /\ n + k \in Nat
      BY <1>1
    <2>2. a.ands[k].lhs = 2 * (n + k)
      BY <1>2
    <2>3. Var(2 * (n + k)) = n + k
      BY <2>1, Doubled
    <2>4. Var(a.ands[k].rhs0) \in 0..((n + k) - 1) /\ Var(a.ands[k].rhs1) \in 0..((n + k) - 1)
      BY <2>1, <2>2 DEF ReadsBelow
    <2> QED
      BY <2>1, <2>2, <2>3, <2>4
  <1> SUFFICES ASSUME NEW S \in SUBSET (1..A), S # {}
               PROVE  \E i \in S : \A j \in S : Var(a.ands[j].lhs) \notin ReadsOf(a, i)
    BY DEF AcyclicIn
  <1> HIDE DEF A
  <1>4. S \in SUBSET Nat
    BY <1>1
  <1>5. PICK i \in S : \A k \in S : i <= k
    BY <1>4, MinOf
  <1>6. ASSUME NEW j \in S PROVE Var(a.ands[j].lhs) \notin ReadsOf(a, i)
    <2>1. i \in Nat /\ j \in Nat /\ i <= j /\ Var(a.ands[j].lhs) = n + j
      BY <1>3, <1>5
    <2>2. \A x \in ReadsOf(a, i) : x \in 0..((n + i) - 1)
      BY <1>3 DEF ReadsOf
    <2>3. n + j \notin 0..((n + i) - 1)
      BY <1>1, <2>1
    <2> QED
      BY <2>1, <2>2, <2>3
  <1> QED
    BY <1>6

\* An entry has one literal, unless it is a justice property.
Singles(a) ==
    \A m \in 1..5 : Kinds[m] # "justice" => \A k \in 1..Size(a, m) : Len(a.symbols[Kinds[m]][k]) = 1
\* A name is one of an entry.
PlacesOf(a, kind) ==
    IF kind = "input" THEN Len(a.inputs)
    ELSE IF kind = "latch" THEN Len(a.latches)
    ELSE IF kind \in ToSet(Kinds) THEN Len(a.symbols[kind]) ELSE 0
NamesFit(a) == \A n \in a.names : n.place <= PlacesOf(a, n.kind)
\* The counts of the entries are words.
CountsFit(a) ==
    /\ Len(a.inputs) < Word /\ Len(a.latches) < Word /\ Len(a.ands) < Word
    /\ \A kind \in ToSet(Kinds) : Len(a.symbols[kind]) < Word

\* Inputs, latches and ands are added without a change to the symbols.
LEMMA SymbolsStay ==
    ASSUME IsGraph(aig), NEW x, NEW y, NEW z, AddInput(x) \/ AddLatch(x, y, z) \/ AddAnd(x, y, z)
    PROVE  aig'.symbols = aig.symbols
  <1> USE DEF Import
  <1>1. aig = [maxvar |-> aig.maxvar, inputs |-> aig.inputs, latches |-> aig.latches,
               symbols |-> aig.symbols, ands |-> aig.ands, names |-> aig.names]
    BY GraphParts
  <1>2. \A m, s : /\ [[aig EXCEPT !.maxvar = m] EXCEPT !.inputs = s].symbols = aig.symbols
                  /\ [[aig EXCEPT !.maxvar = m] EXCEPT !.latches = s].symbols = aig.symbols
                  /\ [[aig EXCEPT !.maxvar = m] EXCEPT !.ands = s].symbols = aig.symbols
    BY <1>1
  <1>3. CASE AddInput(x)
    <2>1. PICK m, s : aig' = [[aig EXCEPT !.maxvar = m] EXCEPT !.inputs = s]
      BY <1>3 DEF AddInput
    <2> QED
      BY <1>2, <2>1
  <1>4. CASE AddLatch(x, y, z)
    <2>1. PICK m, s : aig' = [[aig EXCEPT !.maxvar = m] EXCEPT !.latches = s]
      BY <1>4 DEF AddLatch
    <2> QED
      BY <1>2, <2>1
  <1>5. CASE AddAnd(x, y, z)
    <2>1. PICK m, s : aig' = [[aig EXCEPT !.maxvar = m] EXCEPT !.ands = s]
      BY <1>5 DEF AddAnd
    <2> QED
      BY <1>2, <2>1
  <1> QED
    BY <1>3, <1>4, <1>5

\* It is the symbols only that decide whether they have one literal each.
LEMMA SinglesStay ==
    ASSUME NEW a, NEW b, Singles(a), b.symbols = a.symbols
    PROVE  Singles(b)
  BY DEF Singles, Size

\* A symbol with one literal is added to such symbols.
LEMMA SingleAdded ==
    ASSUME NEW a, NEW b, IsGraph(a), Singles(a), NEW n \in 1..5, NEW lits,
           b.symbols = [a.symbols EXCEPT ![Kinds[n]] = Append(a.symbols[Kinds[n]], lits)],
           Kinds[n] # "justice" => Len(lits) = 1
    PROVE  Singles(b)
  <1> SUFFICES ASSUME NEW m \in 1..5, Kinds[m] # "justice", NEW k \in 1..Size(b, m)
               PROVE  Len(b.symbols[Kinds[m]][k]) = 1
    BY DEF Singles
  <1>1. a.symbols \in [ToSet(Kinds) -> Seq(Seq(LitsOf(a)))] /\ Kinds[m] \in ToSet(Kinds) /\ Kinds[n] \in ToSet(Kinds)
    BY GraphParts, KindNames
  <1>2. CASE m # n
    <2>1. Kinds[m] # Kinds[n]
      BY <1>2, KindNames
    <2>2. b.symbols[Kinds[m]] = a.symbols[Kinds[m]]
      BY <1>1, <2>1
    <2> QED
      BY <2>2 DEF Singles, Size
  <1>3. CASE m = n
    <2> DEFINE s == a.symbols[Kinds[n]]
    <2>1. b.symbols[Kinds[m]] = Append(s, lits) /\ s \in Seq(Seq(LitsOf(a)))
      BY <1>1, <1>3
    <2>2. \A i \in 1..Len(s) : Len(s[i]) = 1
      BY <1>3 DEF Singles, Size
    <2>3. k \in 1..Len(Append(s, lits)) /\ Len(lits) = 1
      BY <1>3, <2>1 DEF Size
    <2> HIDE DEF s
    <2>4. \A A : \A t \in Seq(A) : /\ Len(Append(t, lits)) = Len(t) + 1 /\ Len(t) \in Nat
                                   /\ Append(t, lits)[Len(t) + 1] = lits
                                   /\ \A i \in 1..Len(t) : Append(t, lits)[i] = t[i]
      OBVIOUS
    <2>5. /\ Len(Append(s, lits)) = Len(s) + 1 /\ Len(s) \in Nat
          /\ Append(s, lits)[Len(s) + 1] = lits
          /\ \A i \in 1..Len(s) : Append(s, lits)[i] = s[i]
      BY <2>1, <2>4
    <2>6. PICK t : t = Append(s, lits)
      OBVIOUS
    <2>7. k \in 1..(Len(s) + 1) /\ t[Len(s) + 1] = lits /\ \A i \in 1..Len(s) : t[i] = s[i]
      BY <2>3, <2>5, <2>6
    <2>8. k \in 1..Len(s) \/ k = Len(s) + 1
      BY <2>5, <2>7
    <2>9. Len(t[k]) = 1
      BY <2>2, <2>3, <2>7, <2>8
    <2> QED
      BY <2>1, <2>6, <2>9
  <1> QED
    BY <1>2, <1>3

\* A graph without symbols has only such symbols.
LEMMA NothingSingle ==
    ASSUME NEW a, a.symbols = EmptyGraph.symbols
    PROVE  Singles(a)
  <1>1. \A m \in 1..5 : a.symbols[Kinds[m]] = <<>>
    BY KindNames DEF EmptyGraph
  <1>2. \A m \in 1..5 : Size(a, m) = 0
    BY <1>1 DEF Size
  <1> QED
    BY <1>2 DEF Singles

\* What has been read, or is complete, has no more entries than the header has
\* room to count.
LEMMA CountsRead ==
    ASSUME IsFile(file), file' = file,
           ReadPhase' \/ HeaderOf(aig') = [Header EXCEPT !.maxvar = aig'.maxvar], IsGraph(aig')
    PROVE  CountsFit(aig')
  <1>1. /\ Header.inputs \in Nat /\ Header.latches \in Nat /\ Header.ands \in Nat
        /\ Header.inputs < Word /\ Header.latches < Word /\ Header.ands < Word
        /\ \A kind \in ToSet(Kinds) : Header.symbols[kind] \in Nat /\ Header.symbols[kind] < Word
    <2> DEFINE h == file.header
               X == [ToSet(Kinds) -> Nat]
    <2>1. h \in [ maxvar : Nat, inputs : Nat, latches : Nat, ands : Nat, symbols : X ]
      BY DEF IsFile
    <2> HIDE DEF h, X
    <2>2. h.inputs \in Nat /\ h.latches \in Nat /\ h.ands \in Nat /\ h.symbols \in X
      BY <2>1
    <2>3. \A kind \in ToSet(Kinds) : h.symbols[kind] \in Nat
      BY <2>2 DEF X
    <2>4. /\ Header.inputs = Wrapped(h.inputs) /\ Header.latches = Wrapped(h.latches)
          /\ Header.ands = Wrapped(h.ands)
          /\ \A kind \in ToSet(Kinds) : Header.symbols[kind] = Wrapped(h.symbols[kind])
      BY DEF Header, h
    <2> QED
      BY <2>2, <2>3, <2>4, WrappedIs
  <1>2. Word \in Nat
    BY WordIs
  <1>3. /\ Len(aig'.inputs) \in Nat /\ Len(aig'.latches) \in Nat /\ Len(aig'.ands) \in Nat
        /\ \A kind \in ToSet(Kinds) : Len(aig'.symbols[kind]) \in Nat
    BY GraphEntries
  <1>4. /\ Len(aig'.inputs) <= Header.inputs /\ Len(aig'.latches) <= Header.latches
        /\ Len(aig'.ands) <= Header.ands
        /\ \A kind \in ToSet(Kinds) : Len(aig'.symbols[kind]) <= Header.symbols[kind]
    <2>1. CASE ReadPhase'
      <3>1. Header' = Header
        BY DEF Header
      <3> QED
        BY <2>1, <3>1 DEF ReadPhase, Sections
    <2>2. CASE HeaderOf(aig') = [Header EXCEPT !.maxvar = aig'.maxvar]
      <3> DEFINE h == Header
      <3>1. h = [maxvar |-> h.maxvar, inputs |-> h.inputs, latches |-> h.latches,
                 ands |-> h.ands, symbols |-> h.symbols]
        BY HeaderParts
      <3> HIDE DEF h
      <3>2. HeaderOf(aig') = [h EXCEPT !.maxvar = aig'.maxvar]
        BY <2>2 DEF h
      <3>3. /\ HeaderOf(aig').inputs = h.inputs /\ HeaderOf(aig').latches = h.latches
            /\ HeaderOf(aig').ands = h.ands /\ HeaderOf(aig').symbols = h.symbols
        BY <3>1, <3>2
      <3>4. /\ Len(aig'.inputs) = h.inputs /\ Len(aig'.latches) = h.latches /\ Len(aig'.ands) = h.ands
            /\ \A kind \in ToSet(Kinds) : Len(aig'.symbols[kind]) = h.symbols[kind]
        BY <3>3 DEF HeaderOf
      <3> QED
        BY <1>1, <3>4 DEF h
    <2> QED
      BY <2>1, <2>2
  <1>5. \A x, y, z \in Nat : x <= y /\ y < z => x < z
    OBVIOUS
  <1> QED
    BY <1>1, <1>2, <1>3, <1>4, <1>5 DEF CountsFit

\* The names that ReadNames accepts are those of entries.
LEMMA FitRead ==
    ASSUME IsGraph(aig), NEW names, names \in Seq(Names), NEW b, b = [aig EXCEPT !.names = ToSet(names)],
           \A k \in 1..Len(names) : names[k].place <= SizeOf(names[k].kind)
    PROVE  NamesFit(b)
  <1>1. b.names = ToSet(names) /\ b.inputs = aig.inputs /\ b.latches = aig.latches /\ b.symbols = aig.symbols
    <2>1. aig = [maxvar |-> aig.maxvar, inputs |-> aig.inputs, latches |-> aig.latches,
                 symbols |-> aig.symbols, ands |-> aig.ands, names |-> aig.names]
      BY GraphParts
    <2> DEFINE s == ToSet(names)
    <2> HIDE DEF s
    <2> QED
      BY <2>1 DEF s
  <1>2. \A kind : PlacesOf(b, kind) = SizeOf(kind)
    BY <1>1 DEF PlacesOf, SizeOf
  <1>3. b.names = {names[k] : k \in 1..Len(names)}
    BY <1>1, SetOfSeq
  <1> QED
    BY <1>2, <1>3 DEF NamesFit

\* What reading leaves of a file that was given.
LEMMA SinglesRead ==
    ASSUME IsFile(file), ReadStep, at = "open" => aig = EmptyGraph,
           at = "read" => ReadPhase /\ Singles(aig)
    PROVE  at' = "failed" \/ (Singles(aig') /\ (at' = "check" => NamesFit(aig')))
  <1> USE DEF Read
  <1>1. CASE ReadHeader
    <2>1. at' = "failed" \/ (aig' = [EmptyGraph EXCEPT !.maxvar = Header.maxvar] /\ at' = "read")
      BY <1>1 DEF ReadHeader
    <2>2. [EmptyGraph EXCEPT !.maxvar = Header.maxvar].symbols = EmptyGraph.symbols
      BY DEF EmptyGraph
    <2> QED
      BY <2>1, <2>2, NothingSingle
  <1>2. ASSUME at = "read", ReadPhase PROVE IsGraph(aig) /\ line \in Nat \ {0}
    BY <1>2 DEF ReadPhase, GraphPhase, GraphOK
  <1>3. CASE ReadInput
    <2>1. at = "read" /\ (at' = "failed" \/ (at' = at /\ \E x : AddInput(x)))
      BY <1>3 DEF ReadInput
    <2> QED
      BY <1>2, <2>1, SymbolsStay, SinglesStay
  <1>4. CASE ReadLatch
    <2>1. at = "read" /\ (at' = "failed" \/ (at' = at /\ \E x, y, z : AddLatch(x, y, z)))
      BY <1>4 DEF ReadLatch
    <2> QED
      BY <1>2, <2>1, SymbolsStay, SinglesStay
  <1>5. CASE ReadAsciiAnd
    <2>1. at = "read" /\ (at' = "failed" \/ (at' = at /\ \E x, y, z : AddAnd(x, y, z)))
      BY <1>5 DEF ReadAsciiAnd
    <2> QED
      BY <1>2, <2>1, SymbolsStay, SinglesStay
  <1>6. CASE ReadBinaryAnd
    <2>1. at = "read" /\ (at' = "failed" \/ (at' = at /\ \E x, y, z : AddAnd(x, y, z)))
      BY <1>6 DEF ReadBinaryAnd
    <2> QED
      BY <1>2, <2>1, SymbolsStay, SinglesStay
  <1>7. CASE ReadSymbol
    <2>1. at = "read" /\ (at' = "failed" \/ \E n \in 1..Len(Kinds) :
             at' = at /\ AddSymbol(Kinds[n], Numbers) /\ (Kinds[n] # "justice" => Len(Numbers) = 1))
      BY <1>7 DEF ReadSymbol
    <2>2. CASE at' # "failed"
      <3>1. PICK n \in 1..5 : at' = at /\ AddSymbol(Kinds[n], Numbers) /\ (Kinds[n] # "justice" => Len(Numbers) = 1)
        BY <2>1, <2>2, KindNames
      <3>2. Kinds[n] \in ToSet(Kinds) /\ Numbers \in Seq(0..(Word - 1))
        BY <1>2, <2>1, KindNames, NumbersType
      <3>3. GraphOK(aig) /\ Corresponds(aig, types) /\ NoMarks(aig, types)
        BY <2>1 DEF ReadPhase, GraphPhase
      <3>4. aig'.symbols = [aig.symbols EXCEPT ![Kinds[n]] = Append(aig.symbols[Kinds[n]], Numbers)]
        BY <3>1, <3>2, <3>3, AddSymbolKeeps
      <3> QED
        BY <1>2, <2>1, <3>1, <3>4, SingleAdded
    <2> QED
      BY <2>2
  <1>8. CASE ReadNames
    <2>0. NamesSeen \in Seq(Names) /\ Len(NamesSeen) = Len(file.names)
      BY NamesSeenAre
    <2>1. at = "read" /\ (at' = "failed" \/ (/\ aig' = [aig EXCEPT !.names = ToSet(NamesSeen)]
                                             /\ \A k \in 1..Len(NamesSeen) : NamesSeen[k].place <= SizeOf(NamesSeen[k].kind)))
      BY <1>8, <2>0 DEF ReadNames
    <2>2. CASE at' # "failed"
      <3>1. IsGraph(aig) /\ NamesSeen \in Seq(Names)
        BY <1>2, <2>0, <2>1
      <3>2. NamesFit(aig')
        BY <2>1, <2>2, <3>1, FitRead
      <3>3. aig'.symbols = aig.symbols
        <4> DEFINE s == ToSet(NamesSeen)
        <4>1. aig' = [aig EXCEPT !.names = s] /\ IsGraph(aig)
          BY <2>1, <2>2, <3>1
        <4> HIDE DEF s
        <4>2. aig = [maxvar |-> aig.maxvar, inputs |-> aig.inputs, latches |-> aig.latches,
                     symbols |-> aig.symbols, ands |-> aig.ands, names |-> aig.names]
          BY <4>1, GraphParts
        <4> QED
          BY <4>1, <4>2
      <3> QED
        BY <2>1, <3>2, <3>3, SinglesStay
    <2> QED
      BY <2>2
  <1> QED
    BY <1>1, <1>3, <1>4, <1>5, <1>6, <1>7, <1>8 DEF ReadStep

\* The case in which the written file is refused.
Refused == tool = "toBinary" /\ IsReencoded(given) /\ UnusedVariables(given)
\* What a graph that is handed to a writer has, and what aigtoaig knows of its
\* graph on the way there.
Writable(a) == DefinedIn(a) /\ AcyclicIn(a) /\ a.names = given.names /\ (UnusedVariables(a) <=> Refused)
FirstPass ==
    pass = 1 /\ tool # "aigsim" =>
      /\ at \in {"read", "check", "cycles", "checked", "reencode", "recode", "reencoded"} => Singles(aig)
      /\ at \in {"read", "check", "cycles", "checked", "reencode", "recode", "reencoded"} => CountsFit(aig)
      /\ at \in {"check", "cycles", "checked", "reencode", "recode", "reencoded"} => NamesFit(aig)
      /\ at \in {"reencode", "recode"} => aig = given
      /\ at \in {"reencode", "recode", "reencoded"} => tool = "toBinary"
      /\ at = "recode" => ~IsReencoded(given)
      /\ at = "reencoded" => Writable(aig)

\* aiger_reencode keeps the number of literals of a symbol, and the names.
LEMMA RecodedFits ==
    ASSUME Sound, ResetsWithin, NEW m \in Nat, Coded(m), NEW b, b = RecodedGraph(aig), Singles(aig), NamesFit(aig)
    PROVE  Singles(b) /\ NamesFit(b) /\ b.names = aig.names
  <1>1. b.names = aig.names /\ IsGraph(aig)
    BY RecodedIsGraph DEF Sound, GraphPhase, GraphOK
  <1>2. /\ Len(b.inputs) = Len(aig.inputs) /\ Len(b.latches) = Len(aig.latches)
        /\ \A kind \in ToSet(Kinds) : Len(b.symbols[kind]) = Len(aig.symbols[kind])
    BY EntriesRecoded
  <1>3. \A kind : PlacesOf(b, kind) = PlacesOf(aig, kind)
    BY <1>2 DEF PlacesOf
  <1>4. NamesFit(b)
    BY <1>1, <1>3 DEF NamesFit
  <1>5. \A kind \in ToSet(Kinds) : \A k \in 1..Len(aig.symbols[kind]) :
          Len(b.symbols[kind][k]) = Len(aig.symbols[kind][k])
    BY EntriesRecoded
  <1>6. \A n \in 1..5 : Kinds[n] \in ToSet(Kinds)
    BY KindNames
  <1>7. \A n \in 1..5 : Size(b, n) = Size(aig, n)
    BY <1>2, <1>6 DEF Size
  <1>8. ASSUME NEW n \in 1..5, Kinds[n] # "justice", NEW k \in 1..Size(b, n) PROVE Len(b.symbols[Kinds[n]][k]) = 1
    <2>1. k \in 1..Size(aig, n) /\ Kinds[n] \in ToSet(Kinds)
      BY <1>6, <1>7
    <2>2. Len(aig.symbols[Kinds[n]][k]) = 1
      BY <1>8, <2>1 DEF Singles
    <2> QED
      BY <1>5, <2>1, <2>2 DEF Size
  <1> QED
    BY <1>1, <1>4, <1>8 DEF Singles

\* The graph that aiger_reencode has rebuilt is one that can be written: it is
\* correct, has the names it had, and no unused variables.
LEMMA RebuiltWritable ==
    ASSUME RecodePhase, Rebuild, aig = given, ~IsReencoded(given), Singles(aig), CountsFit(aig), NamesFit(aig),
           UNCHANGED <<tool, given>>
    PROVE  at' = "reencoded" /\ Singles(aig') /\ CountsFit(aig') /\ NamesFit(aig') /\ Writable(aig)'
  <1>1. /\ at' = "reencoded" /\ ReencodedPhase' /\ aig' = RecodedGraph(aig)
        /\ aig'.maxvar = Len(aig'.inputs) + Len(aig'.latches) + Len(aig'.ands)
    BY RebuildStep DEF Rebuild
  <1>2. Sound /\ ResetsWithin /\ \E m \in Nat : Coded(m)
    <2>1. Complete
      BY DEF Complete, Rebuild
    <2> QED
      BY <2>1, CompleteWithin DEF RecodePhase
  <1>3. PICK m \in Nat : Coded(m)
    BY <1>2
  <1>4. Singles(aig') /\ NamesFit(aig') /\ aig'.names = aig.names
    BY <1>1, <1>2, <1>3, RecodedFits
  <1>5. GraphOK(aig') /\ IsReencoded(aig')
    BY <1>1 DEF ReencodedPhase
  <1>6. InOrder(aig') /\ IsGraph(aig')
    BY <1>5, ReencodedInOrder DEF GraphOK
  <1>7. ~UnusedVariables(aig')
    <2>1. aig'.maxvar \in Nat
      BY <1>6, GraphParts
    <2>2. \A p \in Nat : ~(p > p)
      OBVIOUS
    <2>3. ~(aig'.maxvar > Len(aig'.inputs) + Len(aig'.latches) + Len(aig'.ands))
      BY <1>1, <2>1, <2>2
    <2> QED
      BY <2>3 DEF UnusedVariables
  <1>8. DefinedIn(aig')
    BY <1>6, <1>7, InOrderDefined
  <1>9. ReadsBelow(aig')
    BY <1>1, <1>2, <1>3, NewReadsSmaller DEF ReadsBelow
  <1>10. AcyclicIn(aig')
    BY <1>6, <1>9, InOrderAcyclic
  <1>11. ~Refused' /\ aig'.names = given'.names
    BY <1>4 DEF Refused
  <1>12. Writable(aig)'
    BY <1>7, <1>8, <1>10, <1>11 DEF Writable
  <1>13. CountsFit(aig')
    <2>1. /\ Len(aig'.inputs) = Len(aig.inputs) /\ Len(aig'.latches) = Len(aig.latches)
          /\ \A kind \in ToSet(Kinds) : Len(aig'.symbols[kind]) = Len(aig.symbols[kind])
      BY <1>1, <1>2, <1>3, EntriesRecoded
    <2>2. Len(aig'.ands) < Word
      <3>1. /\ Len(aig'.inputs) \in Nat /\ Len(aig'.latches) \in Nat /\ Len(aig'.ands) \in Nat
            /\ 2 * aig'.maxvar + 1 < Word /\ Word \in Nat
        BY <1>5, <1>6, GraphEntries, WordIs DEF GraphOK
      <3>2. \A i, l, d, w \in Nat : 2 * (i + l + d) + 1 < w => d < w
        OBVIOUS
      <3> QED
        BY <1>1, <3>1, <3>2
    <2> QED
      BY <2>1, <2>2 DEF CountsFit
  <1> QED
    BY <1>1, <1>4, <1>12, <1>13

\* What is known of the graph on its way to the writer is known after every step of
\* the first pass.
LEMMA FirstPassStep ==
    ASSUME ToolsInv, FirstPass, [ToolsNext]_toolVars,
           pass = 1, pass' = 1, tool # "aigsim"
    PROVE  FirstPass'
  <1>1. IsFile(file) /\ Phases
    BY DEF ToolsInv
  <1>2. /\ at \in {"read", "check", "cycles", "checked", "reencode", "recode", "reencoded"} => Singles(aig)
        /\ at \in {"read", "check", "cycles", "checked", "reencode", "recode", "reencoded"} => CountsFit(aig)
        /\ at \in {"check", "cycles", "checked", "reencode", "recode", "reencoded"} => NamesFit(aig)
        /\ at \in {"reencode", "recode"} => aig = given
        /\ at \in {"reencode", "recode", "reencoded"} => tool = "toBinary"
        /\ at = "recode" => ~IsReencoded(given)
        /\ at = "reencoded" => Writable(aig)
    BY DEF FirstPass
  <1>3. CASE UNCHANGED toolVars
    <2>1. UNCHANGED <<aig, at, given, tool>>
      BY <1>3 DEF toolVars, graphVars
    <2>2. Refused' <=> Refused
      BY <2>1 DEF Refused
    <2>3. Writable(aig)' <=> Writable(aig)
      BY <2>1, <2>2 DEF Writable
    <2> QED
      BY <1>2, <2>1, <2>3 DEF FirstPass
  <1>4. CASE Reading
    <2>1. ReadStep /\ UNCHANGED <<tool, given>>
      BY <1>4 DEF Reading
    <2>2. at \in {"open", "read"}
      BY <2>1 DEF ReadStep, ReadHeader, ReadInput, ReadLatch, ReadSymbol, ReadAsciiAnd, ReadBinaryAnd, ReadNames
    <2>3. (at = "open" => OpenPhase) /\ (at = "read" => ReadPhase)
      BY <1>1 DEF Phases
    <2>4. at' \in {"read", "check", "failed"}
      BY <1>1, <2>1, <2>3, ReadStepKeeps DEF OpenPhase, Failed
    <2>5. at' = "failed" \/ (Singles(aig') /\ (at' = "check" => NamesFit(aig')))
      BY <1>1, <1>2, <2>1, <2>3, SinglesRead DEF OpenPhase
    <2>6. at' = "failed" \/ CountsFit(aig')
      <3>1. /\ file' = file
            /\ \/ at' = "failed"
               \/ at' = "read" /\ ReadPhase'
               \/ at' = "check" /\ CheckStart' /\ AcceptedAsAnnounced'
        BY <1>1, <2>1, <2>3, ReadStepKeeps DEF OpenPhase, Failed
      <3>2. CASE at' = "read" /\ ReadPhase'
        <4>1. IsGraph(aig')
          BY <3>2 DEF ReadPhase, GraphPhase, GraphOK
        <4> QED
          BY <1>1, <3>1, <3>2, <4>1, CountsRead
      <3>3. CASE at' = "check" /\ CheckStart' /\ AcceptedAsAnnounced'
        <4>1. IsGraph(aig')
          BY <3>3 DEF CheckStart, GraphPhase, GraphOK
        <4>2. HeaderOf(aig') = [Header EXCEPT !.maxvar = aig'.maxvar]
          <5>1. Header' = Header
            BY <3>1 DEF Header
          <5> QED
            BY <3>3, <5>1 DEF AcceptedAsAnnounced
        <4> QED
          BY <1>1, <3>1, <4>1, <4>2, CountsRead
      <3> QED
        BY <3>1, <3>2, <3>3
    <2> QED
      BY <2>4, <2>5, <2>6 DEF FirstPass
  <1>5. CASE Checking
    <2>1. CheckStep
      BY <1>5 DEF Checking
    <2>2. /\ at \in {"check", "cycles"} /\ at' \in {"cycles", "failed", "checked"} /\ aig' = aig
      BY <2>1 DEF CheckStep, CheckDefined, NextRoot, CycleFound, PopVisited, Enter, Leave, CheckPassed, Searching
    <2> QED
      BY <1>2, <2>2 DEF FirstPass
  <1>6. CASE MoveOutputs \/ PrepareBinary \/ WriteAscii \/ WriteBinary
    <2>1. PrepareBinary
      BY <1>6 DEF MoveOutputs, WriteAscii, WriteBinary, Write
    <2>2. at = "checked" /\ at' = "reencode" /\ aig' = aig /\ given' = aig /\ tool' = "toBinary"
      BY <2>1 DEF PrepareBinary, Keep
    <2> QED
      BY <1>2, <2>2 DEF FirstPass
  <1>7. CASE Recoded
    <2>1. ReencodeStep /\ UNCHANGED <<given, tool>>
      BY <1>7 DEF Recoded
    <2>2. Refused' <=> Refused
      BY <2>1 DEF Refused
    <2>3. CASE StartReencode
      <3>1. /\ at = "reencode" /\ aig' = aig /\ aig = given /\ tool = "toBinary"
            /\ \/ at' = "reencoded" /\ IsReencoded(aig)
               \/ at' = "recode" /\ ~IsReencoded(aig)
        BY <1>2, <2>3 DEF StartReencode
      <3>2. Singles(aig') /\ CountsFit(aig') /\ NamesFit(aig') /\ aig' = given' /\ tool' = "toBinary"
        BY <1>2, <2>1, <3>1
      <3>3. CASE at' = "recode" /\ ~IsReencoded(aig)
        BY <2>1, <3>1, <3>2, <3>3 DEF FirstPass
      <3>4. CASE at' = "reencoded" /\ IsReencoded(aig)
        <4>1. GraphPhase /\ AllDefined /\ Acyclic
          BY <1>1, <3>1 DEF Phases, CheckedPhase
        <4>2. DefinedIn(aig) /\ AcyclicIn(aig)
          BY <4>1, AllDefinedIs, AcyclicIs
        <4>3. UnusedVariables(aig) <=> Refused
          BY <3>1, <3>4 DEF Refused
        <4>4. Writable(aig)'
          BY <2>1, <2>2, <3>1, <4>2, <4>3 DEF Writable
        <4> QED
          BY <3>2, <3>4, <4>4 DEF FirstPass
      <3> QED
        BY <3>1, <3>3, <3>4
    <2>4. CASE NextStart \/ PopCoded \/ Expand \/ Number
      <3>1. at = "recode" /\ at' \in {at, "undefined"} /\ aig' = aig
        BY <2>4 DEF NextStart, PopCoded, Expand, Number, Recoding
      <3>2. Singles(aig) /\ CountsFit(aig) /\ NamesFit(aig) /\ aig = given /\ tool = "toBinary" /\ ~IsReencoded(given)
        BY <1>2, <3>1
      <3> QED
        BY <2>1, <3>1, <3>2 DEF FirstPass
    <2>5. CASE Rebuild
      <3>1. at = "recode"
        BY <2>5 DEF Rebuild
      <3>2. RecodePhase
        BY <1>1, <3>1 DEF Phases
      <3>3. Singles(aig) /\ CountsFit(aig) /\ NamesFit(aig) /\ aig = given /\ tool = "toBinary" /\ ~IsReencoded(given)
        BY <1>2, <3>1
      <3>4. at' = "reencoded" /\ Singles(aig') /\ CountsFit(aig') /\ NamesFit(aig') /\ Writable(aig)'
        BY <2>1, <2>5, <3>2, <3>3, RebuiltWritable
      <3> QED
        BY <2>1, <3>3, <3>4 DEF FirstPass
    <2> QED
      BY <2>1, <2>3, <2>4, <2>5 DEF ReencodeStep
  <1> QED
    BY <1>3, <1>4, <1>5, <1>6, <1>7 DEF ToolsNext, ToolStep

\* The graph that a file has been written for.
WrittenGraph(g) ==
    /\ GraphOK(g) /\ Shows(file, g) /\ Singles(g) /\ CountsFit(g) /\ NamesFit(g)
    /\ DefinedIn(g) /\ AcyclicIn(g)
    /\ IF Ascii THEN Apart(g) ELSE InOrder(g)
    /\ SameFunctions(given, g, ToSet(Kinds)) /\ g.names = given.names
    /\ (~Ascii /\ UnusedVariables(g)) <=> Refused
\* Of a sequence, the beginning has been built; and one entry more.
Begins(s, t) == Len(s) <= Len(t) /\ \A k \in 1..Len(s) : s[k] = t[k]
Grows(s, u, t) ==
    /\ Len(s) \in Nat /\ Len(t) \in Nat /\ Len(s) < Len(t)
    /\ Len(u) = Len(s) + 1 /\ u[Len(s) + 1] = t[Len(s) + 1]
    /\ \A k \in 1..Len(s) : u[k] = s[k]
\* With one entry more, it is still the beginning.
LEMMA GrowsOn ==
    ASSUME NEW s, NEW t, NEW u, Begins(s, t), Grows(s, u, t)
    PROVE  Begins(u, t)
  <1>1. PICK n, m \in Nat : n = Len(s) /\ m = Len(t)
    BY DEF Grows
  <1>2. /\ n < m /\ Len(u) = n + 1 /\ u[n + 1] = t[n + 1] /\ \A k \in 1..n : u[k] = s[k] /\ s[k] = t[k]
    BY <1>1 DEF Begins, Grows
  <1>3. \A k \in 1..(n + 1) : k \in 1..n \/ k = n + 1
    BY <1>1
  <1>4. n + 1 <= m
    BY <1>1, <1>2
  <1> QED
    BY <1>1, <1>2, <1>3, <1>4 DEF Begins

\* Of a graph another one has been built, section by section.
InTurn(a, g) == \A m, n \in 1..5 : m < n /\ Size(a, n) # 0 => Size(a, m) = Size(g, m)
SoFar(a, g) ==
    /\ a.maxvar = g.maxvar
    /\ Begins(a.inputs, g.inputs) /\ Begins(a.latches, g.latches) /\ Begins(a.ands, g.ands)
    /\ \A m \in 1..5 : Begins(a.symbols[Kinds[m]], g.symbols[Kinds[m]])
    /\ InTurn(a, g)
LinesOf(a, ascii) == (IF ascii THEN Len(a.inputs) + Len(a.ands) ELSE 0) + Len(a.latches) + Before(a, 6)
Progress(g) == SoFar(aig, g) /\ line = 1 + LinesOf(aig, Ascii)

\* The ASCII file of a graph that aiger_check has accepted is one of a written graph.
LEMMA AsciiWritten ==
    ASSUME CheckedPhase, WriteAscii, Singles(aig), CountsFit(aig), NamesFit(aig), NEW g, g = aig
    PROVE  WrittenGraph(g)' /\ at' = "open"
  <1>1. /\ given' = aig /\ file' = AsciiFile(aig) /\ tool' = "toAscii" /\ at' = "open"
    BY DEF WriteAscii, Keep, Write
  <1>2. GraphPhase /\ AllDefined /\ Acyclic /\ GraphOK(aig) /\ Corresponds(aig, types)
    BY DEF CheckedPhase, GraphPhase
  <1>3. DefinedIn(g) /\ AcyclicIn(g) /\ Apart(g) /\ GraphOK(g)
    BY <1>2, AllDefinedIs, AcyclicIs, CorrespondsApart
  <1>4. Shows(file', g)
    BY <1>1, <1>3, AsciiShows
  <1>5. Ascii'
    BY <1>1 DEF Ascii, AsciiFile
  <1>6. SameFunctions(given', g, ToSet(Kinds))
    <2>1. SameAsFar(g, g, ToSet(Kinds)) /\ \A k \in 1..Len(g.latches) : g.latches[k].reset \in Nat
      BY <1>3, EntryNumbers DEF SameAsFar, GraphOK
    <2>2. SameFunctions(g, g, ToSet(Kinds))
      BY <2>1, SameAsFarSameFunctions
    <2> QED
      BY <1>1, <2>2
  <1>7. ~Refused'
    BY <1>1 DEF Refused
  <1>8. g.names = given'.names
    BY <1>1
  <1> QED
    BY <1>1, <1>3, <1>4, <1>5, <1>6, <1>7, <1>8 DEF WrittenGraph

\* So is the binary file of a graph that has been re-encoded.
LEMMA BinaryWritten ==
    ASSUME ReencodedPhase, FunctionsKept, WriteBinary, Singles(aig), CountsFit(aig), NamesFit(aig), Writable(aig),
           NEW g, g = aig
    PROVE  WrittenGraph(g)' /\ at' = "open"
  <1>1. /\ given' = given /\ file' = BinaryFile(aig) /\ tool' = "toBinary" /\ tool = "toBinary"
        /\ at = "reencoded" /\ at' = "open"
    BY DEF WriteBinary, Write
  <1>2. GraphOK(g) /\ IsReencoded(g)
    BY DEF ReencodedPhase
  <1>3. Shows(file', g)
    BY <1>1, <1>2, BinaryShows
  <1>4. ~Ascii'
    <2>1. file'.mode = "binary"
      <3>1. BinaryFile(aig).mode = "binary"
        BY BinaryFileParts
      <3> QED
        BY <1>1, <3>1
    <2> QED
      BY <2>1 DEF Ascii
  <1>5. InOrder(g)
    BY <1>2, ReencodedInOrder
  <1>6. SameFunctions(given', g, ToSet(Kinds))
    BY <1>1 DEF FunctionsKept
  <1>7. Refused' <=> Refused
    BY <1>1 DEF Refused
  <1>8. DefinedIn(g) /\ AcyclicIn(g) /\ g.names = given'.names /\ (UnusedVariables(g) <=> Refused')
    BY <1>1, <1>7 DEF Writable
  <1> QED
    BY <1>1, <1>2, <1>3, <1>4, <1>5, <1>6, <1>8 DEF WrittenGraph

\* While neither the file nor the graph given changes, it remains one.
LEMMA WrittenStays ==
    ASSUME NEW g, WrittenGraph(g), UNCHANGED <<file, tool, given>>
    PROVE  WrittenGraph(g)' /\ (Refused' <=> Refused) /\ (Ascii' <=> Ascii)
  <1>1. (Refused' <=> Refused) /\ (Ascii' <=> Ascii)
    BY DEF Refused, Ascii
  <1> QED
    BY <1>1 DEF WrittenGraph

(***************************************************************************)
(* Reading what has been written.                                          *)
(***************************************************************************)
\* The numbers of a written line are read as they are.
LEMMA LineRead ==
    ASSUME line \in 1..Len(file.lines), NEW s, s = file.lines[line], s \in Seq(0..(Word - 1))
    PROVE  Numbers = s
  <1>1. \A k \in 1..Len(s) : s[k] \in Nat /\ s[k] < Word
    BY WordIs
  <1>2. \A n \in Nat : n < Word => n % Word = n
    <2>1. \A n \in Nat : \A d \in Nat \ {0} : n < d => n % d = n
      OBVIOUS
    <2>2. Word \in Nat \ {0}
      BY WordIs
    <2> QED
      BY <2>1, <2>2
  <1>3. \A k \in 1..Len(s) : Wrapped(s[k]) = s[k]
    BY <1>1, <1>2 DEF Wrapped
  <1>4. s = [k \in 1..Len(s) |-> s[k]]
    OBVIOUS
  <1>5. Numbers = [k \in 1..Len(s) |-> Wrapped(s[k])]
    BY DEF Numbers
  <1> QED
    BY <1>3, <1>4, <1>5
\* The literals of a graph are within a word.
LEMMA LitsInWord ==
    ASSUME NEW g, GraphOK(g)
    PROVE  LitsOf(g) \in SUBSET (0..(Word - 1))
  <1>1. g.maxvar \in Nat /\ 2 * g.maxvar + 1 < Word /\ Word \in Nat
    BY WordIs, GraphParts DEF GraphOK
  <1> QED
    BY <1>1 DEF LitsOf

\* What a written graph defines next can be defined.
LEMMA DefinableNext ==
    ASSUME GraphPhase, NEW g, GraphOK(g), Apart(g), aig.maxvar = g.maxvar,
           \A w \in Whats : \A k \in 1..Count(aig, w) : Defined(aig, w, k) = Defined(g, w, k) /\ k \in 1..Count(g, w),
           NEW w \in Whats, NEW k \in 1..Count(g, w), k \notin 1..Count(aig, w)
    PROVE  /\ Definable(Defined(g, w, k)) /\ Var(Defined(g, w, k)) \in 1..aig.maxvar
           /\ Defined(g, w, k) = 2 * Var(Defined(g, w, k)) /\ types[Var(Defined(g, w, k))].is = "none"
  <1> DEFINE lit == Defined(g, w, k)
             v == Var(lit)
  <1>1. v \in 1..aig.maxvar /\ lit = 2 * v /\ aig.maxvar \in Nat
    BY GraphParts DEF Apart, GraphPhase, GraphOK
  <1>2. types[v].is = "none"
    <2>1. v \in 0..aig.maxvar /\ types[v] \in Types /\ Leads(aig, types, v)
      BY <1>1 DEF GraphPhase, Corresponds
    <2>2. ASSUME types[v].is \in Whats PROVE FALSE
      <3> DEFINE x == types[v].is
                 l == types[v].idx
      <3>1. x \in Whats /\ l \in 1..Count(aig, x) /\ Defined(aig, x, l) = 2 * v
        BY <2>1, <2>2 DEF Leads
      <3> HIDE DEF x, l
      <3>2. Defined(g, x, l) = lit /\ l \in 1..Count(g, x)
        BY <1>1, <3>1
      <3>3. w = x /\ k = l
        BY <3>1, <3>2 DEF Apart
      <3> QED
        BY <3>1, <3>3
    <2> QED
      BY <2>1, <2>2 DEF Types, Whats
  <1>3. lit # 0 /\ ~IsNeg(lit)
    <2>1. v \in Nat /\ v # 0
      BY <1>1
    <2>2. ~IsNeg(2 * v) /\ 2 * v # 0
      BY <2>1, Doubled
    <2> QED
      BY <1>1, <2>2
  <1>4. v <= aig.maxvar
    BY <1>1
  <1> HIDE DEF lit
  <1>5. Definable(lit)
    BY <1>2, <1>3, <1>4 DEF Definable
  <1> QED
    BY <1>1, <1>2, <1>5 DEF lit

\* The counts of the header are those of the graph, since they are words.
LEMMA HeaderSays ==
    ASSUME NEW g, Shows(file, g), GraphOK(g), CountsFit(g)
    PROVE  /\ Header.maxvar = g.maxvar /\ Header.inputs = Len(g.inputs) /\ Header.latches = Len(g.latches)
           /\ Header.ands = Len(g.ands) /\ \A m \in 1..5 : Header.symbols[Kinds[m]] = Size(g, m)
           /\ ~file.cut
  <1>1. file.header = HeaderOf(g) /\ file.cut = FALSE
    BY DEF Shows
  <1>2. /\ g.maxvar \in Nat /\ g.maxvar < Word
        /\ Len(g.inputs) \in Nat /\ Len(g.latches) \in Nat /\ Len(g.ands) \in Nat
        /\ \A kind \in ToSet(Kinds) : Len(g.symbols[kind]) \in Nat
    <2>1. g.maxvar \in Nat /\ 2 * g.maxvar + 1 < Word /\ Word \in Nat
      BY GraphParts, WordIs DEF GraphOK
    <2> QED
      BY <2>1, GraphEntries DEF GraphOK
  <1>3. /\ Wrapped(g.maxvar) = g.maxvar /\ Wrapped(Len(g.inputs)) = Len(g.inputs)
        /\ Wrapped(Len(g.latches)) = Len(g.latches) /\ Wrapped(Len(g.ands)) = Len(g.ands)
        /\ \A kind \in ToSet(Kinds) : Wrapped(Len(g.symbols[kind])) = Len(g.symbols[kind])
    BY <1>2, WrappedIs DEF CountsFit
  <1>4. \A kind \in ToSet(Kinds) : Header.symbols[kind] = Len(g.symbols[kind])
    BY <1>1, <1>3 DEF Header, HeaderOf
  <1>5. \A m \in 1..5 : Header.symbols[Kinds[m]] = Size(g, m)
    BY <1>4, KindNames DEF Size
  <1>6. /\ Header.maxvar = g.maxvar /\ Header.inputs = Len(g.inputs) /\ Header.latches = Len(g.latches)
        /\ Header.ands = Len(g.ands)
    BY <1>1, <1>3 DEF Header, HeaderOf
  <1> QED
    BY <1>1, <1>5, <1>6

\* The header that has been written is accepted, or the file is one that is refused;
\* the first line comes next (aiger.c, aiger_read_header).
LEMMA HeaderReads ==
    ASSUME IsFile(file), NEW g, WrittenGraph(g), ReadHeader
    PROVE  (at' = "failed" /\ Refused) \/ (at' = "read" /\ ~Refused /\ Progress(g)')
  <1>1. /\ Header.maxvar = g.maxvar /\ Header.inputs = Len(g.inputs) /\ Header.latches = Len(g.latches)
        /\ Header.ands = Len(g.ands)
    BY HeaderSays DEF WrittenGraph
  <1>2. IsGraph(g) /\ GraphOK(g)
    BY DEF WrittenGraph, GraphOK
  <1> DEFINE n == Header.inputs + Header.latches + Header.ands
  <1>3. ~Ascii => (n % Word # Header.maxvar <=> UnusedVariables(g))
    <2> SUFFICES ASSUME ~Ascii PROVE n % Word # Header.maxvar <=> UnusedVariables(g)
      OBVIOUS
    <2>1. n \in Nat /\ n < Word /\ Word \in Nat \ {0} /\ g.maxvar \in Nat
      BY <1>2, HeaderParts, WordIs, GraphParts
    <2>2. n <= g.maxvar
      BY <1>1 DEF InOrder, WrittenGraph
    <2>3. UnusedVariables(g) <=> g.maxvar > n
      BY <1>1 DEF UnusedVariables
    <2>4. \A x \in Nat : \A d \in Nat \ {0} : x < d => x % d = x
      OBVIOUS
    <2> HIDE DEF n
    <2>5. n % Word = n
      BY <2>1, <2>4
    <2> QED
      BY <1>1, <2>1, <2>2, <2>3, <2>5
  <1>4. (~Ascii /\ UnusedVariables(g)) <=> Refused
    BY DEF WrittenGraph
  <1>5. CASE ~Ascii /\ n % Word # Header.maxvar
    BY <1>3, <1>4, <1>5 DEF ReadHeader
  <1>6. CASE ~(~Ascii /\ n % Word # Header.maxvar)
    <2>1. at' = "read" /\ aig' = [EmptyGraph EXCEPT !.maxvar = Header.maxvar] /\ line' = 1 /\ ~Refused
      BY <1>3, <1>4, <1>6 DEF ReadHeader
    <2>2. /\ aig'.maxvar = g.maxvar /\ aig'.inputs = <<>> /\ aig'.latches = <<>> /\ aig'.ands = <<>>
          /\ \A m \in 1..5 : aig'.symbols[Kinds[m]] = <<>>
      BY <1>1, <2>1, KindNames DEF EmptyGraph
    <2>3. \A m \in 1..5 : Size(aig', m) = 0
      BY <2>2 DEF Size
    <2>4. \A t : Len(t) \in Nat => Begins(<<>>, t)
      BY DEF Begins
    <2>0. /\ Len(g.inputs) \in Nat /\ Len(g.latches) \in Nat /\ Len(g.ands) \in Nat
          /\ \A m \in 1..5 : Len(g.symbols[Kinds[m]]) \in Nat
      BY <1>2, GraphEntries, SizesBound DEF Size
    <2>5. /\ Begins(aig'.inputs, g.inputs) /\ Begins(aig'.latches, g.latches) /\ Begins(aig'.ands, g.ands)
          /\ \A m \in 1..5 : Begins(aig'.symbols[Kinds[m]], g.symbols[Kinds[m]])
      BY <2>0, <2>2, <2>4
    <2>6. SoFar(aig', g)
      BY <2>2, <2>3, <2>5 DEF SoFar, InTurn
    <2>7. LinesOf(aig', Ascii') = 0
      <3>1. Before(aig', 6) = 0
        <4>1. Size(aig', 1) = 0 /\ Size(aig', 2) = 0 /\ Size(aig', 3) = 0 /\ Size(aig', 4) = 0 /\ Size(aig', 5) = 0
          BY <2>3
        <4> QED
          BY <4>1 DEF Before
      <3>2. Len(aig'.inputs) = 0 /\ Len(aig'.latches) = 0 /\ Len(aig'.ands) = 0
        BY <2>2
      <3> QED
        BY <3>1, <3>2 DEF LinesOf
    <2> QED
      BY <2>1, <2>6, <2>7 DEF Progress
  <1> QED
    BY <1>5, <1>6

\* How far the reader is.
LEMMA ReadSoFar ==
    ASSUME IsFile(file), ReadPhase, NEW g, WrittenGraph(g), Progress(g)
    PROVE  /\ IsGraph(g) /\ IsGraph(aig) /\ GraphOK(g) /\ SoFar(aig, g) /\ Shows(file, g)
           /\ Len(aig.inputs) \in Nat /\ Len(aig.latches) \in Nat /\ Len(aig.ands) \in Nat
           /\ Len(g.inputs) \in Nat /\ Len(g.latches) \in Nat /\ Len(g.ands) \in Nat
           /\ Len(aig.inputs) <= Len(g.inputs) /\ Len(aig.latches) <= Len(g.latches) /\ Len(aig.ands) <= Len(g.ands)
           /\ \A m \in 1..5 : Size(aig, m) \in Nat /\ Size(g, m) \in Nat /\ Size(aig, m) <= Size(g, m)
           /\ InputsRead <=> Len(aig.inputs) = Len(g.inputs)
           /\ LatchesRead <=> InputsRead /\ Len(aig.latches) = Len(g.latches)
           /\ \A n \in 0..5 : KindsRead(n) <=> LatchesRead /\ \A m \in 1..n : Size(aig, m) = Size(g, m)
           /\ AndsRead <=> SymbolsRead /\ Len(aig.ands) = Len(g.ands)
           /\ line = 1 + LinesOf(aig, Ascii) /\ Before(aig, 6) \in Nat
           /\ aig.names = {}
  <1>1. /\ Header.maxvar = g.maxvar /\ Header.inputs = Len(g.inputs) /\ Header.latches = Len(g.latches)
        /\ Header.ands = Len(g.ands) /\ \A m \in 1..5 : Header.symbols[Kinds[m]] = Size(g, m)
    BY HeaderSays DEF WrittenGraph
  <1>2. IsGraph(g) /\ GraphOK(g) /\ IsGraph(aig) /\ Shows(file, g) /\ aig.names = {}
    BY DEF WrittenGraph, GraphOK, ReadPhase, GraphPhase, Sections
  <1>3. SoFar(aig, g) /\ line = 1 + LinesOf(aig, Ascii)
    BY DEF Progress
  <1>4. /\ Len(aig.inputs) \in Nat /\ Len(aig.latches) \in Nat /\ Len(aig.ands) \in Nat
        /\ Len(g.inputs) \in Nat /\ Len(g.latches) \in Nat /\ Len(g.ands) \in Nat
    BY <1>2, GraphEntries
  <1>5. Before(aig, 6) \in Nat /\ \A m \in 1..5 : Size(aig, m) \in Nat /\ Size(g, m) \in Nat
    BY <1>2, SizesBound
  <1>6. /\ Len(aig.inputs) <= Len(g.inputs) /\ Len(aig.latches) <= Len(g.latches) /\ Len(aig.ands) <= Len(g.ands)
        /\ \A m \in 1..5 : Size(aig, m) <= Size(g, m)
    BY <1>3 DEF SoFar, Begins, Size
  <1>7. ASSUME NEW n \in 0..5 PROVE KindsRead(n) <=> LatchesRead /\ \A m \in 1..n : Size(aig, m) = Size(g, m)
    <2>1. \A m \in 1..n : m \in 1..5
      OBVIOUS
    <2> QED
      BY <1>1, <2>1 DEF KindsRead, Size
  <1>8. (InputsRead <=> Len(aig.inputs) = Len(g.inputs)) /\ (LatchesRead <=> InputsRead /\ Len(aig.latches) = Len(g.latches))
    BY <1>1 DEF InputsRead, LatchesRead
  <1>9. AndsRead <=> SymbolsRead /\ Len(aig.ands) = Len(g.ands)
    BY <1>1 DEF AndsRead
  <1> QED
    BY <1>2, <1>3, <1>4, <1>5, <1>6, <1>7, <1>8, <1>9

\* The sections behind the one that is read are empty.
LEMMA SectionsBehind ==
    ASSUME IsFile(file), ReadPhase
    PROVE  /\ ~InputsRead => Len(aig.latches) = 0 /\ ~LatchesRead
           /\ ~LatchesRead => Before(aig, 6) = 0 /\ ~SymbolsRead
           /\ ~SymbolsRead => Len(aig.ands) = 0
  <1>1. /\ ~InputsRead => Len(aig.latches) = 0
        /\ ~LatchesRead => \A kind \in ToSet(Kinds) : Len(aig.symbols[kind]) = 0
        /\ ~SymbolsRead => Len(aig.ands) = 0
        /\ SymbolsRead => LatchesRead
        /\ LatchesRead => InputsRead
    BY LaterSectionsEmpty
  <1>2. ASSUME ~LatchesRead PROVE Before(aig, 6) = 0
    <2>1. \A m \in 1..5 : Size(aig, m) = 0
      BY <1>1, <1>2, KindNames DEF Size
    <2>2. Size(aig, 1) = 0 /\ Size(aig, 2) = 0 /\ Size(aig, 3) = 0 /\ Size(aig, 4) = 0 /\ Size(aig, 5) = 0
      BY <2>1
    <2> QED
      BY <2>2 DEF Before
  <1> QED
    BY <1>1, <1>2

\* The lines of a written file.
LEMMA LinesThere ==
    ASSUME NEW g, Shows(file, g), IsGraph(g)
    PROVE  /\ Len(file.lines) = LinesOf(g, Ascii) /\ Len(file.lines) \in Nat /\ Before(g, 6) \in Nat
           /\ Ascii <=> file.mode = "ascii"
  <1>1. /\ Len(g.inputs) \in Nat /\ Len(g.latches) \in Nat /\ Len(g.ands) \in Nat
        /\ Before(g, 6) \in Nat
    BY GraphEntries, SizesBound
  <1>2. PICK i, n, d, b \in Nat : i = Len(g.inputs) /\ n = Len(g.latches) /\ d = Len(g.ands) /\ b = Before(g, 6)
    BY <1>1
  <1>3. Len(file.lines) = IF Ascii THEN i + n + b + d ELSE 0 + n + b + 0
    BY <1>2 DEF Shows, Ascii
  <1>4. LinesOf(g, Ascii) = IF Ascii THEN (i + d) + n + b ELSE 0 + n + b
    BY <1>2 DEF LinesOf
  <1>5. \A p, q, r, s \in Nat : /\ p + q + s + r = (p + r) + q + s /\ p + q + s + r \in Nat
                                /\ 0 + q + s + 0 = 0 + q + s /\ 0 + q + s \in Nat
    OBVIOUS
  <1>6. LinesOf(g, Ascii) \in Nat /\ Len(file.lines) = LinesOf(g, Ascii)
    <2>1. /\ i + n + b + d = (i + d) + n + b /\ i + n + b + d \in Nat
          /\ 0 + n + b + 0 = 0 + n + b /\ 0 + n + b \in Nat
      BY <1>5
    <2> QED
      BY <1>3, <1>4, <2>1
  <1> QED
    BY <1>2, <1>6 DEF Ascii

\* The entries there are define what the graph's do.
LEMMA SoFarDefines ==
    ASSUME NEW a, NEW g, IsGraph(a), IsGraph(g), SoFar(a, g)
    PROVE  \A w \in Whats : \A l \in 1..Count(a, w) : Defined(a, w, l) = Defined(g, w, l) /\ l \in 1..Count(g, w)
  <1>1. /\ Len(a.inputs) \in Nat /\ Len(a.latches) \in Nat /\ Len(a.ands) \in Nat
        /\ Len(g.inputs) \in Nat /\ Len(g.latches) \in Nat /\ Len(g.ands) \in Nat
    BY GraphEntries
  <1>2. \A x, y \in Nat : x <= y => \A l \in 1..x : l \in 1..y
    OBVIOUS
  <1>3. /\ Len(a.inputs) <= Len(g.inputs) /\ \A l \in 1..Len(a.inputs) : a.inputs[l] = g.inputs[l]
        /\ Len(a.latches) <= Len(g.latches) /\ \A l \in 1..Len(a.latches) : a.latches[l] = g.latches[l]
        /\ Len(a.ands) <= Len(g.ands) /\ \A l \in 1..Len(a.ands) : a.ands[l] = g.ands[l]
    BY DEF SoFar, Begins
  <1>4. /\ \A l \in 1..Len(a.inputs) : l \in 1..Len(g.inputs)
        /\ \A l \in 1..Len(a.latches) : l \in 1..Len(g.latches)
        /\ \A l \in 1..Len(a.ands) : l \in 1..Len(g.ands)
    BY <1>1, <1>2, <1>3
  <1> QED
    BY <1>3, <1>4 DEF Whats, Count, Defined

\* With an input more, the graph read is still the beginning.
LEMMA InputGrows ==
    ASSUME NEW a, NEW b, NEW g, SoFar(a, g), b.maxvar = a.maxvar, b.latches = a.latches, b.ands = a.ands,
           b.symbols = a.symbols, Grows(a.inputs, b.inputs, g.inputs)
    PROVE  SoFar(b, g) /\ Before(b, 6) = Before(a, 6)
  <1>1. \A m \in 1..5 : Size(b, m) = Size(a, m)
    BY DEF Size
  <1>2. Begins(b.inputs, g.inputs)
    BY GrowsOn DEF SoFar
  <1> QED
    BY <1>1, <1>2 DEF SoFar, InTurn, Before

\* Every input of the graph is read as it was written.
LEMMA InputReads ==
    ASSUME IsFile(file), at = "read", ReadPhase, NEW g, WrittenGraph(g), Progress(g), ReadInput
    PROVE  at' = "read" /\ Progress(g)'
  <1> DEFINE k == Len(aig.inputs) + 1
  <1>1. /\ IsGraph(g) /\ IsGraph(aig) /\ GraphOK(g) /\ SoFar(aig, g) /\ Shows(file, g)
        /\ Len(aig.inputs) \in Nat /\ Len(g.inputs) \in Nat /\ Len(aig.inputs) <= Len(g.inputs)
        /\ InputsRead <=> Len(aig.inputs) = Len(g.inputs)
        /\ line = 1 + LinesOf(aig, Ascii)
    BY ReadSoFar
  <1>2. ~InputsRead /\ Len(aig.latches) = 0 /\ Len(aig.ands) = 0 /\ Before(aig, 6) = 0
    BY SectionsBehind DEF ReadInput
  <1>3. k \in 1..Len(g.inputs) /\ Len(aig.inputs) < Len(g.inputs)
    BY <1>1, <1>2
  <1>4. g.inputs[k] \in LitsOf(g)
    BY <1>1, <1>3, GraphEntries
  <1>5. GraphPhase /\ GraphOK(aig) /\ Corresponds(aig, types) /\ NoMarks(aig, types) /\ aig.maxvar = g.maxvar
    BY <1>1 DEF ReadPhase, GraphPhase, SoFar
  <1>6. /\ at' = "read" /\ line' = line + (IF Ascii THEN 1 ELSE 0) /\ file' = file
        /\ \E v \in 1..aig.maxvar : types[v].is = "none" /\ g.inputs[k] = 2 * v /\ AddInput(2 * v)
    <2>1. CASE Ascii
      <3>1. line = k
        BY <1>1, <1>2, <2>1 DEF LinesOf
      <3>2. line \in 1..Len(file.lines)
        <4>1. PICK i, n, d, b \in Nat : i = Len(g.inputs) /\ n = Len(g.latches) /\ d = Len(g.ands) /\ b = Before(g, 6)
          BY <1>1, GraphEntries, LinesThere
        <4>2. Len(file.lines) = (i + d) + n + b
          BY <1>1, <2>1, <4>1, LinesThere DEF LinesOf
        <4>3. \A x \in 1..i : x \in 1..((i + d) + n + b)
          OBVIOUS
        <4>4. k \in Nat /\ k \in 1..i
          BY <1>1, <1>3, <4>1
        <4> HIDE DEF k
        <4> QED
          BY <3>1, <4>1, <4>2, <4>3, <4>4
      <3>3. file.lines[k] = <<g.inputs[k]>>
        BY <1>1, <1>3, <2>1 DEF Shows, Ascii
      <3> HIDE DEF k
      <3>4. Numbers = <<g.inputs[k]>>
        <4>1. <<g.inputs[k]>> \in Seq(0..(Word - 1))
          BY <1>1, <1>4, LitsInWord
        <4> QED
          BY <3>1, <3>2, <3>3, <4>1, LineRead
      <3>5. \A w \in Whats : \A l \in 1..Count(aig, w) : Defined(aig, w, l) = Defined(g, w, l) /\ l \in 1..Count(g, w)
        BY <1>1, SoFarDefines
      <3>6. k \in 1..Count(g, "input") /\ k \notin 1..Count(aig, "input") /\ Defined(g, "input", k) = g.inputs[k] /\ "input" \in Whats
        BY <1>1, <1>3 DEF Count, Defined, Whats, k
      <3>7. Apart(g)
        BY <2>1 DEF WrittenGraph
      <3>8. /\ Definable(g.inputs[k]) /\ Var(g.inputs[k]) \in 1..aig.maxvar /\ g.inputs[k] = 2 * Var(g.inputs[k])
            /\ types[Var(g.inputs[k])].is = "none"
        BY <1>1, <1>5, <3>5, <3>6, <3>7, DefinableNext
      <3>9. Len(Numbers) = 1 /\ Definable(Numbers[1]) /\ Numbers[1] = g.inputs[k]
        BY <3>4, <3>8
      <3>10. AddInput(g.inputs[k]) /\ at' = "read" /\ line' = line + 1 /\ file' = file
        BY <2>1, <3>9 DEF ReadInput, Read
      <3> QED
        BY <2>1, <3>8, <3>10
    <2>2. CASE ~Ascii
      <3>1. AddInput(2 * k) /\ at' = "read" /\ line' = line /\ file' = file
        BY <2>2 DEF ReadInput
      <3>2. g.inputs[k] = 2 * k
        BY <1>3, <2>2 DEF WrittenGraph, InOrder
      <3>3. k \in 1..aig.maxvar
        <4>1. PICK i, n, d \in Nat : i = Len(g.inputs) /\ n = Len(g.latches) /\ d = Len(g.ands)
          BY <1>1, GraphEntries
        <4>2. i + n + d <= g.maxvar /\ g.maxvar \in Nat
          BY <1>1, <2>2, <4>1, GraphParts DEF WrittenGraph, InOrder
        <4>3. \A x, p, q, r, m \in Nat : x \in 1..p /\ p + q + r <= m => x \in 1..m
          OBVIOUS
        <4>4. k \in Nat /\ k \in 1..i
          BY <1>1, <1>3, <4>1
        <4> HIDE DEF k
        <4> QED
          BY <1>5, <4>1, <4>2, <4>3, <4>4
      <3>4. types[k].is = "none"
        BY <1>1, <1>2, <2>2, <3>3, BehindAll
      <3>5. line \in Nat
        BY DEF ReadPhase
      <3> HIDE DEF k
      <3> QED
        BY <2>2, <3>1, <3>2, <3>3, <3>4, <3>5
    <2> QED
      BY <2>1, <2>2
  <1> HIDE DEF k
  <1>7. PICK v \in 1..aig.maxvar : types[v].is = "none" /\ g.inputs[k] = 2 * v /\ AddInput(2 * v)
    BY <1>6
  <1>8. /\ aig'.maxvar = aig.maxvar /\ aig'.latches = aig.latches /\ aig'.ands = aig.ands
        /\ aig'.symbols = aig.symbols
        /\ Len(aig'.inputs) = Len(aig.inputs) + 1
        /\ aig'.inputs[Len(aig.inputs) + 1] = 2 * v
        /\ \A l \in 1..Len(aig.inputs) : aig'.inputs[l] = aig.inputs[l]
    BY <1>5, <1>7, AddInputKeeps
  <1>9. Grows(aig.inputs, aig'.inputs, g.inputs)
    BY <1>1, <1>3, <1>7, <1>8 DEF Grows, k
  <1>10. SoFar(aig', g) /\ Before(aig', 6) = Before(aig, 6)
    BY <1>1, <1>8, <1>9, InputGrows
  <1>11. line' = 1 + LinesOf(aig', Ascii)
    <2>1. PICK i \in Nat : i = Len(aig.inputs)
      BY <1>1
    <2>2. LinesOf(aig', Ascii) = (IF Ascii THEN (i + 1) + 0 ELSE 0) + 0 + 0
      BY <1>2, <1>8, <1>10, <2>1 DEF LinesOf
    <2>3. LinesOf(aig, Ascii) = (IF Ascii THEN i + 0 ELSE 0) + 0 + 0
      BY <1>2, <2>1 DEF LinesOf
    <2> QED
      BY <1>1, <1>6, <2>1, <2>2, <2>3
  <1>12. Ascii' = Ascii
    BY <1>6 DEF Ascii
  <1> QED
    BY <1>6, <1>10, <1>11, <1>12 DEF Progress

\* The numbers of the line of a latch: two or three, the reset value last.
LEMMA LatchNumbers ==
    ASSUME NEW g, GraphOK(g), NEW k \in 1..Len(g.latches), NEW compact \in BOOLEAN,
           NEW s, LatchFits(s, g.latches[k], compact)
    PROVE  s \in Seq(0..(Word - 1))
  <1> DEFINE X == 0..(Word - 1)
             l == g.latches[k]
  <1>1. l.lit \in X /\ l.next \in X /\ l.reset \in X
    <2>1. l.lit \in LitsOf(g) /\ l.next \in LitsOf(g) /\ l.reset \in X
      BY GraphEntries DEF GraphOK
    <2> HIDE DEF l
    <2> QED
      BY <2>1, LitsInWord
  <1> HIDE DEF X, l
  <1>2. CASE compact
    <2>1. s \in Seq(Nat) /\ Len(s) \in {1, 2} /\ s[1] = l.next /\ (Len(s) = 2 => s[2] = l.reset)
      BY <1>2 DEF LatchFits, l
    <2>2. \A j \in 1..Len(s) : s[j] \in X
      BY <1>1, <2>1
    <2>3. s \in Seq(X)
      BY <2>1, <2>2
    <2> QED
      BY <2>3 DEF X
  <1>3. CASE ~compact
    <2>1. s \in Seq(Nat) /\ Len(s) \in {2, 3} /\ s[1] = l.lit /\ s[2] = l.next /\ (Len(s) = 3 => s[3] = l.reset)
      BY <1>3 DEF LatchFits, l
    <2>2. \A j \in 1..Len(s) : s[j] \in X
      BY <1>1, <2>1
    <2>3. s \in Seq(X)
      BY <2>1, <2>2
    <2> QED
      BY <2>3 DEF X
  <1> QED
    BY <1>2, <1>3 DEF X

\* With a latch more, the graph read is still the beginning.
LEMMA LatchGrows ==
    ASSUME NEW a, NEW b, NEW g, SoFar(a, g), b.maxvar = a.maxvar, b.inputs = a.inputs, b.ands = a.ands,
           b.symbols = a.symbols, Grows(a.latches, b.latches, g.latches)
    PROVE  SoFar(b, g) /\ Before(b, 6) = Before(a, 6)
  <1>1. \A m \in 1..5 : Size(b, m) = Size(a, m)
    BY DEF Size
  <1>2. Begins(b.latches, g.latches)
    BY GrowsOn DEF SoFar
  <1> QED
    BY <1>1, <1>2 DEF SoFar, InTurn, Before

\* What a latch of a written graph adds.
AddsLatch(g, k) == \E v \in 1..aig.maxvar :
    types[v].is = "none" /\ g.latches[k].lit = 2 * v /\ AddLatch(2 * v, g.latches[k].next, g.latches[k].reset)
\* The line the reader has come to is that of the next latch.
LEMMA LatchLineRead ==
    ASSUME IsFile(file), at = "read", ReadPhase, NEW g, WrittenGraph(g), Progress(g), ReadLatch,
           NEW k, k = Len(aig.latches) + 1
    PROVE  k \in 1..Len(g.latches) /\ at' = "read" /\ line' = line + 1 /\ file' = file /\ AddsLatch(g, k)
  <1>1. /\ IsGraph(g) /\ IsGraph(aig) /\ GraphOK(g) /\ SoFar(aig, g) /\ Shows(file, g)
        /\ Len(aig.inputs) \in Nat /\ Len(g.inputs) \in Nat /\ Len(aig.inputs) <= Len(g.inputs)
        /\ Len(aig.latches) \in Nat /\ Len(g.latches) \in Nat /\ Len(aig.latches) <= Len(g.latches)
        /\ InputsRead <=> Len(aig.inputs) = Len(g.inputs)
        /\ LatchesRead <=> InputsRead /\ Len(aig.latches) = Len(g.latches)
        /\ line = 1 + LinesOf(aig, Ascii)
    BY ReadSoFar
  <1>2. /\ ~LatchesRead /\ Len(aig.inputs) = Len(g.inputs) /\ Len(aig.ands) = 0 /\ Before(aig, 6) = 0
    BY <1>1, SectionsBehind DEF ReadLatch
  <1>3. k \in 1..Len(g.latches) /\ k \in Nat
    BY <1>1, <1>2 DEF ReadLatch
  <1>4. g.latches[k].next \in LitsOf(g)
    BY <1>1, <1>3, GraphEntries
  <1>5. GraphPhase /\ aig.maxvar = g.maxvar /\ aig.maxvar \in Nat
    BY <1>1, GraphParts DEF ReadPhase, GraphPhase, SoFar
  <1>6. InRange(g.latches[k].next)
    <2>1. g.latches[k].next \in 0..(2 * aig.maxvar + 1) /\ g.latches[k].next \in Nat
      BY <1>4, <1>5 DEF LitsOf
    <2> QED
      BY <1>5, <2>1, Literals DEF InRange
  <1>7. LatchFits(file.lines[(IF Ascii THEN Len(g.inputs) ELSE 0) + k], g.latches[k], ~Ascii)
    BY <1>1, <1>3 DEF Shows, Ascii
  <1>8. line = (IF Ascii THEN Len(g.inputs) ELSE 0) + k /\ line \in 1..Len(file.lines)
    <2>1. PICK i, n, d, b \in Nat : i = Len(g.inputs) /\ n = Len(g.latches) /\ d = Len(g.ands) /\ b = Before(g, 6)
      BY <1>1, GraphEntries, LinesThere
    <2>2. Len(file.lines) = (IF Ascii THEN i + d ELSE 0) + n + b
      BY <1>1, <2>1, LinesThere DEF LinesOf
    <2>3. \A x \in 1..n : i + x \in 1..((i + d) + n + b) /\ 0 + x \in 1..(0 + n + b)
      OBVIOUS
    <2>4. LinesOf(aig, Ascii) = (IF Ascii THEN i + 0 ELSE 0) + Len(aig.latches) + 0
      BY <1>2, <2>1 DEF LinesOf
    <2>5. line = (IF Ascii THEN i ELSE 0) + k
      <3>1. \A x, y \in Nat : /\ 1 + ((x + 0) + y + 0) = x + (y + 1)
                              /\ 1 + (0 + y + 0) = 0 + (y + 1)
        OBVIOUS
      <3> QED
        BY <1>1, <2>4, <3>1
    <2> QED
      BY <1>3, <2>1, <2>2, <2>3, <2>5
  <1>9. Numbers = file.lines[line]
    <2>1. file.lines[line] \in Seq(0..(Word - 1))
      BY <1>1, <1>3, <1>7, <1>8, LatchNumbers
    <2> QED
      BY <1>8, <2>1, LineRead
  <1>10. LatchFits(Numbers, g.latches[k], ~Ascii)
    BY <1>7, <1>8, <1>9
  <1>11. CASE Ascii
    <2>1. /\ Len(Numbers) \in {2, 3} /\ Numbers[1] = g.latches[k].lit /\ Numbers[2] = g.latches[k].next
          /\ g.latches[k].reset = IF Len(Numbers) = 3 THEN Numbers[3] ELSE 0
      BY <1>10, <1>11 DEF LatchFits
    <2>2. \A w \in Whats : \A l \in 1..Count(aig, w) : Defined(aig, w, l) = Defined(g, w, l) /\ l \in 1..Count(g, w)
      BY <1>1, SoFarDefines
    <2>3. k \in 1..Count(g, "latch") /\ k \notin 1..Count(aig, "latch") /\ Defined(g, "latch", k) = g.latches[k].lit /\ "latch" \in Whats
      BY <1>1, <1>3 DEF Count, Defined, Whats
    <2>4. Apart(g)
      BY <1>11 DEF WrittenGraph
    <2> DEFINE lit == g.latches[k].lit
    <2>5. Definable(lit) /\ Var(lit) \in 1..aig.maxvar /\ lit = 2 * Var(lit) /\ types[Var(lit)].is = "none"
      BY <1>1, <1>5, <2>2, <2>3, <2>4, DefinableNext
    <2>6. AddLatch(lit, g.latches[k].next, g.latches[k].reset) /\ at' = "read" /\ line' = line + 1 /\ file' = file
      BY <1>6, <1>11, <2>1, <2>5 DEF ReadLatch, Read
    <2> HIDE DEF lit
    <2>7. \E v \in 1..aig.maxvar : types[v].is = "none" /\ lit = 2 * v /\ AddLatch(2 * v, g.latches[k].next, g.latches[k].reset)
      BY <2>5, <2>6
    <2> QED
      BY <1>3, <2>6, <2>7 DEF AddsLatch, lit
  <1>12. CASE ~Ascii
    <2> DEFINE v == Header.inputs + Len(aig.latches) + 1
               ns == <<2 * v>> \o Numbers
    <2>1. /\ Len(Numbers) \in {1, 2} /\ Numbers[1] = g.latches[k].next /\ Numbers \in Seq(Nat)
          /\ g.latches[k].reset = IF Len(Numbers) = 2 THEN Numbers[2] ELSE 0
      BY <1>10, <1>12 DEF LatchFits
    <2>2. Header.inputs = Len(g.inputs)
      BY HeaderSays DEF WrittenGraph
    <2>3. v \in Nat /\ v = Len(g.inputs) + k
      <3>1. PICK i, n \in Nat : i = Len(g.inputs) /\ n = Len(aig.latches)
        BY <1>1
      <3>2. v = i + n + 1 /\ k = n + 1
        BY <2>2, <3>1
      <3>3. i + n + 1 = i + (n + 1) /\ i + n + 1 \in Nat
        OBVIOUS
      <3> HIDE DEF v
      <3> QED
        BY <3>1, <3>2, <3>3
    <2>4. g.latches[k].lit = 2 * v
      BY <1>3, <1>12, <2>3 DEF WrittenGraph, InOrder
    <2>5. v \in 1..aig.maxvar
      <3>1. PICK i, n, d \in Nat : i = Len(g.inputs) /\ n = Len(g.latches) /\ d = Len(g.ands)
        BY <1>1, GraphEntries
      <3>2. i + n + d <= aig.maxvar
        BY <1>5, <1>12, <3>1 DEF WrittenGraph, InOrder
      <3>3. \A x \in 1..n : \A m \in Nat : i + n + d <= m => i + x \in 1..m
        OBVIOUS
      <3> QED
        BY <1>3, <1>5, <2>3, <3>1, <3>2, <3>3
    <2>6. types[v].is = "none"
      <3>1. Len(aig.inputs) < v /\ Header.inputs + Len(aig.latches) < v
        <4>1. PICK i, n \in Nat : i = Len(g.inputs) /\ n = Len(aig.latches)
          BY <1>1
        <4>2. i < i + n + 1 /\ i + n < i + n + 1
          OBVIOUS
        <4> QED
          BY <1>2, <2>2, <4>1, <4>2
      <3> HIDE DEF v
      <3> QED
        BY <1>2, <1>12, <2>5, <3>1, BehindAll
    <2>7. /\ ns = <<2 * (Header.inputs + Len(aig.latches) + 1)>> \o Numbers
          /\ Len(ns) = Len(Numbers) + 1 /\ ns[1] = 2 * v /\ ns[2] = Numbers[1]
          /\ Len(Numbers) = 2 => ns[3] = Numbers[2]
      <3> HIDE DEF v
      <3> QED
        BY <2>1, <2>3 DEF v
    <2> HIDE DEF v, ns
    <2>8. /\ Len(ns) \in {2, 3} /\ ns[2] = g.latches[k].next
          /\ g.latches[k].reset = IF Len(ns) = 3 THEN ns[3] ELSE 0
      <3>1. CASE Len(Numbers) = 1
        BY <2>1, <2>7, <3>1
      <3>2. CASE Len(Numbers) = 2
        BY <2>1, <2>7, <3>2
      <3> QED
        BY <2>1, <3>1, <3>2
    <2>9. AddLatch(2 * v, g.latches[k].next, g.latches[k].reset) /\ at' = "read" /\ line' = line + 1 /\ file' = file
      BY <1>6, <1>12, <2>7, <2>8 DEF ReadLatch, Read
    <2> QED
      BY <1>3, <2>4, <2>5, <2>6, <2>9 DEF AddsLatch
  <1> QED
    BY <1>11, <1>12

\* Every latch of the graph is read as it was written, its reset value included.
LEMMA LatchReads ==
    ASSUME IsFile(file), at = "read", ReadPhase, NEW g, WrittenGraph(g), Progress(g), ReadLatch
    PROVE  at' = "read" /\ Progress(g)'
  <1> DEFINE k == Len(aig.latches) + 1
  <1>1. /\ IsGraph(g) /\ GraphOK(g) /\ SoFar(aig, g)
        /\ Len(aig.inputs) \in Nat /\ Len(aig.latches) \in Nat /\ Len(g.latches) \in Nat
        /\ line = 1 + LinesOf(aig, Ascii)
    BY ReadSoFar
  <1>2. k \in 1..Len(g.latches) /\ at' = "read" /\ line' = line + 1 /\ file' = file /\ AddsLatch(g, k)
    BY LatchLineRead
  <1>3. Len(aig.ands) = 0 /\ Before(aig, 6) = 0
    BY SectionsBehind DEF ReadLatch
  <1>4. GraphPhase /\ GraphOK(aig) /\ Corresponds(aig, types) /\ NoMarks(aig, types) /\ aig.maxvar = g.maxvar
    BY <1>1 DEF ReadPhase, GraphPhase, SoFar
  <1> HIDE DEF k
  <1>5. PICK v \in 1..aig.maxvar :
          types[v].is = "none" /\ g.latches[k].lit = 2 * v /\ AddLatch(2 * v, g.latches[k].next, g.latches[k].reset)
    BY <1>2 DEF AddsLatch
  <1> DEFINE l == g.latches[k]
  <1>6. /\ l \in LatchRecords(g) /\ l.next \in LitsOf(aig) /\ l.reset \in 0..(Word - 1)
    <2>1. l \in LatchRecords(g) /\ l.next \in LitsOf(g) /\ l.reset \in 0..(Word - 1)
      BY <1>1, <1>2, GraphEntries
    <2>2. LitsOf(g) = LitsOf(aig)
      BY <1>4 DEF LitsOf
    <2> QED
      BY <2>1, <2>2
  <1>7. /\ aig'.maxvar = aig.maxvar /\ aig'.inputs = aig.inputs /\ aig'.ands = aig.ands
        /\ aig'.symbols = aig.symbols
        /\ Len(aig'.latches) = Len(aig.latches) + 1
        /\ aig'.latches[Len(aig.latches) + 1] = [lit |-> 2 * v, next |-> l.next, reset |-> l.reset]
        /\ \A x \in 1..Len(aig.latches) : aig'.latches[x] = aig.latches[x]
    BY <1>4, <1>5, <1>6, AddLatchKeeps
  <1>8. [lit |-> 2 * v, next |-> l.next, reset |-> l.reset] = l
    BY <1>5, <1>6 DEF LatchRecords
  <1>9. Grows(aig.latches, aig'.latches, g.latches)
    <2>1. Len(aig.latches) < Len(g.latches)
      BY <1>1, <1>2 DEF k
    <2> QED
      BY <1>1, <1>7, <1>8, <2>1 DEF Grows, k
  <1>10. SoFar(aig', g) /\ Before(aig', 6) = Before(aig, 6)
    BY <1>1, <1>7, <1>9, LatchGrows
  <1>11. line' = 1 + LinesOf(aig', Ascii)
    <2>1. PICK i, n \in Nat : i = Len(aig.inputs) /\ n = Len(aig.latches)
      BY <1>1
    <2>2. LinesOf(aig', Ascii) = (IF Ascii THEN i + 0 ELSE 0) + (n + 1) + 0
      BY <1>3, <1>7, <1>10, <2>1 DEF LinesOf
    <2>3. LinesOf(aig, Ascii) = (IF Ascii THEN i + 0 ELSE 0) + n + 0
      BY <1>3, <2>1 DEF LinesOf
    <2>4. /\ 1 + ((i + 0) + n + 0) + 1 = 1 + ((i + 0) + (n + 1) + 0)
          /\ 1 + (0 + n + 0) + 1 = 1 + (0 + (n + 1) + 0)
      OBVIOUS
    <2> QED
      BY <1>1, <1>2, <2>2, <2>3, <2>4
  <1>12. Ascii' = Ascii
    BY <1>2 DEF Ascii
  <1> QED
    BY <1>2, <1>10, <1>11, <1>12 DEF Progress

\* The kinds before one are complete, those behind it are empty.
UpTo(a, g, n) ==
    /\ \A m \in 1..5 : Size(a, m) \in Nat /\ Size(g, m) \in Nat
    /\ \A m \in 1..5 : m < n => Size(a, m) = Size(g, m)
    /\ \A m \in 1..5 : m > n => Size(a, m) = 0
\* While one kind is being read, the lines read are those of the kinds before it and
\* those read of it.
LEMMA BeforeUpTo ==
    ASSUME NEW a, NEW g, NEW n \in 1..5, UpTo(a, g, n)
    PROVE  Before(a, 6) = Before(g, n) + Size(a, n) /\ Before(g, n) \in Nat
  <1>1. /\ Size(a, 1) \in Nat /\ Size(a, 2) \in Nat /\ Size(a, 3) \in Nat /\ Size(a, 4) \in Nat /\ Size(a, 5) \in Nat
        /\ Size(g, 1) \in Nat /\ Size(g, 2) \in Nat /\ Size(g, 3) \in Nat /\ Size(g, 4) \in Nat /\ Size(g, 5) \in Nat
    BY DEF UpTo
  <1>2. Before(a, 6) = Size(a, 1) + Size(a, 2) + Size(a, 3) + Size(a, 4) + Size(a, 5)
    BY DEF Before
  <1>3. CASE n = 1
    <2>1. Size(a, 2) = 0 /\ Size(a, 3) = 0 /\ Size(a, 4) = 0 /\ Size(a, 5) = 0
      BY <1>3 DEF UpTo
    <2>2. Before(g, 1) = 0
      BY DEF Before
    <2> QED
      BY <1>1, <1>2, <1>3, <2>1, <2>2
  <1>4. CASE n = 2
    <2>1. Size(a, 1) = Size(g, 1) /\ Size(a, 3) = 0 /\ Size(a, 4) = 0 /\ Size(a, 5) = 0
      BY <1>4 DEF UpTo
    <2>2. Before(g, 2) = Size(g, 1)
      BY <1>1 DEF Before
    <2> QED
      BY <1>1, <1>2, <1>4, <2>1, <2>2
  <1>5. CASE n = 3
    <2>1. Size(a, 1) = Size(g, 1) /\ Size(a, 2) = Size(g, 2) /\ Size(a, 4) = 0 /\ Size(a, 5) = 0
      BY <1>5 DEF UpTo
    <2>2. Before(g, 3) = Size(g, 1) + Size(g, 2)
      BY <1>1 DEF Before
    <2> QED
      BY <1>1, <1>2, <1>5, <2>1, <2>2
  <1>6. CASE n = 4
    <2>1. Size(a, 1) = Size(g, 1) /\ Size(a, 2) = Size(g, 2) /\ Size(a, 3) = Size(g, 3) /\ Size(a, 5) = 0
      BY <1>6 DEF UpTo
    <2>2. Before(g, 4) = Size(g, 1) + Size(g, 2) + Size(g, 3)
      BY <1>1 DEF Before
    <2> QED
      BY <1>1, <1>2, <1>6, <2>1, <2>2
  <1>7. CASE n = 5
    <2>1. Size(a, 1) = Size(g, 1) /\ Size(a, 2) = Size(g, 2) /\ Size(a, 3) = Size(g, 3) /\ Size(a, 4) = Size(g, 4)
      BY <1>7 DEF UpTo
    <2>2. Before(g, 5) = Size(g, 1) + Size(g, 2) + Size(g, 3) + Size(g, 4)
      BY <1>1 DEF Before
    <2> QED
      BY <1>1, <1>2, <1>7, <2>1, <2>2
  <1> QED
    BY <1>3, <1>4, <1>5, <1>6, <1>7

\* An entry more of a kind.
Appended(a, b, n, lits) ==
    b.symbols = [a.symbols EXCEPT ![Kinds[n]] = Append(a.symbols[Kinds[n]], lits)]
\* With a symbol more, the graph read is still the beginning.
LEMMA SymbolGrows ==
    ASSUME NEW a, NEW b, NEW g, NEW n \in 1..5, NEW lits, NEW k, SoFar(a, g), IsGraph(a), IsGraph(g), UpTo(a, g, n),
           b.maxvar = a.maxvar, b.inputs = a.inputs, b.latches = a.latches, b.ands = a.ands,
           Appended(a, b, n, lits), k = Size(a, n) + 1, k \in 1..Size(g, n), lits = g.symbols[Kinds[n]][k]
    PROVE  SoFar(b, g) /\ Before(b, 6) = Before(a, 6) + 1
  <1> DEFINE s == a.symbols[Kinds[n]]
             t == g.symbols[Kinds[n]]
  <1>1. a.symbols \in [ToSet(Kinds) -> Seq(Seq(LitsOf(a)))] /\ \A m \in 1..5 : Kinds[m] \in ToSet(Kinds)
    BY GraphParts, KindNames
  <1>2. \A m \in 1..5 : m # n => b.symbols[Kinds[m]] = a.symbols[Kinds[m]]
    <2>1. \A m \in 1..5 : m # n => Kinds[m] # Kinds[n]
      BY KindNames
    <2> QED
      BY <1>1, <2>1 DEF Appended
  <1>3. b.symbols[Kinds[n]] = Append(s, lits) /\ s \in Seq(Seq(LitsOf(a)))
    BY <1>1 DEF Appended
  <1>4. Len(s) \in Nat /\ Len(t) \in Nat /\ Len(s) < Len(t) /\ Size(a, n) = Len(s) /\ k = Len(s) + 1
    <2>1. Size(a, n) \in Nat /\ Size(g, n) \in Nat /\ Size(a, n) = Len(s) /\ Size(g, n) = Len(t)
      BY DEF UpTo, Size
    <2>2. \A x, y \in Nat : x + 1 \in 1..y => x < y
      OBVIOUS
    <2> HIDE DEF s, t
    <2> QED
      BY <2>1, <2>2
  <1>5. Grows(s, b.symbols[Kinds[n]], t)
    <2>1. PICK u : u = Append(s, lits)
      OBVIOUS
    <2>2. lits = t[Len(s) + 1]
      BY <1>4
    <2> HIDE DEF s, t
    <2>3. Len(u) = Len(s) + 1 /\ u[Len(s) + 1] = lits /\ \A i \in 1..Len(s) : u[i] = s[i]
      BY <1>3, <2>1
    <2> QED
      BY <1>3, <1>4, <2>1, <2>2, <2>3 DEF Grows
  <1>6. \A m \in 1..5 : m # n => Size(b, m) = Size(a, m)
    BY <1>2 DEF Size
  <1>7. Size(b, n) = Size(a, n) + 1 /\ Size(a, n) \in Nat
    BY <1>4, <1>5 DEF Grows, Size
  <1>8. \A m \in 1..5 : Begins(b.symbols[Kinds[m]], g.symbols[Kinds[m]])
    <2>1. Begins(b.symbols[Kinds[n]], t)
      BY <1>5, GrowsOn DEF SoFar
    <2> QED
      BY <1>2, <2>1 DEF SoFar
  <1> HIDE DEF s, t
  <1>9. UpTo(b, g, n)
    BY <1>6, <1>7 DEF UpTo
  <1>10. InTurn(b, g)
    BY <1>9 DEF InTurn, UpTo
  <1>11. SoFar(b, g)
    BY <1>8, <1>10 DEF SoFar
  <1>12. Before(b, 6) = Before(g, n) + Size(b, n) /\ Before(a, 6) = Before(g, n) + Size(a, n) /\ Before(g, n) \in Nat
    BY <1>9, BeforeUpTo
  <1>13. \A x, y \in Nat : x + (y + 1) = (x + y) + 1
    OBVIOUS
  <1> QED
    BY <1>7, <1>11, <1>12, <1>13

\* The line the reader has come to is that of the next symbol of the kind.
LEMMA SymbolLineRead ==
    ASSUME IsFile(file), at = "read", ReadPhase, NEW g, WrittenGraph(g), Progress(g), LatchesRead,
           NEW n \in 1..5, KindsRead(n - 1), ~KindsRead(n), NEW k, k = Size(aig, n) + 1
    PROVE  /\ k \in 1..Size(g, n) /\ UpTo(aig, g, n) /\ Len(aig.ands) = 0
           /\ line <= Len(file.lines) /\ Numbers = g.symbols[Kinds[n]][k]
  <1>1. /\ IsGraph(g) /\ GraphOK(g) /\ SoFar(aig, g) /\ Shows(file, g)
        /\ Len(aig.inputs) \in Nat /\ Len(aig.latches) \in Nat
        /\ \A m \in 1..5 : Size(aig, m) \in Nat /\ Size(g, m) \in Nat /\ Size(aig, m) <= Size(g, m)
        /\ LatchesRead <=> InputsRead /\ Len(aig.latches) = Len(g.latches)
        /\ InputsRead <=> Len(aig.inputs) = Len(g.inputs)
        /\ \A m \in 0..5 : KindsRead(m) <=> LatchesRead /\ \A j \in 1..m : Size(aig, j) = Size(g, j)
        /\ line = 1 + LinesOf(aig, Ascii)
    BY ReadSoFar
  <1>2. /\ \A m \in 1..5 : m < n => Size(aig, m) = Size(g, m)
        /\ Size(aig, n) # Size(g, n)
    <2>1. n - 1 \in 0..5 /\ n \in 0..5
      OBVIOUS
    <2>2. \A m \in 1..(n - 1) : Size(aig, m) = Size(g, m)
      BY <1>1, <2>1
    <2>3. ~\A j \in 1..n : Size(aig, j) = Size(g, j)
      BY <1>1, <2>1
    <2>4. \A m \in 1..5 : m < n => m \in 1..(n - 1)
      OBVIOUS
    <2>5. \A j \in 1..n : j \in 1..(n - 1) \/ j = n
      OBVIOUS
    <2> QED
      BY <2>2, <2>3, <2>4, <2>5
  <1>3. k \in 1..Size(g, n) /\ k \in Nat
    <2>1. Size(aig, n) \in Nat /\ Size(g, n) \in Nat /\ Size(aig, n) <= Size(g, n)
      BY <1>1
    <2> QED
      BY <1>2, <2>1
  <1>4. UpTo(aig, g, n)
    <2>1. \A m \in 1..5 : m > n => Size(aig, m) = 0
      <3>1. \A m \in 1..5 : m > n => n < m
        OBVIOUS
      <3> QED
        BY <1>1, <1>2, <3>1 DEF SoFar, InTurn
    <2> QED
      BY <1>1, <1>2, <2>1 DEF UpTo
  <1>5. Len(aig.ands) = 0
    <2>1. ~SymbolsRead
      <3>1. SymbolsRead <=> KindsRead(5)
        BY KindNames DEF SymbolsRead
      <3>2. 5 \in 0..5 /\ n \in 1..5
        OBVIOUS
      <3> QED
        BY <1>1, <1>2, <3>1, <3>2
    <2> QED
      BY <2>1, SectionsBehind
  <1>6. Before(aig, 6) = Before(g, n) + Size(aig, n) /\ Before(g, n) \in Nat
    BY <1>4, BeforeUpTo
  <1>7. PICK i, l, d, b, p, q \in Nat :
          /\ i = Len(g.inputs) /\ l = Len(g.latches) /\ d = Len(g.ands) /\ b = Before(g, 6) /\ p = Before(g, n)
          /\ q = Size(aig, n)
    BY <1>1, <1>6, GraphEntries, LinesThere
  <1>8. line = (IF Ascii THEN i ELSE 0) + l + p + k
    <2>1. LinesOf(aig, Ascii) = (IF Ascii THEN i + 0 ELSE 0) + l + (p + q)
      BY <1>1, <1>5, <1>6, <1>7 DEF LinesOf
    <2>2. /\ 1 + ((i + 0) + l + (p + q)) = i + l + p + (q + 1)
          /\ 1 + (0 + l + (p + q)) = 0 + l + p + (q + 1)
      OBVIOUS
    <2> QED
      BY <1>1, <1>7, <2>1, <2>2
  <1>9. file.lines[(IF Ascii THEN i ELSE 0) + l + p + k] = g.symbols[Kinds[n]][k]
    BY <1>1, <1>3, <1>7 DEF Shows, Ascii
  <1>10. line \in 1..Len(file.lines)
    <2>1. Len(file.lines) = (IF Ascii THEN i + d ELSE 0) + l + b
      BY <1>1, <1>7, LinesThere DEF LinesOf
    <2>2. p + Size(g, n) <= b /\ Size(g, n) \in Nat
      BY <1>1, <1>7, SizesBound
    <2>3. \A z \in Nat : p + z <= b => \A x \in 1..z : /\ i + l + p + x \in 1..((i + d) + l + b)
                                                       /\ 0 + l + p + x \in 1..(0 + l + b)
      OBVIOUS
    <2> QED
      BY <1>3, <1>8, <2>1, <2>2, <2>3
  <1>11. g.symbols[Kinds[n]][k] \in Seq(0..(Word - 1))
    <2>1. g.symbols[Kinds[n]][k] \in Seq(LitsOf(g))
      BY <1>1, <1>3, KindNames, GraphEntries DEF Size
    <2>2. \A A, B : A \in SUBSET B => \A s \in Seq(A) : s \in Seq(B)
      OBVIOUS
    <2>3. PICK e : e = g.symbols[Kinds[n]][k]
      OBVIOUS
    <2>4. e \in Seq(LitsOf(g)) /\ LitsOf(g) \in SUBSET (0..(Word - 1))
      BY <1>1, <2>1, <2>3, LitsInWord
    <2>5. e \in Seq(0..(Word - 1))
      BY <2>2, <2>4
    <2> QED
      BY <2>3, <2>5
  <1>12. Numbers = g.symbols[Kinds[n]][k]
    BY <1>8, <1>9, <1>10, <1>11, LineRead
  <1>13. line <= Len(file.lines)
    BY <1>10
  <1> QED
    BY <1>3, <1>4, <1>5, <1>12, <1>13

\* Every symbol of the graph is read as it was written, justice properties, whose
\* literals are compared with nothing, included.
LEMMA SymbolReads ==
    ASSUME IsFile(file), at = "read", ReadPhase, NEW g, WrittenGraph(g), Progress(g), ReadSymbol
    PROVE  at' = "read" /\ Progress(g)'
  <1>1. /\ IsGraph(g) /\ IsGraph(aig) /\ GraphOK(g) /\ SoFar(aig, g)
        /\ Len(aig.inputs) \in Nat /\ Len(aig.latches) \in Nat /\ Before(aig, 6) \in Nat
        /\ line = 1 + LinesOf(aig, Ascii)
    BY ReadSoFar
  <1>2. PICK n \in 1..5 : /\ KindsRead(n - 1) /\ ~KindsRead(n)
                          /\ Read( IF Kinds[n] = "justice" THEN line <= Len(file.lines)
                                   ELSE Len(Numbers) = 1 /\ InRange(Numbers[1]),
                                   AddSymbol(Kinds[n], Numbers) )
    BY KindNames DEF ReadSymbol
  <1>3. LatchesRead /\ line' = line + 1 /\ file' = file
    BY DEF ReadSymbol
  <1>4. PICK k : k = Size(aig, n) + 1
    OBVIOUS
  <1>5. PICK lits : lits = g.symbols[Kinds[n]][k]
    OBVIOUS
  <1>6. /\ k \in 1..Size(g, n) /\ UpTo(aig, g, n) /\ Len(aig.ands) = 0
        /\ line <= Len(file.lines) /\ Numbers = lits
    BY <1>2, <1>3, <1>4, <1>5, SymbolLineRead
  <1>7. /\ lits \in Seq(LitsOf(g)) /\ Len(lits) \in Nat /\ Kinds[n] \in ToSet(Kinds)
        /\ \A j \in 1..Len(lits) : lits[j] \in LitsOf(g)
        /\ Kinds[n] # "justice" => Len(lits) = 1
    <2>1. lits \in Seq(LitsOf(g)) /\ Kinds[n] \in ToSet(Kinds)
      BY <1>1, <1>5, <1>6, KindNames, GraphEntries DEF Size
    <2>2. Kinds[n] # "justice" => Len(lits) = 1
      BY <1>5, <1>6 DEF WrittenGraph, Singles
    <2> QED
      BY <2>1, <2>2
  <1>8. GraphPhase /\ GraphOK(aig) /\ Corresponds(aig, types) /\ NoMarks(aig, types) /\ aig.maxvar = g.maxvar
        /\ aig.maxvar \in Nat
    BY <1>1, GraphParts DEF ReadPhase, GraphPhase, SoFar
  <1>9. \A j \in 1..Len(lits) : Var(lits[j]) \in Nat /\ Var(lits[j]) <= aig.maxvar
    <2> SUFFICES ASSUME NEW j \in 1..Len(lits) PROVE Var(lits[j]) \in Nat /\ Var(lits[j]) <= aig.maxvar
      OBVIOUS
    <2>1. PICK e : e = lits[j]
      OBVIOUS
    <2>2. e \in 0..(2 * aig.maxvar + 1) /\ e \in Nat
      BY <1>7, <1>8, <2>1 DEF LitsOf
    <2> QED
      BY <1>8, <2>1, <2>2, Literals
  <1>10. AddSymbol(Kinds[n], lits) /\ at' = "read"
    <2>1. CASE Kinds[n] = "justice"
      BY <1>2, <1>6, <2>1 DEF Read
    <2>2. CASE Kinds[n] # "justice"
      <3>1. Len(lits) = 1 /\ InRange(lits[1])
        BY <1>7, <1>9, <2>2 DEF InRange
      <3> QED
        BY <1>2, <1>6, <2>2, <3>1 DEF Read
    <2> QED
      BY <2>1, <2>2
  <1>11. lits \in Seq(0..(Word - 1))
    <2>1. \A A, B : A \in SUBSET B => \A s \in Seq(A) : s \in Seq(B)
      OBVIOUS
    <2> QED
      BY <1>1, <1>7, <2>1, LitsInWord
  <1>12. /\ aig'.inputs = aig.inputs /\ aig'.latches = aig.latches /\ aig'.ands = aig.ands
         /\ Appended(aig, aig', n, lits)
         /\ aig'.maxvar = aig.maxvar \/ /\ aig'.maxvar > aig.maxvar
                                        /\ \E j \in 1..Len(lits) : aig'.maxvar = Var(lits[j])
    BY <1>7, <1>8, <1>10, <1>11, AddSymbolKeeps DEF Appended
  <1>13. aig'.maxvar = aig.maxvar
    BY <1>8, <1>9, <1>12
  <1>14. SoFar(aig', g) /\ Before(aig', 6) = Before(aig, 6) + 1
    BY <1>1, <1>4, <1>5, <1>6, <1>12, <1>13, SymbolGrows
  <1>15. line' = 1 + LinesOf(aig', Ascii)
    <2>1. PICK i, l, b \in Nat : i = Len(aig.inputs) /\ l = Len(aig.latches) /\ b = Before(aig, 6)
      BY <1>1
    <2>2. LinesOf(aig', Ascii) = (IF Ascii THEN i + 0 ELSE 0) + l + (b + 1)
      BY <1>6, <1>12, <1>14, <2>1 DEF LinesOf
    <2>3. LinesOf(aig, Ascii) = (IF Ascii THEN i + 0 ELSE 0) + l + b
      BY <1>6, <2>1 DEF LinesOf
    <2>4. /\ 1 + ((i + 0) + l + b) + 1 = 1 + ((i + 0) + l + (b + 1))
          /\ 1 + (0 + l + b) + 1 = 1 + (0 + l + (b + 1))
      OBVIOUS
    <2> QED
      BY <1>1, <1>3, <2>2, <2>3, <2>4
  <1>16. Ascii' = Ascii
    BY <1>3 DEF Ascii
  <1> QED
    BY <1>10, <1>14, <1>15, <1>16 DEF Progress

\* What an and of a written graph adds.
AddsAnd(g, k) == \E v \in 1..aig.maxvar :
    types[v].is = "none" /\ g.ands[k].lhs = 2 * v /\ AddAnd(2 * v, g.ands[k].rhs0, g.ands[k].rhs1)
\* With the next and of the graph added, what has been read is still its beginning.
LEMMA AndRead ==
    ASSUME IsFile(file), at = "read", ReadPhase, NEW g, WrittenGraph(g), Progress(g), SymbolsRead,
           NEW k, k = Len(aig.ands) + 1, k \in 1..Len(g.ands), AddsAnd(g, k), file' = file,
           line' = line + (IF Ascii THEN 1 ELSE 0)
    PROVE  Progress(g)'
  <1>1. /\ IsGraph(g) /\ GraphOK(g) /\ SoFar(aig, g)
        /\ Len(aig.inputs) \in Nat /\ Len(aig.latches) \in Nat /\ Len(aig.ands) \in Nat /\ Len(g.ands) \in Nat
        /\ line = 1 + LinesOf(aig, Ascii) /\ Before(aig, 6) \in Nat
    BY ReadSoFar
  <1>2. GraphPhase /\ GraphOK(aig) /\ Corresponds(aig, types) /\ NoMarks(aig, types) /\ aig.maxvar = g.maxvar
    BY <1>1 DEF ReadPhase, GraphPhase, SoFar
  <1>3. PICK v \in 1..aig.maxvar :
          types[v].is = "none" /\ g.ands[k].lhs = 2 * v /\ AddAnd(2 * v, g.ands[k].rhs0, g.ands[k].rhs1)
    BY DEF AddsAnd
  <1> DEFINE e == g.ands[k]
  <1>4. e \in AndRecords(g) /\ e.rhs0 \in LitsOf(aig) /\ e.rhs1 \in LitsOf(aig)
    <2>1. e \in AndRecords(g) /\ e.rhs0 \in LitsOf(g) /\ e.rhs1 \in LitsOf(g)
      BY <1>1, GraphEntries
    <2>2. LitsOf(g) = LitsOf(aig)
      BY <1>2 DEF LitsOf
    <2> QED
      BY <2>1, <2>2
  <1>5. /\ aig'.maxvar = aig.maxvar /\ aig'.inputs = aig.inputs /\ aig'.latches = aig.latches
        /\ aig'.symbols = aig.symbols
        /\ Len(aig'.ands) = Len(aig.ands) + 1
        /\ aig'.ands[Len(aig.ands) + 1] = [lhs |-> 2 * v, rhs0 |-> e.rhs0, rhs1 |-> e.rhs1]
        /\ \A x \in 1..Len(aig.ands) : aig'.ands[x] = aig.ands[x]
    BY <1>2, <1>3, <1>4, AddAndKeeps
  <1>6. [lhs |-> 2 * v, rhs0 |-> e.rhs0, rhs1 |-> e.rhs1] = e
    BY <1>3, <1>4 DEF AndRecords
  <1>7. Grows(aig.ands, aig'.ands, g.ands)
    <2>1. \A x, y \in Nat : x + 1 \in 1..y => x < y
      OBVIOUS
    <2>2. Len(aig.ands) < Len(g.ands)
      BY <1>1, <2>1
    <2> QED
      BY <1>1, <1>5, <1>6, <2>2 DEF Grows
  <1>8. SoFar(aig', g) /\ Before(aig', 6) = Before(aig, 6)
    <2>1. \A m \in 1..5 : Size(aig', m) = Size(aig, m)
      BY <1>5 DEF Size
    <2>2. Begins(aig'.ands, g.ands)
      BY <1>1, <1>7, GrowsOn DEF SoFar
    <2> QED
      BY <1>1, <1>5, <2>1, <2>2 DEF SoFar, InTurn, Before
  <1>9. line' = 1 + LinesOf(aig', Ascii)
    <2>1. PICK i, l, d, b \in Nat : i = Len(aig.inputs) /\ l = Len(aig.latches) /\ d = Len(aig.ands) /\ b = Before(aig, 6)
      BY <1>1
    <2>2. LinesOf(aig', Ascii) = (IF Ascii THEN i + (d + 1) ELSE 0) + l + b
      BY <1>5, <1>8, <2>1 DEF LinesOf
    <2>3. LinesOf(aig, Ascii) = (IF Ascii THEN i + d ELSE 0) + l + b
      BY <2>1 DEF LinesOf
    <2>4. /\ 1 + ((i + d) + l + b) + 1 = 1 + ((i + (d + 1)) + l + b)
          /\ 1 + (0 + l + b) + 0 = 1 + (0 + l + b)
      OBVIOUS
    <2> QED
      BY <1>1, <2>2, <2>3, <2>4
  <1>10. Ascii' = Ascii
    BY DEF Ascii
  <1> QED
    BY <1>8, <1>9, <1>10 DEF Progress

\* What the reader knows at an and.
LEMMA AtAnd ==
    ASSUME IsFile(file), at = "read", ReadPhase, NEW g, WrittenGraph(g), Progress(g), SymbolsRead
    PROVE  /\ Before(aig, 6) = Before(g, 6) /\ Len(aig.inputs) = Len(g.inputs) /\ Len(aig.latches) = Len(g.latches)
           /\ \A m \in 1..5 : Size(aig, m) = Size(g, m)
  <1>1. /\ LatchesRead <=> InputsRead /\ Len(aig.latches) = Len(g.latches)
        /\ InputsRead <=> Len(aig.inputs) = Len(g.inputs)
        /\ \A m \in 0..5 : KindsRead(m) <=> LatchesRead /\ \A j \in 1..m : Size(aig, j) = Size(g, j)
    BY ReadSoFar
  <1>2. KindsRead(5) /\ 5 \in 0..5
    BY KindNames DEF SymbolsRead
  <1>3. \A j \in 1..5 : Size(aig, j) = Size(g, j)
    BY <1>1, <1>2
  <1>4. /\ Size(aig, 1) = Size(g, 1) /\ Size(aig, 2) = Size(g, 2) /\ Size(aig, 3) = Size(g, 3)
        /\ Size(aig, 4) = Size(g, 4) /\ Size(aig, 5) = Size(g, 5)
    BY <1>3
  <1>5. Before(aig, 6) = Before(g, 6)
    BY <1>4 DEF Before
  <1> QED
    BY <1>1, <1>2, <1>3, <1>5

\* Every and of an ASCII file is read as it was written.
LEMMA AsciiAndReads ==
    ASSUME IsFile(file), at = "read", ReadPhase, NEW g, WrittenGraph(g), Progress(g), ReadAsciiAnd
    PROVE  at' = "read" /\ Progress(g)'
  <1>1. /\ IsGraph(g) /\ IsGraph(aig) /\ GraphOK(g) /\ SoFar(aig, g) /\ Shows(file, g)
        /\ Len(aig.ands) \in Nat /\ Len(g.ands) \in Nat /\ Len(aig.ands) <= Len(g.ands)
        /\ AndsRead <=> SymbolsRead /\ Len(aig.ands) = Len(g.ands)
        /\ line = 1 + LinesOf(aig, Ascii)
    BY ReadSoFar
  <1>2. SymbolsRead /\ ~AndsRead /\ Ascii /\ file' = file /\ line' = line + 1
    BY DEF ReadAsciiAnd
  <1>3. Before(aig, 6) = Before(g, 6) /\ Len(aig.inputs) = Len(g.inputs) /\ Len(aig.latches) = Len(g.latches)
    BY <1>2, AtAnd
  <1>4. PICK k : k = Len(aig.ands) + 1
    OBVIOUS
  <1>5. k \in 1..Len(g.ands) /\ k \in Nat
    <2>1. \A x, y \in Nat : x <= y /\ x # y => x + 1 \in 1..y
      OBVIOUS
    <2> QED
      BY <1>1, <1>2, <1>4, <2>1
  <1>6. PICK i, l, d, b \in Nat : i = Len(g.inputs) /\ l = Len(g.latches) /\ d = Len(g.ands) /\ b = Before(g, 6)
    BY <1>1, GraphEntries, LinesThere
  <1>7. line = i + l + b + k /\ line \in 1..Len(file.lines)
    <2>1. LinesOf(aig, Ascii) = (i + Len(aig.ands)) + l + b
      BY <1>2, <1>3, <1>6 DEF LinesOf
    <2>2. \A x \in Nat : 1 + ((i + x) + l + b) = i + l + b + (x + 1)
      OBVIOUS
    <2>3. line = i + l + b + k
      BY <1>1, <1>4, <2>1, <2>2
    <2>4. Len(file.lines) = (i + d) + l + b
      BY <1>1, <1>2, <1>6, LinesThere DEF LinesOf
    <2>5. \A x \in 1..d : i + l + b + x \in 1..((i + d) + l + b)
      OBVIOUS
    <2> QED
      BY <1>5, <1>6, <2>3, <2>4, <2>5
  <1>8. PICK e : e = g.ands[k]
    OBVIOUS
  <1>9. file.lines[i + l + b + k] = <<e.lhs, e.rhs0, e.rhs1>>
    BY <1>1, <1>2, <1>5, <1>6, <1>8 DEF Shows, Ascii, AndsInLines
  <1>10. e.lhs \in LitsOf(g) /\ e.rhs0 \in LitsOf(g) /\ e.rhs1 \in LitsOf(g)
    BY <1>1, <1>5, <1>8, GraphEntries
  <1>11. Numbers = <<e.lhs, e.rhs0, e.rhs1>>
    <2>1. <<e.lhs, e.rhs0, e.rhs1>> \in Seq(0..(Word - 1))
      BY <1>1, <1>10, LitsInWord
    <2> QED
      BY <1>7, <1>9, <2>1, LineRead
  <1>12. GraphPhase /\ aig.maxvar = g.maxvar /\ aig.maxvar \in Nat
    BY <1>1, GraphParts DEF ReadPhase, GraphPhase, SoFar
  <1>13. InRange(e.rhs0) /\ InRange(e.rhs1)
    <2>1. \A x \in 0..(2 * aig.maxvar + 1) : x \in Nat /\ Var(x) <= aig.maxvar
      BY <1>12, Literals
    <2> QED
      BY <1>10, <1>12, <2>1 DEF LitsOf, InRange
  <1>14. /\ Definable(e.lhs) /\ Var(e.lhs) \in 1..aig.maxvar /\ e.lhs = 2 * Var(e.lhs)
         /\ types[Var(e.lhs)].is = "none"
    <2>1. \A w \in Whats : \A j \in 1..Count(aig, w) : Defined(aig, w, j) = Defined(g, w, j) /\ j \in 1..Count(g, w)
      BY <1>1, SoFarDefines
    <2>2. k \in 1..Count(g, "and") /\ k \notin 1..Count(aig, "and") /\ Defined(g, "and", k) = e.lhs /\ "and" \in Whats
      BY <1>1, <1>4, <1>5, <1>8 DEF Count, Defined, Whats
    <2>3. Apart(g)
      BY <1>2 DEF WrittenGraph
    <2> QED
      BY <1>1, <1>12, <2>1, <2>2, <2>3, DefinableNext
  <1>15. AddAnd(e.lhs, e.rhs0, e.rhs1) /\ at' = "read"
    <2>1. Len(Numbers) = 3 /\ Numbers[1] = e.lhs /\ Numbers[2] = e.rhs0 /\ Numbers[3] = e.rhs1
      BY <1>11
    <2> QED
      BY <1>13, <1>14, <2>1 DEF ReadAsciiAnd, Read
  <1>16. AddsAnd(g, k)
    BY <1>8, <1>14, <1>15 DEF AddsAnd
  <1>17. line' = line + (IF Ascii THEN 1 ELSE 0)
    BY <1>2
  <1>18. Progress(g)'
    BY <1>2, <1>4, <1>5, <1>16, <1>17, AndRead
  <1> QED
    BY <1>15, <1>18

\* The codes of an and of a written binary file, and what they are read as.
LEMMA CodesRead ==
    ASSUME NEW g, GraphOK(g), InOrder(g), Shows(file, g), ~Ascii, NEW k \in 1..Len(g.ands), NEW e, e = g.ands[k]
    PROVE  /\ k \in Nat /\ (2 * k - 2) + 1 \in 1..Len(file.codes) /\ (2 * k - 2) + 2 \in 1..Len(file.codes)
           /\ DeltaAccepted(file.codes[(2 * k - 2) + 1], TRUE) /\ DeltaAccepted(file.codes[(2 * k - 2) + 2], TRUE)
           /\ ReadDelta(file.codes[(2 * k - 2) + 1]) = e.lhs - e.rhs0
           /\ ReadDelta(file.codes[(2 * k - 2) + 2]) = e.rhs0 - e.rhs1
           /\ e.lhs \in Nat /\ e.rhs0 \in Nat /\ e.rhs1 \in Nat /\ e.rhs0 <= e.lhs /\ e.rhs1 <= e.rhs0
  <1>1. IsGraph(g)
    BY DEF GraphOK
  <1>2. e.lhs \in LitsOf(g) /\ e.rhs0 \in LitsOf(g) /\ e.rhs1 \in LitsOf(g) /\ Len(g.ands) \in Nat
    BY <1>1, GraphEntries
  <1>3. e.rhs0 <= e.lhs /\ e.rhs1 <= e.rhs0
    BY DEF InOrder
  <1>4. /\ e.lhs \in Nat /\ e.rhs0 \in Nat /\ e.rhs1 \in Nat /\ e.lhs < Word /\ Word \in Nat
    <2>1. \A x \in LitsOf(g) : x \in 0..(Word - 1)
      BY LitsInWord
    <2>2. Word \in Nat
      BY WordIs
    <2> QED
      BY <1>2, <2>1, <2>2
  <1>5. /\ e.lhs - e.rhs0 \in Nat /\ e.lhs - e.rhs0 < Word
        /\ e.rhs0 - e.rhs1 \in Nat /\ e.rhs0 - e.rhs1 < Word
    BY <1>3, <1>4
  <1>6. /\ Len(file.codes) = 2 * Len(g.ands)
        /\ file.codes[2 * k - 1] = WriteDelta(e.lhs - e.rhs0) /\ file.codes[2 * k] = WriteDelta(e.rhs0 - e.rhs1)
    BY DEF Shows, AndsInCodes, Ascii
  <1>7. k \in Nat /\ (2 * k - 2) + 1 = 2 * k - 1 /\ (2 * k - 2) + 2 = 2 * k
    OBVIOUS
  <1>8. 2 * k - 1 \in 1..Len(file.codes) /\ 2 * k \in 1..Len(file.codes)
    BY <1>2, <1>6
  <1>9. /\ DeltaAccepted(WriteDelta(e.lhs - e.rhs0), TRUE) /\ DeltaAccepted(WriteDelta(e.rhs0 - e.rhs1), TRUE)
        /\ ReadDelta(WriteDelta(e.lhs - e.rhs0)) = e.lhs - e.rhs0
        /\ ReadDelta(WriteDelta(e.rhs0 - e.rhs1)) = e.rhs0 - e.rhs1
    BY <1>5, DeltaWrittenAccepted, DeltaRead
  <1> QED
    BY <1>3, <1>4, <1>6, <1>7, <1>8, <1>9

\* An and whose codes are those of a graph is added as the graph has it.
LEMMA BinaryAndTaken ==
    ASSUME ReadBinaryAnd, ~file.cut, NEW k, k = Len(aig.ands) + 1, NEW v, v = Header.inputs + Header.latches + k,
           NEW a \in Nat, NEW b \in Nat, b <= a, a <= 2 * v, v \in Nat, k \in Nat,
           (2 * k - 2) + 1 \in 1..Len(file.codes), (2 * k - 2) + 2 \in 1..Len(file.codes),
           DeltaAccepted(file.codes[(2 * k - 2) + 1], TRUE), DeltaAccepted(file.codes[(2 * k - 2) + 2], TRUE),
           ReadDelta(file.codes[(2 * k - 2) + 1]) = 2 * v - a, ReadDelta(file.codes[(2 * k - 2) + 2]) = a - b
    PROVE  at' = at /\ AddAnd(2 * v, a, b)
  <1> DEFINE here(j) == (2 * k - 2) + j
             accepted(j) == here(j) <= Len(file.codes) /\
                            DeltaAccepted(file.codes[here(j)], ~file.cut \/ here(j) < Len(file.codes))
             delta(j) == ReadDelta(file.codes[here(j)])
             rhs0 == 2 * v - delta(1)
  <1>1. Read(accepted(1) /\ delta(1) <= 2 * v /\ accepted(2) /\ delta(2) <= rhs0, AddAnd(2 * v, rhs0, rhs0 - delta(2)))
    BY DEF ReadBinaryAnd
  <1>2. delta(1) = 2 * v - a /\ delta(2) = a - b
    OBVIOUS
  <1>3. accepted(1) /\ accepted(2)
    <2>1. (~file.cut \/ here(1) < Len(file.codes)) = TRUE /\ (~file.cut \/ here(2) < Len(file.codes)) = TRUE
      OBVIOUS
    <2>2. here(1) <= Len(file.codes) /\ here(2) <= Len(file.codes)
      OBVIOUS
    <2> QED
      BY <2>1, <2>2
  <1> HIDE DEF here, accepted, delta
  <1>4. delta(1) <= 2 * v /\ rhs0 = a
    BY <1>2
  <1> HIDE DEF rhs0
  <1>5. delta(2) <= rhs0 /\ rhs0 - delta(2) = b
    BY <1>2, <1>4
  <1> QED
    BY <1>1, <1>3, <1>4, <1>5 DEF Read

\* Every and of a binary file is read as it was written: its literal from its place,
\* its operands from the deltas.
LEMMA BinaryAndReads ==
    ASSUME IsFile(file), at = "read", ReadPhase, NEW g, WrittenGraph(g), Progress(g), ReadBinaryAnd
    PROVE  at' = "read" /\ Progress(g)'
  <1>1. /\ IsGraph(g) /\ IsGraph(aig) /\ GraphOK(g) /\ SoFar(aig, g) /\ Shows(file, g)
        /\ Len(aig.ands) \in Nat /\ Len(g.ands) \in Nat /\ Len(aig.ands) <= Len(g.ands)
        /\ AndsRead <=> SymbolsRead /\ Len(aig.ands) = Len(g.ands)
        /\ Len(g.inputs) \in Nat /\ Len(g.latches) \in Nat
    BY ReadSoFar
  <1>2. SymbolsRead /\ ~AndsRead /\ ~Ascii /\ file' = file /\ line' = line
    BY DEF ReadBinaryAnd
  <1>3. Len(aig.inputs) = Len(g.inputs) /\ Len(aig.latches) = Len(g.latches)
    BY <1>2, AtAnd
  <1>4. PICK k : k = Len(aig.ands) + 1
    OBVIOUS
  <1>5. k \in 1..Len(g.ands) /\ k \in Nat
    <2>1. \A x, y \in Nat : x <= y /\ x # y => x + 1 \in 1..y
      OBVIOUS
    <2> QED
      BY <1>1, <1>2, <1>4, <2>1
  <1>6. PICK i, l, d \in Nat : i = Len(g.inputs) /\ l = Len(g.latches) /\ d = Len(aig.ands)
    BY <1>1
  <1>7. Header.inputs = i /\ Header.latches = l /\ ~file.cut
    BY <1>6, HeaderSays DEF WrittenGraph
  <1>8. InOrder(g)
    BY <1>2 DEF WrittenGraph
  <1>9. PICK v : v = i + l + k
    OBVIOUS
  <1>10. PICK e : e = g.ands[k]
    OBVIOUS
  <1>11. e.lhs = 2 * v
    BY <1>5, <1>6, <1>8, <1>9, <1>10 DEF InOrder
  <1>12. aig.maxvar = g.maxvar /\ aig.maxvar \in Nat
    BY <1>1, GraphParts DEF SoFar
  <1>13. v \in 1..aig.maxvar /\ i < v /\ i + l < v /\ i + l + d < v /\ v \in Nat
    <2>1. i + l + Len(g.ands) <= aig.maxvar
      BY <1>6, <1>8, <1>12 DEF InOrder
    <2>2. k = d + 1
      BY <1>4, <1>6
    <2>3. PICK n \in Nat : n = Len(g.ands)
      BY <1>1
    <2>4. k \in 1..n /\ i + l + n <= aig.maxvar
      BY <1>5, <2>1, <2>3
    <2> QED
      BY <1>9, <1>12, <2>2, <2>4
  <1>14. types[v].is = "none"
    <2>1. Len(aig.inputs) < v /\ Header.inputs + Len(aig.latches) < v /\ Header.inputs + Header.latches + Len(aig.ands) < v
      BY <1>3, <1>6, <1>7, <1>13
    <2> QED
      BY <1>2, <1>13, <2>1, BehindAll
  <1>15. /\ (2 * k - 2) + 1 \in 1..Len(file.codes) /\ (2 * k - 2) + 2 \in 1..Len(file.codes)
         /\ DeltaAccepted(file.codes[(2 * k - 2) + 1], TRUE) /\ DeltaAccepted(file.codes[(2 * k - 2) + 2], TRUE)
         /\ ReadDelta(file.codes[(2 * k - 2) + 1]) = e.lhs - e.rhs0
         /\ ReadDelta(file.codes[(2 * k - 2) + 2]) = e.rhs0 - e.rhs1
         /\ e.lhs \in Nat /\ e.rhs0 \in Nat /\ e.rhs1 \in Nat /\ e.rhs0 <= e.lhs /\ e.rhs1 <= e.rhs0
    BY <1>1, <1>2, <1>5, <1>8, <1>10, CodesRead
  <1>16. at' = at /\ AddAnd(2 * v, e.rhs0, e.rhs1)
    <2>1. v = Header.inputs + Header.latches + k
      BY <1>7, <1>9
    <2>2. e.rhs0 <= 2 * v /\ ReadDelta(file.codes[(2 * k - 2) + 1]) = 2 * v - e.rhs0
      BY <1>11, <1>15
    <2> QED
      BY <1>4, <1>5, <1>7, <1>13, <1>15, <2>1, <2>2, BinaryAndTaken
  <1>17. AddsAnd(g, k)
    BY <1>10, <1>11, <1>13, <1>14, <1>16 DEF AddsAnd
  <1>18. line' = line + (IF Ascii THEN 1 ELSE 0)
    <2>1. line \in Nat
      <3>1. line = 1 + LinesOf(aig, Ascii) /\ Before(aig, 6) \in Nat /\ Len(aig.latches) \in Nat
        BY ReadSoFar
      <3>2. LinesOf(aig, Ascii) = 0 + Len(aig.latches) + Before(aig, 6)
        BY <1>2 DEF LinesOf
      <3>3. \A x, y \in Nat : 1 + (0 + x + y) \in Nat
        OBVIOUS
      <3> QED
        BY <3>1, <3>2, <3>3
    <2> QED
      BY <1>2, <2>1
  <1>19. Progress(g)'
    BY <1>2, <1>4, <1>5, <1>17, <1>18, AndRead
  <1> QED
    BY <1>16, <1>19

\* Of a sequence, the whole has been built.
LEMMA BegunIsWhole ==
    ASSUME NEW A, NEW s \in Seq(A), NEW B, NEW t \in Seq(B), Begins(s, t), Len(s) = Len(t)
    PROVE  s = t
  <1>1. Len(s) \in Nat /\ s = [k \in 1..Len(s) |-> s[k]] /\ t = [k \in 1..Len(t) |-> t[k]]
    OBVIOUS
  <1>2. \A k \in 1..Len(s) : s[k] = t[k]
    BY DEF Begins
  <1> QED
    BY <1>1, <1>2

\* A graph whose sections have all been built is the graph but for its names.
LEMMA AllBuilt ==
    ASSUME NEW a, NEW g, IsGraph(a), IsGraph(g), SoFar(a, g), Len(a.inputs) = Len(g.inputs),
           Len(a.latches) = Len(g.latches), Len(a.ands) = Len(g.ands), \A m \in 1..5 : Size(a, m) = Size(g, m)
    PROVE  [a EXCEPT !.names = g.names] = g
  <1>1. /\ a.inputs \in Seq(LitsOf(a)) /\ a.latches \in Seq(LatchRecords(a)) /\ a.ands \in Seq(AndRecords(a))
        /\ g.inputs \in Seq(LitsOf(g)) /\ g.latches \in Seq(LatchRecords(g)) /\ g.ands \in Seq(AndRecords(g))
        /\ a.symbols \in [ToSet(Kinds) -> Seq(Seq(LitsOf(a)))] /\ g.symbols \in [ToSet(Kinds) -> Seq(Seq(LitsOf(g)))]
        /\ a = [maxvar |-> a.maxvar, inputs |-> a.inputs, latches |-> a.latches,
                symbols |-> a.symbols, ands |-> a.ands, names |-> a.names]
        /\ g = [maxvar |-> g.maxvar, inputs |-> g.inputs, latches |-> g.latches,
                symbols |-> g.symbols, ands |-> g.ands, names |-> g.names]
    BY GraphParts
  <1>2. a.maxvar = g.maxvar /\ Begins(a.inputs, g.inputs) /\ Begins(a.latches, g.latches) /\ Begins(a.ands, g.ands)
        /\ \A m \in 1..5 : Begins(a.symbols[Kinds[m]], g.symbols[Kinds[m]])
    BY DEF SoFar
  <1>3. a.inputs = g.inputs
    BY <1>1, <1>2, BegunIsWhole
  <1>4. a.latches = g.latches
    BY <1>1, <1>2, BegunIsWhole
  <1>5. a.ands = g.ands
    BY <1>1, <1>2, BegunIsWhole
  <1>6. a.symbols = g.symbols
    <2>1. ASSUME NEW m \in 1..5 PROVE a.symbols[Kinds[m]] = g.symbols[Kinds[m]]
      <3>1. Kinds[m] \in ToSet(Kinds)
        BY KindNames
      <3>2. a.symbols[Kinds[m]] \in Seq(Seq(LitsOf(a))) /\ g.symbols[Kinds[m]] \in Seq(Seq(LitsOf(g)))
        BY <1>1, <3>1
      <3>3. Begins(a.symbols[Kinds[m]], g.symbols[Kinds[m]]) /\ Len(a.symbols[Kinds[m]]) = Len(g.symbols[Kinds[m]])
        BY <1>2 DEF Size
      <3> QED
        BY <3>2, <3>3, BegunIsWhole
    <2>2. \A kind \in ToSet(Kinds) : a.symbols[kind] = g.symbols[kind]
      BY <2>1, KindNames
    <2> QED
      BY <1>1, <2>2
  <1> QED
    BY <1>1, <1>2, <1>3, <1>4, <1>5, <1>6

\* Nothing is left of the file when the names come, these are accepted, and the
\* graph read is the graph written, with all its fields.
LEMMA NamesRead ==
    ASSUME IsFile(file), at = "read", ReadPhase, NEW g, WrittenGraph(g), Progress(g), ReadNames
    PROVE  at' = "check" /\ aig' = g
  <1>1. /\ IsGraph(g) /\ IsGraph(aig) /\ GraphOK(g) /\ SoFar(aig, g) /\ Shows(file, g)
        /\ AndsRead <=> SymbolsRead /\ Len(aig.ands) = Len(g.ands)
        /\ line = 1 + LinesOf(aig, Ascii)
    BY ReadSoFar
  <1>2. AndsRead /\ SymbolsRead /\ Len(aig.ands) = Len(g.ands)
    BY <1>1 DEF ReadNames
  <1>3. /\ Before(aig, 6) = Before(g, 6) /\ Len(aig.inputs) = Len(g.inputs) /\ Len(aig.latches) = Len(g.latches)
        /\ \A m \in 1..5 : Size(aig, m) = Size(g, m)
    BY <1>2, AtAnd
  <1>4. line > Len(file.lines)
    <2>1. LinesOf(aig, Ascii) = LinesOf(g, Ascii)
      BY <1>2, <1>3 DEF LinesOf
    <2>2. Len(file.lines) = LinesOf(g, Ascii) /\ Len(file.lines) \in Nat
      BY <1>1, LinesThere
    <2> QED
      BY <1>1, <2>1, <2>2
  <1>5. Ascii \/ Len(file.codes) = 2 * Header.ands
    <2>1. Header.ands = Len(g.ands)
      BY HeaderSays DEF WrittenGraph
    <2> QED
      BY <1>1, <2>1 DEF Shows, AndsInCodes, Ascii
  <1>6. file.names \in Seq(g.names) /\ IsInjective(file.names) /\ ToSet(file.names) = g.names
    BY <1>1 DEF Shows
  <1>7. \A k \in 1..Len(file.names) :
          file.names[k] \in Names /\ file.names[k].place <= SizeOf(file.names[k].kind) /\ file.names[k].place <= Word
    <2>1. NamesFit(g) /\ CountsFit(g)
      BY DEF WrittenGraph
    <2>2. \A kind \in ToSet(Kinds) : Len(aig.symbols[kind]) = Len(g.symbols[kind])
      <3> SUFFICES ASSUME NEW kind \in ToSet(Kinds) PROVE Len(aig.symbols[kind]) = Len(g.symbols[kind])
        OBVIOUS
      <3>1. PICK m \in 1..5 : kind = Kinds[m]
        BY KindNames
      <3>2. Size(aig, m) = Size(g, m)
        BY <1>3
      <3> QED
        BY <3>1, <3>2 DEF Size
    <2>3. \A kind : SizeOf(kind) = PlacesOf(g, kind)
      BY <1>3, <2>2 DEF SizeOf, PlacesOf
    <2>4. \A k \in 1..Len(file.names) : file.names[k] \in g.names
      BY <1>6, ElementOfSeq
    <2>5. \A k \in 1..Len(file.names) : file.names[k] \in Names
      BY NamesSeenAre
    <2>6. \A kind : PlacesOf(g, kind) \in Nat /\ PlacesOf(g, kind) <= Word
      <3>1. Word \in Nat /\ Len(g.inputs) \in Nat /\ Len(g.latches) \in Nat
            /\ \A kind \in ToSet(Kinds) : Len(g.symbols[kind]) \in Nat
        BY <1>1, GraphEntries, WordIs
      <3>2. \A x, y \in Nat : x < y => x <= y
        OBVIOUS
      <3>3. /\ Len(g.inputs) <= Word /\ Len(g.latches) <= Word /\ 0 <= Word
            /\ \A kind \in ToSet(Kinds) : Len(g.symbols[kind]) <= Word
        BY <2>1, <3>1, <3>2 DEF CountsFit
      <3> QED
        BY <3>1, <3>3 DEF PlacesOf
    <2>7. ASSUME NEW k \in 1..Len(file.names)
          PROVE  file.names[k].place <= SizeOf(file.names[k].kind) /\ file.names[k].place <= Word
      <3> DEFINE n == file.names[k]
      <3>1. n \in Names /\ n \in g.names
        BY <2>4, <2>5
      <3> HIDE DEF n
      <3>2. n.place <= PlacesOf(g, n.kind) /\ n.place \in Nat
        BY <2>1, <3>1 DEF NamesFit, Names
      <3>3. PICK x, y \in Nat : x = PlacesOf(g, n.kind) /\ y = n.place
        BY <2>6, <3>2
      <3>4. y <= x /\ x <= Word /\ Word \in Nat
        BY <2>6, <3>2, <3>3, WordIs
      <3> QED
        BY <2>3, <3>2, <3>3, <3>4 DEF n
    <2> QED
      BY <2>5, <2>7
  <1>8. NamesSeen = file.names
    <2>1. /\ NamesSeen \in Seq(Names) /\ Len(NamesSeen) = Len(file.names) /\ file.names \in Seq(Names)
          /\ \A k \in 1..Len(file.names) :
               NamesSeen[k] = [kind |-> file.names[k].kind, place |-> Wrapped(file.names[k].place - 1) + 1]
      BY NamesSeenAre DEF IsFile
    <2>2. ASSUME NEW k \in 1..Len(file.names) PROVE NamesSeen[k] = file.names[k]
      <3> DEFINE n == file.names[k]
      <3>1. n \in Names /\ n.place <= Word
        BY <1>7
      <3> HIDE DEF n
      <3>2. n.place \in Nat \ {0} /\ n = [kind |-> n.kind, place |-> n.place]
        BY <3>1 DEF Names
      <3>3. PICK y \in Nat : y = n.place /\ y # 0
        BY <3>2
      <3>4. y - 1 \in Nat /\ y - 1 < Word
        BY <3>1, <3>3, WordIs
      <3>5. Wrapped(y - 1) = y - 1
        BY <3>4, WrappedIs
      <3>6. Wrapped(n.place - 1) + 1 = n.place
        <4>1. (y - 1) + 1 = y
          BY <3>3
        <4> QED
          BY <3>3, <3>5, <4>1
      <3>7. NamesSeen[k] = [kind |-> n.kind, place |-> Wrapped(n.place - 1) + 1]
        BY <2>1 DEF n
      <3> QED
        BY <3>2, <3>6, <3>7 DEF n
    <2>3. /\ NamesSeen = [k \in 1..Len(NamesSeen) |-> NamesSeen[k]]
          /\ file.names = [k \in 1..Len(file.names) |-> file.names[k]]
      BY <2>1
    <2> QED
      BY <2>1, <2>2, <2>3
  <1>9. aig' = [aig EXCEPT !.names = ToSet(file.names)] /\ at' = "check"
    BY <1>4, <1>5, <1>6, <1>7, <1>8 DEF ReadNames
  <1>10. [aig EXCEPT !.names = g.names] = g
    BY <1>1, <1>2, <1>3, AllBuilt
  <1> QED
    BY <1>6, <1>9, <1>10

\* The file of a graph is being read, or has been: what has been read is the
\* beginning of the graph, and then the graph.
ReadBack(g) ==
    /\ WrittenGraph(g)
    /\ at \in {"open", "read", "check", "cycles", "checked", "failed"}
    /\ at = "read" => Progress(g) /\ ~Refused
    /\ at \in {"check", "cycles", "checked"} => aig = g /\ ~Refused
    /\ at = "failed" => Refused
SecondPass == pass = 2 => \E g : ReadBack(g)

\* Every step of the reader goes on with the graph that was written, or refuses the
\* file that is refused.
LEMMA ReadsBack ==
    ASSUME IsFile(file), Phases, NEW g, ReadBack(g), Reading
    PROVE  ReadBack(g)'
  <1>1. ReadStep /\ UNCHANGED <<tool, given>>
    BY DEF Reading
  <1>2. (at = "open" => OpenPhase) /\ (at = "read" => ReadPhase) /\ WrittenGraph(g)
    BY DEF Phases, ReadBack
  <1>3. at \in {"open", "read"}
    BY <1>1 DEF ReadStep, ReadHeader, ReadInput, ReadLatch, ReadSymbol, ReadAsciiAnd, ReadBinaryAnd, ReadNames
  <1>4. file' = file
    BY <1>1, <1>2, ReadStepKeeps DEF OpenPhase
  <1>5. WrittenGraph(g)' /\ (Refused' <=> Refused)
    <2>1. UNCHANGED <<file, tool, given>>
      BY <1>1, <1>4
    <2> QED
      BY <1>2, <2>1, WrittenStays
  <1>6. CASE ReadHeader
    <2>1. (at' = "failed" /\ Refused) \/ (at' = "read" /\ ~Refused /\ Progress(g)')
      BY <1>2, <1>6, HeaderReads
    <2> QED
      BY <1>5, <2>1 DEF ReadBack
  <1>7. CASE ~ReadHeader
    <2>1. at = "read"
      BY <1>1, <1>7 DEF ReadStep, ReadInput, ReadLatch, ReadSymbol, ReadAsciiAnd, ReadBinaryAnd, ReadNames
    <2>2. ReadPhase /\ Progress(g) /\ ~Refused
      BY <1>2, <2>1 DEF ReadBack
    <2>3. CASE ReadInput
      BY <1>2, <1>5, <2>1, <2>2, <2>3, InputReads DEF ReadBack
    <2>4. CASE ReadLatch
      BY <1>2, <1>5, <2>1, <2>2, <2>4, LatchReads DEF ReadBack
    <2>5. CASE ReadSymbol
      BY <1>2, <1>5, <2>1, <2>2, <2>5, SymbolReads DEF ReadBack
    <2>6. CASE ReadAsciiAnd
      BY <1>2, <1>5, <2>1, <2>2, <2>6, AsciiAndReads DEF ReadBack
    <2>7. CASE ReadBinaryAnd
      BY <1>2, <1>5, <2>1, <2>2, <2>7, BinaryAndReads DEF ReadBack
    <2>8. CASE ReadNames
      <3>1. at' = "check" /\ aig' = g
        BY <1>2, <2>1, <2>2, <2>8, NamesRead
      <3> QED
        BY <1>5, <2>2, <3>1 DEF ReadBack
    <2> QED
      BY <1>1, <1>7, <2>3, <2>4, <2>5, <2>6, <2>7, <2>8 DEF ReadStep
  <1> QED
    BY <1>6, <1>7

\* aiger_check finds the graph correct, as it was when it was written.
LEMMA ChecksBack ==
    ASSUME ToolsInv, NEW g, ReadBack(g), Checking
    PROVE  ReadBack(g)'
  <1>1. CheckStep /\ UNCHANGED <<file, tool, given>>
    BY DEF Checking
  <1>2. at \in {"check", "cycles"} /\ at' \in {"cycles", "failed", "checked"} /\ aig' = aig
    BY <1>1 DEF CheckStep, CheckDefined, NextRoot, CycleFound, PopVisited, Enter, Leave, CheckPassed, Searching
  <1>3. WrittenGraph(g) /\ aig = g /\ ~Refused
    BY <1>2 DEF ReadBack
  <1>4. GraphPhase
    BY <1>2 DEF ToolsInv, Phases, CheckStart, CyclePhase
  <1>5. AllDefined /\ Acyclic
    <2>1. DefinedIn(aig) /\ AcyclicIn(aig)
      BY <1>3 DEF WrittenGraph
    <2> QED
      BY <1>4, <2>1, AllDefinedIs, AcyclicIs
  <1>6. at' # "failed"
    <2>1. Verdict
      BY CheckingKeeps
    <2> QED
      BY <1>5, <2>1 DEF Verdict
  <1>7. WrittenGraph(g)' /\ (Refused' <=> Refused)
    BY <1>1, <1>3, WrittenStays
  <1> QED
    BY <1>2, <1>3, <1>6, <1>7 DEF ReadBack

\* The second pass begins with the file of the graph of the first.
LEMMA SecondPassBegins ==
    ASSUME ToolsInv, FunctionInv, FirstPass, pass = 1, WriteAscii \/ WriteBinary
    PROVE  \E g : ReadBack(g)'
  <1>1. Phases
    BY DEF ToolsInv
  <1>2. PICK g : g = aig
    OBVIOUS
  <1>3. WrittenGraph(g)' /\ at' = "open"
    <2>1. CASE WriteAscii
      <3>1. at = "checked" /\ tool = "toAscii"
        BY <2>1 DEF WriteAscii, Keep
      <3>2. CheckedPhase /\ Singles(aig) /\ CountsFit(aig) /\ NamesFit(aig)
        BY <1>1, <3>1 DEF Phases, FirstPass
      <3> QED
        BY <1>2, <2>1, <3>2, AsciiWritten
    <2>2. CASE WriteBinary
      <3>1. at = "reencoded" /\ tool = "toBinary"
        BY <2>2 DEF WriteBinary
      <3>2. /\ ReencodedPhase /\ FunctionsKept /\ Singles(aig) /\ CountsFit(aig) /\ NamesFit(aig)
            /\ Writable(aig)
        BY <1>1, <3>1 DEF Phases, FirstPass, FunctionInv
      <3> QED
        BY <1>2, <2>2, <3>2, BinaryWritten
    <2> QED
      BY <2>1, <2>2
  <1>4. ReadBack(g)'
    BY <1>3 DEF ReadBack
  <1> QED
    BY <1>4

\* The two invariants, of the first pass and of the second, are kept by every step.
LEMMA PassesStep ==
    ASSUME ToolsInv, FunctionInv, FirstPass, SecondPass, [ToolsNext]_toolVars
    PROVE  FirstPass' /\ SecondPass'
  <1>1. pass \in {1, 2} /\ IsFile(file) /\ Phases
    BY DEF ToolsInv
  <1>2. CASE UNCHANGED toolVars
    <2>1. UNCHANGED <<aig, at, given, tool, pass, file, line>>
      BY <1>2 DEF toolVars, graphVars
    <2>2. FirstPass'
      BY <1>1, <2>1, FirstPassStep DEF FirstPass
    <2>3. ASSUME NEW g, ReadBack(g) PROVE ReadBack(g)'
      <3>1. WrittenGraph(g)' /\ (Refused' <=> Refused) /\ (Ascii' <=> Ascii)
        BY <2>1, <2>3, WrittenStays DEF ReadBack
      <3>2. Progress(g)' <=> Progress(g)
        BY <2>1 DEF Progress, Ascii
      <3> QED
        BY <2>1, <2>3, <3>1, <3>2 DEF ReadBack
    <2>4. SecondPass'
      BY <2>1, <2>3 DEF SecondPass
    <2> QED
      BY <2>2, <2>4
  <1>3. CASE Reading \/ Checking
    <2>1. UNCHANGED <<tool, pass>>
      BY <1>3 DEF Reading, Checking
    <2>2. FirstPass'
      <3>1. CASE pass = 1 /\ tool # "aigsim"
        <4>1. ToolsNext
          BY <1>3 DEF ToolsNext, ToolStep
        <4> QED
          BY <2>1, <3>1, <4>1, FirstPassStep
      <3>2. CASE ~(pass = 1 /\ tool # "aigsim")
        BY <2>1, <3>2 DEF FirstPass
      <3> QED
        BY <3>1, <3>2
    <2>3. ASSUME NEW g, ReadBack(g) PROVE ReadBack(g)'
      BY <1>1, <1>3, <2>3, ReadsBack, ChecksBack
    <2>4. SecondPass'
      BY <2>1, <2>3 DEF SecondPass
    <2> QED
      BY <2>2, <2>4
  <1>4. CASE Recoded \/ MoveOutputs \/ PrepareBinary
    <2>1. UNCHANGED <<tool, pass>>
      BY <1>4 DEF Recoded, MoveOutputs, PrepareBinary
    <2>2. pass = 1
      <3>1. CASE Recoded
        <4>1. at \in {"reencode", "recode"}
          BY <3>1 DEF Recoded, ReencodeStep, StartReencode, NextStart, PopCoded, Expand, Number, Rebuild, Recoding
        <4>2. pass # 2
          BY <4>1 DEF SecondPass, ReadBack
        <4> QED
          BY <1>1, <4>2
      <3>2. CASE MoveOutputs \/ PrepareBinary
        BY <3>2 DEF MoveOutputs, PrepareBinary, Keep
      <3> QED
        BY <1>4, <3>1, <3>2
    <2>3. FirstPass'
      <3>1. CASE tool # "aigsim"
        BY <2>1, <2>2, <3>1, FirstPassStep
      <3>2. CASE tool = "aigsim"
        BY <2>1, <3>2 DEF FirstPass
      <3> QED
        BY <3>1, <3>2
    <2> QED
      BY <2>1, <2>2, <2>3 DEF SecondPass
  <1>5. CASE WriteAscii \/ WriteBinary
    <2>1. pass' = 2
      BY <1>5 DEF WriteAscii, WriteBinary, Write
    <2>2. pass = 1
      <3>1. CASE WriteAscii
        BY <3>1 DEF WriteAscii, Keep
      <3>2. CASE WriteBinary
        <4>1. at = "reencoded"
          BY <3>2 DEF WriteBinary
        <4>2. pass # 2
          BY <4>1 DEF SecondPass, ReadBack
        <4> QED
          BY <1>1, <4>2
      <3> QED
        BY <1>5, <3>1, <3>2
    <2>3. \E g : ReadBack(g)'
      BY <1>5, <2>2, SecondPassBegins
    <2> QED
      BY <2>1, <2>3 DEF FirstPass, SecondPass
  <1> QED
    BY <1>2, <1>3, <1>4, <1>5 DEF ToolsNext, ToolStep

\* They say of the second pass what WrittenIsRead asks.
LEMMA BackIsRead ==
    ASSUME SecondPass
    PROVE  WrittenIsRead
  <1> SUFFICES ASSUME pass = 2
               PROVE  /\ at = "failed" => Refused
                      /\ at = "checked" => /\ ~Refused
                                           /\ SameFunctions(given, aig, ToSet(Kinds))
                                           /\ aig.names = given.names
    BY DEF WrittenIsRead, Refused
  <1>1. PICK g : ReadBack(g)
    BY DEF SecondPass
  <1>2. at = "failed" => Refused
    BY <1>1 DEF ReadBack
  <1>3. at = "checked" => aig = g /\ ~Refused
    BY <1>1 DEF ReadBack
  <1>4. SameFunctions(given, g, ToSet(Kinds)) /\ g.names = given.names
    BY <1>1 DEF ReadBack, WrittenGraph
  <1> QED
    BY <1>2, <1>3, <1>4

\* What aigtoaig writes, in either format, is read again, passes aiger_check and has
\* the functions and names of the graph that was read first, for every file and words
\* of any width; the reader refuses it exactly if the graph had the form of the binary
\* format and variables that nothing defines (aiger.c, aiger_write_generic,
\* aiger_read_generic).
THEOREM WrittenAlwaysRead == ToolsSpec => []WrittenIsRead
  <1>1. ToolsInit => FunctionInv /\ FirstPass /\ SecondPass
    BY DEF ToolsInit, FunctionInv, FunctionsKept, FirstPass, SecondPass
  <1>2. /\ ToolsInv /\ FunctionInv /\ FirstPass /\ SecondPass /\ [ToolsNext]_toolVars
        => FunctionInv' /\ FirstPass' /\ SecondPass'
    BY FunctionsStep, PassesStep
  <1>3. SecondPass => WrittenIsRead
    BY BackIsRead
  <1> QED
    BY <1>1, <1>2, <1>3, ToolsInvHolds, PTL DEF ToolsSpec
=============================================================================
