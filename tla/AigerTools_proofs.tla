------------------------- MODULE AigerTools_proofs -------------------------
(***************************************************************************)
(* Theorems about the AIGER library (module AigerTools), for every file.   *)
(* The invariant says, call by call, what the reader, the check and the    *)
(* re-encoding have established so far.  The two depth first searches of   *)
(* the library keep one invariant, that of a search with markers (Search); *)
(* it makes a cycle out of a gate that comes up again, and an order out of *)
(* a search that ends.                                                     *)
(***************************************************************************)
EXTENDS AigerTools, SetInduction, SequenceTheorems

(***************************************************************************)
(* Literals, and the maximum of a set.                                     *)
(***************************************************************************)
LEMMA Literals ==
    ASSUME NEW lit \in Nat
    PROVE  /\ Var(lit) \in Nat /\ lit % 2 \in {0, 1} /\ lit = 2 * Var(lit) + (lit % 2)
           /\ IsNeg(lit) \in BOOLEAN /\ ~IsNeg(lit) => lit = 2 * Var(lit)
           /\ \A m \in Nat : lit \in 0..(2 * m + 1) <=> Var(lit) <= m
  <1>1. /\ lit \div 2 \in Nat /\ lit % 2 \in {0, 1}
        /\ lit = 2 * (lit \div 2) + (lit % 2)
    OBVIOUS
  <1> QED
    BY <1>1 DEF Var, IsNeg

\* The positive literal of a variable.
LEMMA Doubled ==
    ASSUME NEW v \in Nat
    PROVE  2 * v \in Nat /\ Var(2 * v) = v /\ ~IsNeg(2 * v)
  BY DEF Var, IsNeg

\* A finite set of numbers that is not empty has a maximum (Import, Expand, MaxInputOrLatch).
LEMMA MaxOf ==
    ASSUME NEW S \in SUBSET Nat, IsFiniteSet(S), S # {}
    PROVE  Max(S) \in S /\ \A k \in S : k <= Max(S)
  <1> DEFINE F == {T \in SUBSET S : T = {} \/ \E m \in T : \A k \in T : k <= m}
  <1>1. {} \in F
    OBVIOUS
  <1>2. ASSUME NEW T \in SUBSET S, NEW x \in S, T \in F, x \notin T
        PROVE  T \cup {x} \in F
    <2>1. CASE T = {}
      BY <2>1
    <2>2. CASE T # {}
      <3>1. PICK m \in T : \A k \in T : k <= m
        BY <1>2, <2>2
      <3>2. CASE x <= m
        BY <3>1, <3>2
      <3>3. CASE ~(x <= m)
        <4>1. \A k \in T : k <= x
          BY <3>1, <3>3
        <4> QED
          BY <4>1
      <3> QED
        BY <3>2, <3>3
    <2> QED
      BY <2>1, <2>2
  <1>3. S \in F
    <2> HIDE DEF F
    <2> QED
      BY <1>1, <1>2, InductionOnSubsets
  <1>4. PICK m \in S : \A k \in S : m >= k
    BY <1>3
  <1> QED
    BY <1>4 DEF Max

\* A set of numbers that is not empty has a minimum (Expand, RecodedAnd).
LEMMA MinOf ==
    ASSUME NEW S \in SUBSET Nat, S # {}
    PROVE  Min(S) \in S /\ \A k \in S : Min(S) <= k
  <1>1. PICK m \in S : \A k \in S : m <= k
    BY LeastNatural
  <1> QED
    BY <1>1 DEF Min

\* The place of the first element with a value, 0 if there is none.
LEMMA PlaceOf ==
    ASSUME NEW s, Len(s) \in Nat, NEW n
    PROVE  LET place == SelectInSeq(s, LAMBDA e : e = n) IN
           /\ place \in 0..Len(s)
           /\ place # 0 => s[place] = n
           /\ place = 0 => \A k \in 1..Len(s) : s[k] # n
  <1> DEFINE I == {i \in 1..Len(s) : s[i] = n}
             place == SelectInSeq(s, LAMBDA e : e = n)
  <1>1. place = IF I # {} THEN Min(I) ELSE 0
    BY DEF SelectInSeq
  <1>2. I \in SUBSET Nat
    OBVIOUS
  <1>3. I # {} => Min(I) \in I
    BY <1>2, MinOf
  <1> QED
    BY <1>1, <1>3

(***************************************************************************)
(* Flattening five sequences, one for each kind of symbol.                 *)
(***************************************************************************)
LEMMA KindNames ==
    /\ Len(Kinds) = 5 /\ \A n \in 1..5 : Kinds[n] \in ToSet(Kinds)
    /\ ToSet(Kinds) = {"output", "bad", "constraint", "justice", "fairness"}
    /\ Kinds = <<"output", "bad", "constraint", "justice", "fairness">>
    /\ \A m, n \in 1..5 : Kinds[m] = Kinds[n] => m = n
    /\ \A k \in ToSet(Kinds) : \E n \in 1..5 : k = Kinds[n]
  BY DEF Kinds, ToSet

\* The elements of a sequence.
LEMMA SetOfSeq ==
    ASSUME NEW A, NEW s \in Seq(A)
    PROVE  /\ ToSet(s) = {s[k] : k \in 1..Len(s)} /\ ToSet(s) \in SUBSET A
           /\ IsFiniteSet(ToSet(s))
  <1>1. Len(s) \in Nat /\ DOMAIN s = 1..Len(s)
    OBVIOUS
  <1>2. IsFiniteSet(1..Len(s))
    BY <1>1, FS_Interval
  <1> DEFINE T == {s[k] : k \in 1..Len(s)}
  <1>3. s \in Surjection(1..Len(s), T)
    <2>1. s \in [1..Len(s) -> A]
      BY LenProperties
    <2>2. s \in [1..Len(s) -> T]
      BY <2>1
    <2> QED
      BY <2>2 DEF Surjection
  <1>4. IsFiniteSet(T)
    <2> HIDE DEF T
    <2> QED
      BY <1>2, <1>3, FS_Surjection
  <1>5. ToSet(s) = T
    BY <1>1 DEF ToSet
  <1>6. \A k \in 1..Len(s) : s[k] \in A
    BY ElementOfSeq
  <1> QED
    BY <1>4, <1>5, <1>6

\* The elements of two sequences that are joined.
LEMMA SetOfConcat ==
    ASSUME NEW A, NEW s \in Seq(A), NEW t \in Seq(A)
    PROVE  ToSet(s \o t) = ToSet(s) \cup ToSet(t)
  <1>1. /\ s \o t \in Seq(A) /\ Len(s) \in Nat /\ Len(t) \in Nat
        /\ Len(s \o t) = Len(s) + Len(t)
        /\ \A k \in 1..(Len(s) + Len(t)) : (s \o t)[k] = IF k <= Len(s) THEN s[k] ELSE t[k - Len(s)]
    BY ConcatProperties
  <1>2. ASSUME NEW x \in ToSet(s \o t) PROVE x \in ToSet(s) \cup ToSet(t)
    <2>1. PICK k \in 1..(Len(s) + Len(t)) : x = (s \o t)[k]
      BY <1>1, <1>2 DEF ToSet
    <2>2. CASE k <= Len(s)
      BY <1>1, <2>1, <2>2 DEF ToSet
    <2>3. CASE ~(k <= Len(s))
      <3>1. k - Len(s) \in 1..Len(t) /\ x = t[k - Len(s)]
        BY <1>1, <2>1, <2>3
      <3> QED
        BY <3>1 DEF ToSet
    <2> QED
      BY <2>2, <2>3
  <1>3. ASSUME NEW x \in ToSet(s) PROVE x \in ToSet(s \o t)
    <2>1. PICK k \in 1..Len(s) : x = s[k]
      BY <1>3 DEF ToSet
    <2>2. k \in 1..(Len(s) + Len(t)) /\ x = (s \o t)[k]
      BY <1>1, <2>1
    <2> QED
      BY <1>1, <2>2 DEF ToSet
  <1>4. ASSUME NEW x \in ToSet(t) PROVE x \in ToSet(s \o t)
    <2>1. PICK k \in 1..Len(t) : x = t[k]
      BY <1>4 DEF ToSet
    <2>2. Len(s) + k \in 1..(Len(s) + Len(t)) /\ x = (s \o t)[Len(s) + k]
      BY <1>1, <2>1
    <2> QED
      BY <1>1, <2>2 DEF ToSet
  <1> QED
    BY <1>2, <1>3, <1>4

\* FlattenSeq joins its sequences, one after the other.
JoinedSteps(A, seqs, h) ==
    /\ h \in [0..Len(seqs) -> Seq(A)] /\ h[0] = <<>>
    /\ \A k \in 1..Len(seqs) : h[k] = h[k - 1] \o seqs[k]
    /\ FlattenSeq(seqs) = h[Len(seqs)]
LEMMA FlattenedBySteps ==
    ASSUME NEW A, NEW seqs \in Seq(Seq(A))
    PROVE  \E h : JoinedSteps(A, seqs, h)
  <1>1. CASE Len(seqs) = 0
    <2> DEFINE h == [k \in 0..Len(seqs) |-> <<>>]
    <2>1. seqs = <<>> /\ FlattenSeq(seqs) = seqs
      BY <1>1 DEF FlattenSeq
    <2>2. 1..Len(seqs) = {} /\ 0 \in 0..Len(seqs) /\ Len(seqs) \in 0..Len(seqs)
      BY <1>1
    <2>3. h \in [0..Len(seqs) -> Seq(A)] /\ h[0] = <<>> /\ h[Len(seqs)] = <<>>
      BY <2>2
    <2> HIDE DEF h
    <2>4. JoinedSteps(A, seqs, h)
      BY <2>1, <2>2, <2>3 DEF JoinedSteps
    <2> QED
      BY <2>4
  <1>2. CASE Len(seqs) # 0
    <2> DEFINE n == Len(seqs)
               Body(f, i) == IF i = 1 THEN seqs[i] ELSE f[i - 1] \o seqs[i]
               g == [k \in 0..n |-> <<>>]
               x == [k \in 0..n |-> IF k = 0 THEN 0 ELSE k - 1]
               op == [e \in (0..n) \X Seq(A) \X Seq(A) |->
                        IF e[1] = 0 THEN <<>> ELSE e[2] \o seqs[e[1]]]
    <2>1. n \in Nat \ {0} /\ \A k \in 1..n : seqs[k] \in Seq(A)
      BY <1>2
    <2>2. /\ g \in [0..n -> Seq(A)] /\ x \in [0..n -> Nat]
          /\ \A k \in 0..n : k \notin {0} => x[k] < k /\ x[k] < k
      <3>1. <<>> \in Seq(A)
        OBVIOUS
      <3> QED
        BY <2>1, <3>1
    <2>3. op \in [(0..n) \X Seq(A) \X Seq(A) -> Seq(A)]
      <3> SUFFICES ASSUME NEW k \in 0..n, NEW a \in Seq(A), NEW b \in Seq(A)
                   PROVE  (IF k = 0 THEN <<>> ELSE a \o seqs[k]) \in Seq(A)
        OBVIOUS
      <3>1. CASE k = 0
        BY <3>1
      <3>2. CASE k # 0
        <4>1. seqs[k] \in Seq(A)
          BY <2>1, <3>2
        <4> QED
          BY <3>2, <4>1, ConcatProperties
      <3> QED
        BY <3>1, <3>2
    <2>4. PICK h \in [0..n -> Seq(A)] : SolvesRecursion(h, n, {0}, g, x, x, op)
      <3> HIDE DEF n, g, x, op
      <3> QED
        BY <2>1, <2>2, <2>3, RecursionOnNat
    <2>5. h[0] = <<>> /\ \A k \in 1..n : h[k] = h[k - 1] \o seqs[k]
      <3>1. h[0] = <<>>
        <4>1. 0 \in 0..n /\ g[0] = <<>>
          BY <2>1
        <4> HIDE DEF g, x, op, n
        <4> QED
          BY <2>4, <4>1 DEF SolvesRecursion
      <3>2. ASSUME NEW k \in 1..n PROVE h[k] = h[k - 1] \o seqs[k]
        <4>1. k \in 0..n /\ k # 0 /\ k - 1 \in 0..n /\ x[k] = k - 1
          BY <2>1
        <4>2. h[k] = op[<<k, h[x[k]], h[x[k]]>>]
          <5> HIDE DEF g, x, op, n
          <5> QED
            BY <2>4, <4>1 DEF SolvesRecursion
        <4>3. <<k, h[k - 1], h[k - 1]>> \in (0..n) \X Seq(A) \X Seq(A)
          BY <4>1
        <4> QED
          BY <4>1, <4>2, <4>3
      <3> HIDE DEF g, x, op, n
      <3> QED
        BY <3>1, <3>2
    <2>6. h[1] = seqs[1]
      <3>1. h[1] = h[0] \o seqs[1]
        <4>1. 1 \in 1..n /\ 1 - 1 = 0
          BY <2>1
        <4> HIDE DEF n
        <4> QED
          BY <2>5, <4>1
      <3>2. seqs[1] \in Seq(A)
        BY <2>1
      <3> QED
        BY <2>5, <3>1, <3>2, ConcatEmptySeq
    <2> DEFINE f == [k \in 1..n |-> h[k]]
               flatten == CHOOSE q : q = [i \in 1..n |-> Body(q, i)]
    <2>7. f = [i \in 1..n |-> Body(f, i)]
      <3> SUFFICES ASSUME NEW i \in 1..n PROVE h[i] = Body(f, i)
        OBVIOUS
      <3>1. CASE i = 1
        BY <2>6, <3>1
      <3>2. CASE i # 1
        <4>1. i - 1 \in 1..n /\ f[i - 1] = h[i - 1]
          BY <2>1, <3>2
        <4> QED
          BY <2>5, <3>2, <4>1
      <3> QED
        BY <3>1, <3>2
    <2>8. flatten = [i \in 1..n |-> Body(flatten, i)]
      <3> HIDE DEF f, n, Body
      <3>1. \E q : q = [i \in 1..n |-> Body(q, i)]
        BY <2>7
      <3> QED
        BY <3>1, Zenon
    <2>9. FlattenSeq(seqs) = flatten[n]
      BY <1>2 DEF FlattenSeq
    <2> DEFINE T == {k \in Nat : k \in 1..n => flatten[k] = h[k]}
    <2>10. 0 \in T
      OBVIOUS
    <2>11. ASSUME NEW k \in Nat, k \in T PROVE k + 1 \in T
      <3> SUFFICES ASSUME k + 1 \in 1..n
                   PROVE  flatten[k + 1] = h[k + 1]
        OBVIOUS
      <3> HIDE DEF flatten
      <3>1. flatten[k + 1] = Body(flatten, k + 1)
        BY <2>8
      <3>2. CASE k = 0
        BY <2>6, <3>1, <3>2
      <3>3. CASE k # 0
        <4>1. k \in 1..n /\ k + 1 # 1 /\ (k + 1) - 1 = k
          BY <2>1, <3>3
        <4>2. flatten[k] = h[k]
          BY <2>11, <4>1
        <4>3. flatten[k + 1] = flatten[k] \o seqs[k + 1] /\ h[k + 1] = h[k] \o seqs[k + 1]
          BY <2>5, <3>1, <4>1
        <4> QED
          BY <4>2, <4>3
      <3> QED
        BY <3>2, <3>3
    <2>12. n \in T
      <3> HIDE DEF T
      <3>1. Nat \subseteq T
        BY <2>10, <2>11, InductionOnNat
      <3> QED
        BY <2>1, <3>1
    <2>13. n \in 1..n
      BY <2>1
    <2>14. JoinedSteps(A, seqs, h)
      <3>1. flatten[n] = h[n]
        BY <2>12, <2>13
      <3> HIDE DEF flatten
      <3> QED
        BY <2>5, <2>9, <3>1 DEF JoinedSteps
    <2> QED
      BY <2>14
  <1> QED
    BY <1>1, <1>2

\* What it joins is what they have.
LEMMA Flattened ==
    ASSUME NEW A, NEW seqs \in Seq(Seq(A))
    PROVE  /\ FlattenSeq(seqs) \in Seq(A)
           /\ ToSet(FlattenSeq(seqs)) = UNION {ToSet(seqs[k]) : k \in 1..Len(seqs)}
  <1> DEFINE n == Len(seqs)
  <1>1. n \in Nat /\ \A k \in 1..n : seqs[k] \in Seq(A)
    OBVIOUS
  <1>2. PICK h : JoinedSteps(A, seqs, h)
    BY FlattenedBySteps
  <1>3. /\ h \in [0..n -> Seq(A)] /\ h[0] = <<>> /\ \A k \in 1..n : h[k] = h[k - 1] \o seqs[k]
        /\ FlattenSeq(seqs) = h[n]
    BY <1>2 DEF JoinedSteps
  <1> DEFINE T == {k \in Nat : k \in 0..n => ToSet(h[k]) = UNION {ToSet(seqs[m]) : m \in 1..k}}
  <1> HIDE DEF n
  <1>4. 0 \in T
    <2>1. ToSet(<<>>) = {} /\ 1..0 = {}
      BY DEF ToSet
    <2> QED
      BY <1>3, <2>1
  <1>5. ASSUME NEW k \in Nat, k \in T PROVE k + 1 \in T
    <2> SUFFICES ASSUME k + 1 \in 0..n
                 PROVE  ToSet(h[k + 1]) = UNION {ToSet(seqs[m]) : m \in 1..(k + 1)}
      OBVIOUS
    <2>1. k \in 0..n /\ k + 1 \in 1..n /\ (k + 1) - 1 = k
      BY <1>1
    <2>2. ToSet(h[k]) = UNION {ToSet(seqs[m]) : m \in 1..k}
      BY <1>5, <2>1
    <2>3. h[k] \in Seq(A) /\ seqs[k + 1] \in Seq(A) /\ h[k + 1] = h[k] \o seqs[k + 1]
      BY <1>1, <1>3, <2>1
    <2>4. ToSet(h[k + 1]) = ToSet(h[k]) \cup ToSet(seqs[k + 1])
      BY <2>3, SetOfConcat
    <2>5. 1..(k + 1) = (1..k) \cup {k + 1}
      OBVIOUS
    <2>6. UNION {ToSet(seqs[m]) : m \in 1..(k + 1)}
            = (UNION {ToSet(seqs[m]) : m \in 1..k}) \cup ToSet(seqs[k + 1])
      BY <2>5
    <2> QED
      BY <2>2, <2>4, <2>6
  <1>6. n \in T
    <2> HIDE DEF T
    <2>1. Nat \subseteq T
      BY <1>4, <1>5, InductionOnNat
    <2> QED
      BY <1>1, <2>1
  <1>7. h[n] \in Seq(A) /\ n \in 0..n
    BY <1>1, <1>3
  <1> QED
    BY <1>3, <1>6, <1>7 DEF n

(***************************************************************************)
(* What the recursions over a delta return.                                *)
(***************************************************************************)
\* Powers of two, by recursion over the exponent.
LEMMA PowerIs ==
    /\ WordBits \in Nat /\ Power \in [0..WordBits -> Nat \ {0}]
    /\ Power[0] = 1 /\ \A k \in 1..WordBits : Power[k] = 2 * Power[k - 1]
  <1> DEFINE W == WordBits
             A == Nat \ {0}
             Body(f, k) == IF k = 0 THEN 1 ELSE 2 * f[k - 1]
             op == [e \in (0..W) \X A |-> 2 * e[2]]
  <1>1. W \in Nat /\ 1 \in A /\ op \in [(0..W) \X A -> A] /\ \A k \in 0..W : \A m \in A : op[<<k, m>>] = 2 * m
    BY WordAssumption
  <1>2. Power = CHOOSE f : f = [k \in 0..W |-> Body(f, k)]
    BY DEF Power
  <1> HIDE DEF op, A, W
  <1>3. PICK h \in [0..W -> A] : h[0] = 1 /\ \A k \in 1..W : h[k] = op[<<k, h[k - 1]>>]
    <2>1. \E h \in [0..W -> A] : Counts(h, W, 1, op)
      BY <1>1, CountingRecursion
    <2> QED
      BY <2>1 DEF Counts
  <1>4. \A k \in 1..W : h[k] = 2 * h[k - 1]
    <2> SUFFICES ASSUME NEW k \in 1..W PROVE h[k] = 2 * h[k - 1]
      OBVIOUS
    <2>1. k \in 0..W /\ k - 1 \in 0..W
      BY <1>1
    <2>2. h[k - 1] \in A
      BY <2>1
    <2> QED
      BY <1>1, <1>3, <2>1, <2>2
  <1>5. h = [k \in 0..W |-> Body(h, k)]
    BY <1>1, <1>3, <1>4
  <1>6. Power = [k \in 0..W |-> Body(Power, k)]
    <2> HIDE DEF Body
    <2>1. \E f : f = [k \in 0..W |-> Body(f, k)]
      BY <1>5
    <2> QED
      BY <1>2, <2>1, Zenon
  <1>7. \A k \in 0..W : Power[k] = h[k]
    <2> DEFINE T == {k \in Nat : k \in 0..W => Power[k] = h[k]}
    <2>1. 0 \in T
      BY <1>1, <1>3, <1>6
    <2>2. ASSUME NEW k \in Nat, k \in T PROVE k + 1 \in T
      BY <1>1, <1>4, <1>6, <2>2
    <2> HIDE DEF T
    <2>3. Nat \subseteq T
      BY <2>1, <2>2, InductionOnNat
    <2> QED
      BY <2>3 DEF T
  <1>8. Power \in [0..W -> A]
    BY <1>6, <1>7
  <1>9. Power[0] = 1 /\ \A k \in 1..W : Power[k] = 2 * Power[k - 1]
    BY <1>1, <1>6
  <1> QED
    BY <1>1, <1>8, <1>9 DEF W, A

\* What the provers need of the word: it is even and holds a group.
LEMMA WordIs ==
    /\ Word \in Nat \ {0} /\ Word % 2 = 0
    /\ Group \in Nat /\ Group > 1
  <1>1. /\ WordBits \in Nat \ {0} /\ GroupBits \in Nat \ {0} /\ GroupBits <= WordBits
        /\ Word = Power[WordBits] /\ Group = Power[GroupBits]
    BY WordAssumption DEF Word, Group
  <1> DEFINE p == Power[WordBits - 1]
             q == Power[GroupBits - 1]
  <1>2. p \in Nat \ {0} /\ q \in Nat \ {0} /\ Word = 2 * p /\ Group = 2 * q
    BY <1>1, PowerIs
  <1> HIDE DEF p, q
  <1> QED
    BY <1>2

\* The bit k of what '|=' collects.
BitRead(groups, k) ==
    \E i \in 1..Len(groups) : (Shifted(groups[i], i - 1) \div Power[k]) % 2 = 1

\* The number that is read is the sum of the powers of its bits.
LEMMA ReadDeltaSums ==
    ASSUME NEW groups
    PROVE  \E sum \in [0..WordBits -> Nat] :
             /\ ReadDelta(groups) = sum[WordBits] /\ sum[0] = 0
             /\ \A k \in 1..WordBits :
                  sum[k] = sum[k - 1] + (IF BitRead(groups, k - 1) THEN Power[k - 1] ELSE 0)
  <1> DEFINE W == WordBits
             A == Nat
             one(k) == IF BitRead(groups, k) THEN Power[k] ELSE 0
             Body(f, k) == IF k = 0 THEN 0 ELSE f[k - 1] + one(k - 1)
             sum == CHOOSE f : f = [k \in 0..W |-> Body(f, k)]
             op == [e \in (0..W) \X A |-> IF e[1] = 0 THEN 0 ELSE e[2] + one(e[1] - 1)]
  <1>1. ReadDelta(groups) = sum[W]
    BY DEF ReadDelta, BitRead
  <1>2. W \in Nat /\ \A k \in 0..W : one(k) \in Nat
    BY PowerIs
  <1> HIDE DEF one
  <1>3. \A k \in 0..W : \A m \in A : (IF k = 0 THEN 0 ELSE m + one(k - 1)) \in A
    BY <1>2
  <1>4. op \in [(0..W) \X A -> A] /\ 0 \in A
    <2> HIDE DEF A
    <2>1. op \in [(0..W) \X A -> A]
      BY <1>3
    <2> QED
      BY <2>1 DEF A
  <1>5. \A k \in 1..W : \A m \in A : op[<<k, m>>] = m + one(k - 1)
    BY <1>2
  <1> HIDE DEF op, W, A
  <1>6. PICK h \in [0..W -> A] : h[0] = 0 /\ \A k \in 1..W : h[k] = op[<<k, h[k - 1]>>]
    <2>1. \E h \in [0..W -> A] : Counts(h, W, 0, op)
      BY <1>2, <1>4, CountingRecursion
    <2> QED
      BY <2>1 DEF Counts
  <1>7. \A k \in 1..W : h[k - 1] \in A /\ h[k] = h[k - 1] + one(k - 1)
    <2> SUFFICES ASSUME NEW k \in 1..W PROVE h[k - 1] \in A /\ h[k] = h[k - 1] + one(k - 1)
      OBVIOUS
    <2>1. k \in 0..W /\ k - 1 \in 0..W
      BY <1>2
    <2>2. h[k - 1] \in A
      BY <2>1
    <2> QED
      BY <1>5, <1>6, <2>1, <2>2
  <1>8. h = [k \in 0..W |-> Body(h, k)]
    BY <1>2, <1>6, <1>7
  <1>9. sum = [k \in 0..W |-> Body(sum, k)]
    <2> HIDE DEF Body
    <2>1. \E f : f = [k \in 0..W |-> Body(f, k)]
      BY <1>8
    <2> QED
      BY <2>1, Zenon
  <1> HIDE DEF sum
  <1>10. \A k \in 0..W : sum[k] = h[k]
    <2> DEFINE T == {k \in Nat : k \in 0..W => sum[k] = h[k]}
    <2>1. 0 \in T
      BY <1>2, <1>6, <1>9
    <2>2. ASSUME NEW k \in Nat, k \in T PROVE k + 1 \in T
      BY <1>2, <1>7, <1>9, <2>2
    <2> HIDE DEF T
    <2>3. Nat \subseteq T
      BY <2>1, <2>2, InductionOnNat
    <2> QED
      BY <2>3 DEF T
  <1>11. ReadDelta(groups) = h[W]
    BY <1>1, <1>2, <1>10
  <1> QED
    BY <1>6, <1>7, <1>11 DEF W, A, one

\* A delta that is read is a number, whatever the code.
LEMMA ReadDeltaType ==
    ASSUME NEW groups
    PROVE  ReadDelta(groups) \in Nat
  BY ReadDeltaSums, PowerIs

\* A delta is written as one group, or as a group and the delta of the quotient.
LEMMA WriteDeltaRecursion ==
    ASSUME NEW delta \in Nat
    PROVE  \E codes \in [0..delta -> Seq(Nat)] :
             /\ WriteDelta(delta) = codes[delta]
             /\ \A k \in 0..delta :
                  codes[k] = IF k < Group THEN <<k>> ELSE <<k % Group>> \o codes[k \div Group]
  <1> DEFINE n == delta
             A == Seq(Nat)
             leaves == {k \in 0..n : k < Group}
             g == [k \in 0..n |-> <<k>>]
             x == [k \in 0..n |-> IF k < Group THEN 0 ELSE k \div Group]
             op == [e \in (0..n) \X A \X A |-> <<e[1] % Group>> \o e[2]]
             Body(f, k) == IF k < Group THEN <<k>> ELSE <<k % Group>> \o f[k \div Group]
             codes == CHOOSE f : f = [k \in 0..n |-> Body(f, k)]
  <1>1. WriteDelta(delta) = codes[n]
    BY DEF WriteDelta
  <1>2. Group \in Nat /\ Group > 1
    BY WordIs
  <1>3. \A k \in 0..n : k >= Group => k \div Group \in 0..n /\ k \div Group < k
    BY <1>2
  <1>4. \A k \in 0..n : \A a \in A : <<k % Group>> \o a \in A
    <2> SUFFICES ASSUME NEW k \in 0..n, NEW a \in A PROVE <<k % Group>> \o a \in A
      OBVIOUS
    <2>1. k % Group \in Nat
      BY <1>2
    <2>2. <<k % Group>> \in Seq(Nat)
      BY <2>1
    <2> QED
      BY <2>2, ConcatProperties
  <1>5. /\ g \in [0..n -> A] /\ x \in [0..n -> Nat] /\ op \in [(0..n) \X A \X A -> A]
        /\ \A k \in 0..n : k \notin leaves => x[k] < k /\ x[k] < k
    <2>1. g \in [0..n -> A]
      OBVIOUS
    <2>2. x \in [0..n -> Nat]
      BY <1>2, <1>3
    <2>3. op \in [(0..n) \X A \X A -> A]
      <3> HIDE DEF A, n
      <3> QED
        BY <1>4
    <2>4. \A k \in 0..n : k \notin leaves => x[k] < k
      BY <1>2, <1>3
    <2> QED
      BY <2>1, <2>2, <2>3, <2>4
  <1>6. /\ \A k \in leaves : g[k] = <<k>>
        /\ \A k \in 0..n : k >= Group => x[k] = k \div Group
        /\ \A k \in 0..n : \A a \in A : op[<<k, a, a>>] = <<k % Group>> \o a
        /\ \A k \in 0..n : k \in leaves <=> k < Group
    BY <1>2, SMTT(20)
  <1> HIDE DEF g, x, op, leaves, A
  <1>7. PICK h \in [0..n -> A] : SolvesRecursion(h, n, leaves, g, x, x, op)
    BY <1>5, RecursionOnNat
  <1>8. h = [k \in 0..n |-> Body(h, k)]
    <2>1. ASSUME NEW k \in 0..n PROVE h[k] = Body(h, k)
      <3>1. CASE k < Group
        BY <1>6, <1>7, <3>1 DEF SolvesRecursion
      <3>2. CASE ~(k < Group)
        <4>1. k >= Group
          BY <1>2, <3>2
        <4>2. h[k] = op[<<k, h[k \div Group], h[k \div Group]>>]
          BY <1>6, <1>7, <3>2, <4>1 DEF SolvesRecursion
        <4>3. h[k \div Group] \in A
          BY <1>3, <4>1
        <4> QED
          BY <1>6, <3>2, <4>2, <4>3
      <3> QED
        BY <3>1, <3>2
    <2> QED
      BY <1>7, <2>1
  <1>9. codes = [k \in 0..n |-> Body(codes, k)]
    <2> HIDE DEF Body
    <2>1. \E f : f = [k \in 0..n |-> Body(f, k)]
      BY <1>8
    <2> QED
      BY <2>1, Zenon
  <1> HIDE DEF codes
  <1>10. \A k \in 0..n : codes[k] = Body(codes, k)
    BY <1>9
  <1> DEFINE bad == {k \in 0..n : codes[k] \notin A}
  <1>11. bad = {}
    <2> SUFFICES ASSUME bad # {} PROVE FALSE
      OBVIOUS
    <2>1. bad \in SUBSET Nat
      OBVIOUS
    <2>2. PICK m \in bad : \A k \in bad : m <= k
      <3> HIDE DEF bad
      <3> QED
        BY <2>1, LeastNatural
    <2>3. CASE m < Group
      <3>1. codes[m] = <<m>>
        BY <1>10, <2>3
      <3>2. <<m>> \in A
        BY DEF A
      <3> QED
        BY <3>1, <3>2
    <2>4. CASE ~(m < Group)
      <3>1. m \div Group \in 0..n /\ m \div Group < m
        <4>1. m \in 0..n /\ m >= Group
          BY <1>2, <2>4
        <4> QED
          BY <1>3, <4>1
      <3>2. codes[m \div Group] \in A
        BY <2>2, <3>1
      <3>3. codes[m] = <<m % Group>> \o codes[m \div Group]
        BY <1>10, <2>4
      <3> QED
        BY <1>4, <3>2, <3>3
    <2> QED
      BY <2>3, <2>4
  <1>12. codes \in [0..n -> A]
    <2>1. \A k \in 0..n : codes[k] \in A
      BY <1>11
    <2> HIDE DEF Body
    <2> QED
      BY <1>9, <2>1
  <1> QED
    BY <1>1, <1>10, <1>12 DEF A

\* The code of a delta is a sequence of numbers.
LEMMA WriteDeltaType ==
    ASSUME NEW delta \in Nat
    PROVE  WriteDelta(delta) \in Seq(Nat)
  <1>1. delta \in 0..delta
    OBVIOUS
  <1>2. PICK codes \in [0..delta -> Seq(Nat)] : WriteDelta(delta) = codes[delta]
    BY WriteDeltaRecursion
  <1> QED
    BY <1>1, <1>2

(***************************************************************************)
(* Graphs, and what the types say of them.                                 *)
(***************************************************************************)
LatchRecords(a) == [lit : LitsOf(a), next : LitsOf(a), reset : 0..(Word - 1)]
AndRecords(a) == [lhs : LitsOf(a), rhs0 : LitsOf(a), rhs1 : LitsOf(a)]

\* The fields of a graph.
LEMMA GraphParts ==
    ASSUME NEW a, IsGraph(a)
    PROVE  /\ a = [maxvar |-> a.maxvar, inputs |-> a.inputs, latches |-> a.latches,
                   symbols |-> a.symbols, ands |-> a.ands, names |-> a.names]
           /\ a.maxvar \in Nat /\ a.inputs \in Seq(LitsOf(a)) /\ a.latches \in Seq(LatchRecords(a))
           /\ a.symbols \in [ToSet(Kinds) -> Seq(Seq(LitsOf(a)))] /\ a.ands \in Seq(AndRecords(a))
           /\ a.names \in SUBSET Names
  <1> DEFINE L == LitsOf(a)  R == LatchRecords(a)  Q == AndRecords(a)
             X == [ToSet(Kinds) -> Seq(Seq(L))]  I == Seq(L)  J == Seq(R)  K == Seq(Q)
             M == SUBSET Names
  <1>1. a \in [maxvar : Nat, inputs : I, latches : J, symbols : X, ands : K, names : M]
    BY DEF IsGraph, LatchRecords, AndRecords
  <1> HIDE DEF I, J, K, X, M
  <1>2. /\ a.maxvar \in Nat /\ a.inputs \in I /\ a.latches \in J /\ a.symbols \in X
        /\ a.ands \in K /\ a.names \in M
        /\ a = [maxvar |-> a.maxvar, inputs |-> a.inputs, latches |-> a.latches,
                symbols |-> a.symbols, ands |-> a.ands, names |-> a.names]
    BY <1>1
  <1> QED
    BY <1>2 DEF I, J, K, X, M

\* The entries of its arrays.
LEMMA GraphEntries ==
    ASSUME NEW a, IsGraph(a)
    PROVE  /\ Len(a.inputs) \in Nat /\ Len(a.latches) \in Nat /\ Len(a.ands) \in Nat
           /\ \A k \in 1..Len(a.inputs) : a.inputs[k] \in LitsOf(a)
           /\ \A k \in 1..Len(a.latches) : /\ a.latches[k] \in LatchRecords(a)
                /\ a.latches[k].lit \in LitsOf(a) /\ a.latches[k].next \in LitsOf(a) /\ a.latches[k].reset \in 0..(Word - 1)
           /\ \A k \in 1..Len(a.ands) : /\ a.ands[k] \in AndRecords(a)
                /\ a.ands[k].lhs \in LitsOf(a) /\ a.ands[k].rhs0 \in LitsOf(a) /\ a.ands[k].rhs1 \in LitsOf(a)
           /\ \A kind \in ToSet(Kinds) :
                /\ a.symbols[kind] \in Seq(Seq(LitsOf(a))) /\ Len(a.symbols[kind]) \in Nat
                /\ \A k \in 1..Len(a.symbols[kind]) :
                     /\ a.symbols[kind][k] \in Seq(LitsOf(a)) /\ Len(a.symbols[kind][k]) \in Nat
                     /\ \A m \in 1..Len(a.symbols[kind][k]) : a.symbols[kind][k][m] \in LitsOf(a)
  <1> DEFINE L == LitsOf(a)
  <1>1. /\ a.inputs \in Seq(L) /\ a.latches \in Seq(LatchRecords(a)) /\ a.ands \in Seq(AndRecords(a))
        /\ a.symbols \in [ToSet(Kinds) -> Seq(Seq(L))]
    BY GraphParts
  <1>2. \A r \in LatchRecords(a) : r.lit \in L /\ r.next \in L /\ r.reset \in 0..(Word - 1)
    BY DEF LatchRecords
  <1>3. \A r \in AndRecords(a) : r.lhs \in L /\ r.rhs0 \in L /\ r.rhs1 \in L
    BY DEF AndRecords
  <1> HIDE DEF L
  <1>4. \A k \in 1..Len(a.latches) : a.latches[k] \in LatchRecords(a)
    BY <1>1, ElementOfSeq
  <1>5. \A k \in 1..Len(a.ands) : a.ands[k] \in AndRecords(a)
    BY <1>1, ElementOfSeq
  <1>6. \A k \in 1..Len(a.inputs) : a.inputs[k] \in L
    BY <1>1, ElementOfSeq
  <1>7. ASSUME NEW kind \in ToSet(Kinds)
        PROVE  /\ a.symbols[kind] \in Seq(Seq(L)) /\ Len(a.symbols[kind]) \in Nat
               /\ \A k \in 1..Len(a.symbols[kind]) :
                    /\ a.symbols[kind][k] \in Seq(L) /\ Len(a.symbols[kind][k]) \in Nat
                    /\ \A m \in 1..Len(a.symbols[kind][k]) : a.symbols[kind][k][m] \in L
    <2>1. a.symbols[kind] \in Seq(Seq(L))
      BY <1>1
    <2>2. Len(a.symbols[kind]) \in Nat /\ \A k \in 1..Len(a.symbols[kind]) : a.symbols[kind][k] \in Seq(L)
      BY <2>1, LenProperties, ElementOfSeq
    <2>3. ASSUME NEW k \in 1..Len(a.symbols[kind])
          PROVE  /\ Len(a.symbols[kind][k]) \in Nat
                 /\ \A m \in 1..Len(a.symbols[kind][k]) : a.symbols[kind][k][m] \in L
      BY <2>2, LenProperties, ElementOfSeq
    <2> QED
      BY <2>1, <2>2, <2>3
  <1>8. Len(a.inputs) \in Nat /\ Len(a.latches) \in Nat /\ Len(a.ands) \in Nat
    BY <1>1, LenProperties
  <1> QED
    BY <1>2, <1>3, <1>4, <1>5, <1>6, <1>7, <1>8 DEF L

\* A graph is one with a larger maximum, too.
LEMMA GraphGrows ==
    ASSUME NEW a, IsGraph(a), NEW m \in Nat, a.maxvar <= m
    PROVE  IsGraph([a EXCEPT !.maxvar = m])
  <1> DEFINE b == [a EXCEPT !.maxvar = m]
             L == LitsOf(a)  L2 == LitsOf(b)
  <1>1. /\ a = [maxvar |-> a.maxvar, inputs |-> a.inputs, latches |-> a.latches,
                symbols |-> a.symbols, ands |-> a.ands, names |-> a.names]
        /\ a.maxvar \in Nat /\ a.inputs \in Seq(L) /\ a.latches \in Seq(LatchRecords(a))
        /\ a.symbols \in [ToSet(Kinds) -> Seq(Seq(L))] /\ a.ands \in Seq(AndRecords(a))
        /\ a.names \in SUBSET Names
    BY GraphParts
  <1>2. b = [maxvar |-> m, inputs |-> a.inputs, latches |-> a.latches,
             symbols |-> a.symbols, ands |-> a.ands, names |-> a.names]
    <2>1. a = [maxvar |-> a.maxvar, inputs |-> a.inputs, latches |-> a.latches,
               symbols |-> a.symbols, ands |-> a.ands, names |-> a.names]
      BY <1>1
    <2>2. \A p, i, l, x, g, n : [[maxvar |-> p, inputs |-> i, latches |-> l, symbols |-> x, ands |-> g,
                                  names |-> n] EXCEPT !.maxvar = m]
                               = [maxvar |-> m, inputs |-> i, latches |-> l, symbols |-> x, ands |-> g,
                                  names |-> n]
      OBVIOUS
    <2> QED
      BY <2>1, <2>2
  <1>3. b.maxvar = m
    BY <1>2
  <1>4. L \subseteq L2
    BY <1>1, <1>3 DEF LitsOf
  <1>5. LatchRecords(a) \subseteq LatchRecords(b) /\ AndRecords(a) \subseteq AndRecords(b)
    BY <1>4 DEF LatchRecords, AndRecords
  <1> HIDE DEF L, L2
  <1>6. /\ a.inputs \in Seq(L2) /\ a.latches \in Seq(LatchRecords(b)) /\ a.ands \in Seq(AndRecords(b))
    <2>1. a.inputs \in Seq(L2)
      BY <1>1, <1>4, SeqMonotonic
    <2>2. a.latches \in Seq(LatchRecords(b))
      BY <1>1, <1>5, SeqMonotonic
    <2>3. a.ands \in Seq(AndRecords(b))
      <3>1. a.ands \in Seq(AndRecords(a)) /\ AndRecords(a) \subseteq AndRecords(b)
        BY <1>1, <1>5
      <3> QED
        BY <3>1, SeqMonotonic
    <2> QED
      BY <2>1, <2>2, <2>3
  <1>7. Seq(L) \subseteq Seq(L2)
    BY <1>4, SeqMonotonic
  <1>8. Seq(Seq(L)) \subseteq Seq(Seq(L2))
    BY <1>7, SeqMonotonic
  <1>9. a.symbols \in [ToSet(Kinds) -> Seq(Seq(L2))]
    BY <1>1, <1>8
  <1> DEFINE I == Seq(L2)  J == Seq(LatchRecords(b))  X == [ToSet(Kinds) -> Seq(Seq(L2))]
             K == Seq(AndRecords(b)) M == SUBSET Names
  <1>10. b \in [maxvar : Nat, inputs : I, latches : J, symbols : X, ands : K, names : M]
    <2>1. /\ a.inputs \in I /\ a.latches \in J /\ a.ands \in K /\ a.symbols \in X /\ a.names \in M
      BY <1>1, <1>6, <1>9
    <2> HIDE DEF I, J, K, X, M
    <2> QED
      BY <1>2, <2>1
  <1> QED
    BY <1>10 DEF IsGraph, L2, LatchRecords, AndRecords

\* One field of a graph is replaced.
LEMMA GraphWith ==
    ASSUME NEW a, IsGraph(a)
    PROVE  /\ \A s \in Seq(LitsOf(a)) : IsGraph([a EXCEPT !.inputs = s])
           /\ \A s \in Seq(LatchRecords(a)) : IsGraph([a EXCEPT !.latches = s])
           /\ \A s \in Seq(AndRecords(a)) : IsGraph([a EXCEPT !.ands = s])
           /\ \A s \in [ToSet(Kinds) -> Seq(Seq(LitsOf(a)))] : IsGraph([a EXCEPT !.symbols = s])
           /\ \A s \in SUBSET Names : IsGraph([a EXCEPT !.names = s])
  <1> DEFINE L == 0..(2 * a.maxvar + 1)
             J == Seq([lit : L, next : L, reset : 0..(Word - 1)])  K == Seq([lhs : L, rhs0 : L, rhs1 : L])
             X == [ToSet(Kinds) -> Seq(Seq(L))]  I == Seq(L)  M == SUBSET Names
             Graphs == [maxvar : Nat, inputs : I, latches : J, symbols : X, ands : K, names : M]
  <1>1. a \in Graphs
    BY DEF IsGraph, LitsOf
  <1>2. ASSUME NEW b, b \in Graphs, b.maxvar = a.maxvar PROVE IsGraph(b)
    BY <1>2 DEF IsGraph, LitsOf
  <1>3. /\ I = Seq(LitsOf(a)) /\ J = Seq(LatchRecords(a)) /\ K = Seq(AndRecords(a))
        /\ X = [ToSet(Kinds) -> Seq(Seq(LitsOf(a)))]
    BY DEF LitsOf, LatchRecords, AndRecords
  <1> HIDE DEF I, J, K, X, M
  <1>4. \A s \in I : [a EXCEPT !.inputs = s] \in Graphs /\ [a EXCEPT !.inputs = s].maxvar = a.maxvar
    BY <1>1
  <1>5. \A s \in J : [a EXCEPT !.latches = s] \in Graphs /\ [a EXCEPT !.latches = s].maxvar = a.maxvar
    BY <1>1
  <1>6. \A s \in K : [a EXCEPT !.ands = s] \in Graphs /\ [a EXCEPT !.ands = s].maxvar = a.maxvar
    BY <1>1
  <1>7. \A s \in X : [a EXCEPT !.symbols = s] \in Graphs /\ [a EXCEPT !.symbols = s].maxvar = a.maxvar
    BY <1>1
  <1>8. \A s \in M : [a EXCEPT !.names = s] \in Graphs /\ [a EXCEPT !.names = s].maxvar = a.maxvar
    BY <1>1
  <1>9. M = SUBSET Names
    BY DEF M
  <1> HIDE DEF Graphs
  <1> QED
    BY <1>2, <1>3, <1>4, <1>5, <1>6, <1>7, <1>8, <1>9

\* aiger_import_literal raises the maximum to that of the literals, if at all.
LEMMA Imported ==
    ASSUME NEW a, IsGraph(a), NEW b \in Nat, NEW lits \in SUBSET (0..b)
    PROVE  LET m == Import(a, lits).maxvar IN
           /\ m \in Nat /\ a.maxvar <= m /\ \A lit \in lits : Var(lit) <= m
           /\ m = a.maxvar \/ \E lit \in lits : m = Var(lit) /\ m > a.maxvar
           /\ Import(a, lits) = [a EXCEPT !.maxvar = m]
           /\ (\A lit \in lits : Var(lit) <= a.maxvar) => Import(a, lits) = a
  <1> DEFINE vars == {a.maxvar} \cup {Var(lit) : lit \in lits}
  <1>1. /\ a.maxvar \in Nat
        /\ a = [maxvar |-> a.maxvar, inputs |-> a.inputs, latches |-> a.latches,
                symbols |-> a.symbols, ands |-> a.ands, names |-> a.names]
    BY GraphParts
  <1>2. \A lit \in lits : Var(lit) \in Nat /\ Var(lit) <= b
    BY DEF Var
  <1>3. vars \in SUBSET Nat /\ vars # {} /\ IsFiniteSet(vars)
    <2>1. {Var(lit) : lit \in lits} \in SUBSET Nat /\ \A v \in {Var(lit) : lit \in lits} : v <= b
      BY <1>2
    <2>2. IsFiniteSet({Var(lit) : lit \in lits})
      BY <2>1, FS_BoundedSetOfNaturals
    <2>3. IsFiniteSet({a.maxvar})
      BY FS_Singleton
    <2> QED
      BY <1>1, <2>1, <2>2, <2>3, FS_Union
  <1>4. Max(vars) \in vars /\ \A k \in vars : k <= Max(vars)
    <2> HIDE DEF vars
    <2> QED
      BY <1>3, MaxOf
  <1>5. Import(a, lits) = [a EXCEPT !.maxvar = Max(vars)]
    BY DEF Import
  <1> DEFINE m == Max(vars)
  <1>6. /\ m \in Nat /\ a.maxvar <= m /\ \A lit \in lits : Var(lit) <= m
        /\ m = a.maxvar \/ \E lit \in lits : m = Var(lit)
    BY <1>3, <1>4
  <1> HIDE DEF m
  <1>7. [a EXCEPT !.maxvar = m].maxvar = m
    BY <1>1
  <1>8. (\A lit \in lits : Var(lit) <= a.maxvar) => m = a.maxvar
    BY <1>1, <1>2, <1>6
  <1>9. m = a.maxvar \/ \E lit \in lits : m = Var(lit) /\ m > a.maxvar
    BY <1>1, <1>6
  <1>10. [a EXCEPT !.maxvar = a.maxvar] = a
    BY <1>1
  <1>11. Import(a, lits) = [a EXCEPT !.maxvar = m]
    BY <1>5 DEF m
  <1> QED
    BY <1>6, <1>7, <1>8, <1>9, <1>10, <1>11

(***************************************************************************)
(* What types says of a graph, and how it follows the entries.             *)
(***************************************************************************)
GraphOK(a) == IsGraph(a) /\ IsFiniteSet(a.names) /\ 2 * a.maxvar + 1 < Word

\* The entries that define variables, and what types t says of them.
Whats == {"input", "latch", "and"}
Count(a, what) == IF what = "input" THEN Len(a.inputs)
                  ELSE IF what = "latch" THEN Len(a.latches) ELSE Len(a.ands)
Defined(a, what, k) == IF what = "input" THEN a.inputs[k]
                       ELSE IF what = "latch" THEN a.latches[k].lit ELSE a.ands[k].lhs
Placed(a, t, what, k) ==
    LET lit == Defined(a, what, k)  v == Var(lit) IN
    lit = 2 * v /\ v \in 1..a.maxvar /\ t[v].is = what /\ t[v].idx = k
Leads(a, t, v) ==
    t[v].is \in Whats => /\ t[v].idx \in 1..Count(a, t[v].is)
                         /\ Defined(a, t[v].is, t[v].idx) = 2 * v
Corresponds(a, t) ==
    /\ t \in [0..a.maxvar -> Types]
    /\ \A what \in Whats : \A k \in 1..Count(a, what) : Placed(a, t, what, k)
    /\ \A v \in 0..a.maxvar : Leads(a, t, v)
NoMarks(a, t) == \A v \in 0..a.maxvar : ~t[v].mark /\ ~t[v].onstack

\* Graph b is graph a with one entry more, and types u say so.
Extends(a, b, t, u, what, v) ==
    /\ what \in Whats /\ v \in 1..a.maxvar /\ a.maxvar \in Nat /\ b.maxvar = a.maxvar
    /\ \A w \in Whats : Count(a, w) \in Nat
    /\ Count(b, what) = Count(a, what) + 1 /\ Defined(b, what, Count(a, what) + 1) = 2 * v
    /\ \A w \in Whats : w # what => Count(b, w) = Count(a, w)
    /\ \A w \in Whats : \A k \in 1..Count(a, w) : Defined(b, w, k) = Defined(a, w, k)
    /\ t[v].is = "none"
    /\ u = [t EXCEPT ![v].is = what, ![v].idx = Count(a, what) + 1]

\* An entry that defines a variable without a type is added.
LEMMA NewEntry ==
    ASSUME NEW a, NEW b, NEW t, NEW u, NEW what, NEW v,
           Corresponds(a, t), Extends(a, b, t, u, what, v)
    PROVE  /\ Corresponds(b, u)
           /\ \A x \in 0..a.maxvar : u[x].mark = t[x].mark /\ u[x].onstack = t[x].onstack
  <1>0. /\ what \in Whats /\ v \in 1..a.maxvar /\ a.maxvar \in Nat /\ b.maxvar = a.maxvar
        /\ \A w \in Whats : Count(a, w) \in Nat
        /\ Count(b, what) = Count(a, what) + 1 /\ Defined(b, what, Count(a, what) + 1) = 2 * v
        /\ \A w \in Whats : w # what => Count(b, w) = Count(a, w)
        /\ \A w \in Whats : \A k \in 1..Count(a, w) : Defined(b, w, k) = Defined(a, w, k)
        /\ t[v].is = "none"
        /\ u = [t EXCEPT ![v].is = what, ![v].idx = Count(a, what) + 1]
    BY DEF Extends
  <1> USE <1>0
  <1> DEFINE n == Count(a, what) + 1
             m == a.maxvar
  <1>1. t \in [0..m -> Types] /\ v \in 0..m /\ n \in Nat /\ m \in Nat /\ v \in Nat
    BY DEF Corresponds
  <1>2. t[v] \in Types
    BY <1>1
  <1>3. /\ \A x \in 0..m : x # v => u[x] = t[x]
        /\ u[v] = [is |-> what, idx |-> n, mark |-> t[v].mark, onstack |-> t[v].onstack]
    <2> HIDE DEF n, m
    <2>1. u = [t EXCEPT ![v].is = what, ![v].idx = n] /\ t \in [0..m -> Types] /\ v \in 0..m
      BY <1>1 DEF n
    <2>2. t[v] \in [is : {"none", "input", "latch", "and"}, idx : Nat, mark : BOOLEAN, onstack : BOOLEAN]
      BY <1>2 DEF Types
    <2> QED
      BY <2>1, <2>2
  <1>4. u[v] \in Types /\ u[v].is = what /\ u[v].idx = n /\ u[v].mark = t[v].mark /\ u[v].onstack = t[v].onstack
    <2>1. what \in {"none", "input", "latch", "and"} /\ n \in Nat
          /\ t[v].mark \in BOOLEAN /\ t[v].onstack \in BOOLEAN
      BY <1>1, <1>2 DEF Types, Whats
    <2>2. u[v].is = what /\ u[v].idx = n /\ u[v].mark = t[v].mark /\ u[v].onstack = t[v].onstack
      BY <1>3
    <2>3. \A p \in {"none", "input", "latch", "and"} : \A i \in Nat : \A x \in BOOLEAN : \A y \in BOOLEAN :
            [is |-> p, idx |-> i, mark |-> x, onstack |-> y] \in Types
      BY DEF Types
    <2>4. [is |-> what, idx |-> n, mark |-> t[v].mark, onstack |-> t[v].onstack] \in Types
      BY <2>1, <2>3
    <2> QED
      BY <1>3, <2>2, <2>4
  <1>5. u \in [0..m -> Types]
    <2>1. DOMAIN u = 0..m /\ u = [x \in DOMAIN u |-> u[x]]
      BY <1>1
    <2>2. \A x \in 0..m : u[x] \in Types
      BY <1>1, <1>3, <1>4
    <2> QED
      BY <2>1, <2>2
  <1> HIDE DEF n
  <1>6. ASSUME NEW w \in Whats, NEW k \in 1..Count(b, w)
        PROVE  Placed(b, u, w, k)
    <2>1. CASE w = what /\ k = n
      <3>1. Defined(b, w, k) = 2 * v /\ Var(2 * v) = v
        BY <1>1, <2>1, Doubled DEF n
      <3> QED
        BY <1>4, <2>1, <3>1 DEF Placed
    <2>2. CASE ~(w = what /\ k = n)
      <3>1. k \in 1..Count(a, w)
        <4>1. CASE w = what
          BY <1>1, <2>2, <4>1 DEF n
        <4>2. CASE w # what
          BY <4>2
        <4> QED
          BY <4>1, <4>2
      <3>2. Placed(a, t, w, k) /\ Defined(b, w, k) = Defined(a, w, k)
        BY <3>1 DEF Corresponds
      <3>3. Var(Defined(a, w, k)) # v
        <4>1. t[Var(Defined(a, w, k))].is # "none"
          BY <3>2 DEF Placed, Whats
        <4> QED
          BY <4>1
      <3> QED
        BY <1>1, <1>3, <3>2, <3>3 DEF Placed
    <2> QED
      BY <2>1, <2>2
  <1>7. ASSUME NEW x \in 0..m, u[x].is \in Whats
        PROVE  u[x].idx \in 1..Count(b, u[x].is) /\ Defined(b, u[x].is, u[x].idx) = 2 * x
    <2>1. CASE x = v
      <3>1. n \in 1..Count(b, what)
        BY <1>1 DEF n
      <3> QED
        BY <1>4, <2>1, <3>1 DEF n
    <2>2. CASE x # v
      <3>1. u[x] = t[x]
        BY <1>3, <2>2
      <3>2. t[x].idx \in 1..Count(a, t[x].is) /\ Defined(a, t[x].is, t[x].idx) = 2 * x
        BY <1>7, <3>1 DEF Corresponds, Leads
      <3>3. t[x].idx \in 1..Count(b, t[x].is)
        <4>1. Count(a, t[x].is) \in Nat /\ Count(b, t[x].is) >= Count(a, t[x].is)
              /\ Count(b, t[x].is) \in Nat
          <5>1. t[x].is \in Whats
            BY <1>7, <3>1
          <5>2. CASE t[x].is = what
            BY <5>1, <5>2
          <5>3. CASE t[x].is # what
            BY <5>1, <5>3
          <5> QED
            BY <5>2, <5>3
        <4> QED
          BY <3>2, <4>1
      <3> QED
        BY <1>7, <3>1, <3>2, <3>3
    <2> QED
      BY <2>1, <2>2
  <1>8. \A x \in 0..m : u[x].mark = t[x].mark /\ u[x].onstack = t[x].onstack
    BY <1>3, <1>4
  <1> QED
    BY <1>5, <1>6, <1>7, <1>8 DEF Corresponds, Leads

\* More variables that nothing defines.
LEMMA MoreVariables ==
    ASSUME NEW a, NEW b, NEW t, NEW u, a.maxvar \in Nat, b.maxvar \in Nat, a.maxvar <= b.maxvar,
           Corresponds(a, t),
           \A w \in Whats : Count(b, w) = Count(a, w),
           \A w \in Whats : \A k \in 1..Count(a, w) : Defined(b, w, k) = Defined(a, w, k),
           u = [v \in 0..b.maxvar |-> IF v \in 0..a.maxvar THEN t[v] ELSE Untyped]
    PROVE  Corresponds(b, u) /\ (NoMarks(a, t) => NoMarks(b, u))
  <1>1. t \in [0..a.maxvar -> Types] /\ Untyped \in Types /\ Untyped.is = "none" /\ ~Untyped.mark /\ ~Untyped.onstack
    BY DEF Corresponds, Types, Untyped
  <1>2. \A v \in 0..b.maxvar : u[v] = IF v \in 0..a.maxvar THEN t[v] ELSE Untyped
    OBVIOUS
  <1>3. u \in [0..b.maxvar -> Types]
    BY <1>1
  <1>4. ASSUME NEW w \in Whats, NEW k \in 1..Count(b, w)
        PROVE  Placed(b, u, w, k)
    <2>1. Placed(a, t, w, k) /\ Defined(b, w, k) = Defined(a, w, k)
      BY DEF Corresponds
    <2>2. \A v \in 1..a.maxvar : v \in 0..b.maxvar /\ v \in 0..a.maxvar /\ v \in 1..b.maxvar
      OBVIOUS
    <2> QED
      BY <1>2, <2>1, <2>2 DEF Placed
  <1>5. ASSUME NEW v \in 0..b.maxvar PROVE Leads(b, u, v)
    <2>1. CASE v \in 0..a.maxvar
      <3>1. u[v] = t[v] /\ Leads(a, t, v)
        BY <1>2, <2>1 DEF Corresponds
      <3> QED
        BY <3>1 DEF Leads
    <2>2. CASE v \notin 0..a.maxvar
      BY <1>1, <1>2, <2>2 DEF Leads, Whats
    <2> QED
      BY <2>1, <2>2
  <1>6. NoMarks(a, t) => NoMarks(b, u)
    BY <1>1, <1>2 DEF NoMarks
  <1> QED
    BY <1>3, <1>4, <1>5, <1>6 DEF Corresponds

\* Literals within the maximum change neither the maximum nor types.
LEMMA NothingNew ==
    ASSUME IsGraph(aig), DOMAIN types = 0..aig.maxvar, types = [v \in DOMAIN types |-> types[v]],
           NEW lits \in SUBSET LitsOf(aig)
    PROVE  Import(aig, lits) = aig /\ Enlarged(lits) = types
  <1>1. aig.maxvar \in Nat
    BY GraphParts
  <1>2. 2 * aig.maxvar + 1 \in Nat /\ lits \in SUBSET (0..(2 * aig.maxvar + 1))
    BY <1>1 DEF LitsOf
  <1>3. \A lit \in lits : Var(lit) <= aig.maxvar
    <2> SUFFICES ASSUME NEW lit \in lits PROVE Var(lit) <= aig.maxvar
      OBVIOUS
    <2>1. lit \in Nat /\ lit \in 0..(2 * aig.maxvar + 1)
      BY <1>2
    <2> QED
      BY <1>1, <2>1, Literals
  <1>4. Import(aig, lits) = aig
    BY <1>2, <1>3, Imported
  <1>5. DOMAIN types \cup 0..Import(aig, lits).maxvar = DOMAIN types
    BY <1>4
  <1> QED
    BY <1>4, <1>5 DEF Enlarged

\* aiger_add_input keeps the graph and its types in step.
LEMMA AddInputKeeps ==
    ASSUME GraphOK(aig), Corresponds(aig, types), NoMarks(aig, types),
           NEW v \in 1..aig.maxvar, types[v].is = "none", AddInput(2 * v)
    PROVE  /\ GraphOK(aig') /\ Corresponds(aig', types') /\ NoMarks(aig', types')
           /\ aig' = [aig EXCEPT !.inputs = Append(aig.inputs, 2 * v)]
           /\ aig'.maxvar = aig.maxvar /\ aig'.latches = aig.latches /\ aig'.ands = aig.ands
           /\ aig'.symbols = aig.symbols /\ aig'.names = aig.names
           /\ Len(aig'.inputs) = Len(aig.inputs) + 1
           /\ aig'.inputs[Len(aig.inputs) + 1] = 2 * v
           /\ \A k \in 1..Len(aig.inputs) : aig'.inputs[k] = aig.inputs[k]
  <1>1. /\ IsGraph(aig) /\ aig.maxvar \in Nat /\ v \in Nat /\ aig.inputs \in Seq(LitsOf(aig))
        /\ aig = [maxvar |-> aig.maxvar, inputs |-> aig.inputs, latches |-> aig.latches,
                  symbols |-> aig.symbols, ands |-> aig.ands, names |-> aig.names]
    BY GraphParts DEF GraphOK
  <1>2. 2 * v \in LitsOf(aig)
    BY <1>1 DEF LitsOf
  <1>3. DOMAIN types = 0..aig.maxvar /\ types = [x \in DOMAIN types |-> types[x]]
    BY DEF Corresponds
  <1>4. Import(aig, {2 * v}) = aig /\ Enlarged({2 * v} \cup {}) = types
    <2>1. {2 * v} \in SUBSET LitsOf(aig) /\ {2 * v} \cup {} = {2 * v}
      BY <1>2
    <2> QED
      BY <1>1, <1>3, <2>1, NothingNew
  <1>5. aig' = [aig EXCEPT !.inputs = Append(aig.inputs, 2 * v)]
    BY <1>4 DEF AddInput
  <1>6. types' = [types EXCEPT ![v].is = "input", ![v].idx = Len(aig.inputs) + 1]
    BY <1>1, <1>4, Doubled DEF AddInput, Define
  <1>7. /\ Append(aig.inputs, 2 * v) \in Seq(LitsOf(aig))
        /\ Len(Append(aig.inputs, 2 * v)) = Len(aig.inputs) + 1
        /\ \A k \in 1..Len(aig.inputs) : Append(aig.inputs, 2 * v)[k] = aig.inputs[k]
        /\ Append(aig.inputs, 2 * v)[Len(aig.inputs) + 1] = 2 * v
    BY <1>1, <1>2, AppendProperties
  <1>8. /\ aig'.maxvar = aig.maxvar /\ aig'.latches = aig.latches /\ aig'.ands = aig.ands
        /\ aig'.symbols = aig.symbols /\ aig'.names = aig.names
        /\ aig'.inputs = Append(aig.inputs, 2 * v)
    BY <1>1, <1>5
  <1>9. IsGraph(aig')
    BY <1>1, <1>5, <1>7, GraphWith
  <1>10. GraphOK(aig')
    BY <1>8, <1>9 DEF GraphOK
  <1>11. Corresponds(aig', types') /\ NoMarks(aig', types')
    <2>1. \A w \in Whats : Count(aig, w) \in Nat
      BY <1>1, GraphEntries DEF Count
    <2>2. /\ "input" \in Whats
          /\ Count(aig', "input") = Count(aig, "input") + 1
          /\ Defined(aig', "input", Count(aig, "input") + 1) = 2 * v
          /\ \A w \in Whats : w # "input" => Count(aig', w) = Count(aig, w)
          /\ Count(aig, "input") = Len(aig.inputs)
      BY <1>7, <1>8 DEF Count, Defined, Whats
    <2>3. \A w \in Whats : \A k \in 1..Count(aig, w) : Defined(aig', w, k) = Defined(aig, w, k)
      BY <1>7, <1>8 DEF Count, Defined
    <2>4. /\ Corresponds(aig', types')
          /\ \A x \in 0..aig.maxvar : types'[x].mark = types[x].mark /\ types'[x].onstack = types[x].onstack
      <3>1. types' = [types EXCEPT ![v].is = "input", ![v].idx = Count(aig, "input") + 1]
        BY <1>6, <2>2
      <3>2. aig.maxvar \in Nat /\ aig'.maxvar = aig.maxvar
        BY <1>1, <1>8, <1>9
      <3> QED
        <4>1. Extends(aig, aig', types, types', "input", v)
          BY <2>1, <2>2, <2>3, <3>1, <3>2 DEF Extends
        <4> QED
          BY <4>1, NewEntry
    <2> QED
      BY <1>8, <2>4 DEF NoMarks
  <1> QED
    BY <1>5, <1>7, <1>8, <1>10, <1>11

\* So do aiger_add_latch and aiger_add_reset.
LEMMA AddLatchKeeps ==
    ASSUME GraphOK(aig), Corresponds(aig, types), NoMarks(aig, types),
           NEW v \in 1..aig.maxvar, types[v].is = "none",
           NEW next \in LitsOf(aig), NEW reset \in 0..(Word - 1), AddLatch(2 * v, next, reset)
    PROVE  /\ GraphOK(aig') /\ Corresponds(aig', types') /\ NoMarks(aig', types')
           /\ aig'.maxvar = aig.maxvar /\ aig'.inputs = aig.inputs /\ aig'.ands = aig.ands
           /\ aig'.symbols = aig.symbols /\ aig'.names = aig.names
           /\ Len(aig'.latches) = Len(aig.latches) + 1
           /\ aig'.latches[Len(aig.latches) + 1] = [lit |-> 2 * v, next |-> next, reset |-> reset]
           /\ \A k \in 1..Len(aig.latches) : aig'.latches[k] = aig.latches[k]
  <1> DEFINE r == [lit |-> 2 * v, next |-> next, reset |-> reset]
  <1>1. /\ IsGraph(aig) /\ aig.maxvar \in Nat /\ v \in Nat /\ aig.latches \in Seq(LatchRecords(aig))
        /\ aig = [maxvar |-> aig.maxvar, inputs |-> aig.inputs, latches |-> aig.latches,
                  symbols |-> aig.symbols, ands |-> aig.ands, names |-> aig.names]
        /\ Len(aig.latches) \in Nat
    BY GraphParts, GraphEntries DEF GraphOK
  <1>2. 2 * v \in LitsOf(aig)
    BY <1>1 DEF LitsOf
  <1>3. DOMAIN types = 0..aig.maxvar /\ types = [x \in DOMAIN types |-> types[x]]
    BY DEF Corresponds
  <1>4. Import(aig, {2 * v, next}) = aig /\ Enlarged({2 * v} \cup {next}) = types
    <2>1. {2 * v, next} \in SUBSET LitsOf(aig) /\ {2 * v} \cup {next} = {2 * v, next}
      BY <1>2
    <2> QED
      BY <1>1, <1>3, <2>1, NothingNew
  <1>5. aig' = [aig EXCEPT !.latches = Append(aig.latches, r)]
    BY <1>4 DEF AddLatch
  <1>6. types' = [types EXCEPT ![v].is = "latch", ![v].idx = Len(aig.latches) + 1]
    BY <1>1, <1>4, Doubled DEF AddLatch, Define
  <1>7. r \in LatchRecords(aig) /\ r.lit = 2 * v /\ r.reset = reset
    BY <1>2 DEF LatchRecords
  <1> HIDE DEF r
  <1>8. /\ Append(aig.latches, r) \in Seq(LatchRecords(aig))
        /\ Len(Append(aig.latches, r)) = Len(aig.latches) + 1
        /\ \A k \in 1..Len(aig.latches) : Append(aig.latches, r)[k] = aig.latches[k]
        /\ Append(aig.latches, r)[Len(aig.latches) + 1] = r
    BY <1>1, <1>7, AppendProperties
  <1>9. /\ aig'.maxvar = aig.maxvar /\ aig'.inputs = aig.inputs /\ aig'.ands = aig.ands
        /\ aig'.symbols = aig.symbols /\ aig'.names = aig.names
        /\ aig'.latches = Append(aig.latches, r)
    BY <1>1, <1>5
  <1>10. IsGraph(aig')
    BY <1>1, <1>5, <1>8, GraphWith
  <1>12. GraphOK(aig')
    BY <1>9, <1>10 DEF GraphOK
  <1>13. Corresponds(aig', types') /\ NoMarks(aig', types')
    <2>1. \A w \in Whats : Count(aig, w) \in Nat
      BY <1>1, GraphEntries DEF Count
    <2>2. /\ "latch" \in Whats
          /\ Count(aig', "latch") = Count(aig, "latch") + 1
          /\ Defined(aig', "latch", Count(aig, "latch") + 1) = 2 * v
          /\ \A w \in Whats : w # "latch" => Count(aig', w) = Count(aig, w)
          /\ Count(aig, "latch") = Len(aig.latches)
      BY <1>7, <1>8, <1>9 DEF Count, Defined, Whats
    <2>3. \A w \in Whats : \A k \in 1..Count(aig, w) : Defined(aig', w, k) = Defined(aig, w, k)
      BY <1>8, <1>9 DEF Count, Defined
    <2>4. /\ Corresponds(aig', types')
          /\ \A x \in 0..aig.maxvar : types'[x].mark = types[x].mark /\ types'[x].onstack = types[x].onstack
      <3>1. types' = [types EXCEPT ![v].is = "latch", ![v].idx = Count(aig, "latch") + 1]
        BY <1>6, <2>2
      <3>2. aig.maxvar \in Nat /\ aig'.maxvar = aig.maxvar
        BY <1>1, <1>8, <1>9
      <3> QED
        <4>1. Extends(aig, aig', types, types', "latch", v)
          BY <2>1, <2>2, <2>3, <3>1, <3>2 DEF Extends
        <4> QED
          BY <4>1, NewEntry
    <2> QED
      BY <1>9, <2>4 DEF NoMarks
  <1> QED
    BY <1>8, <1>9, <1>12, <1>13 DEF r

\* So does aiger_add_and.
LEMMA AddAndKeeps ==
    ASSUME GraphOK(aig), Corresponds(aig, types), NoMarks(aig, types),
           NEW v \in 1..aig.maxvar, types[v].is = "none",
           NEW rhs0 \in LitsOf(aig), NEW rhs1 \in LitsOf(aig), AddAnd(2 * v, rhs0, rhs1)
    PROVE  /\ GraphOK(aig') /\ Corresponds(aig', types') /\ NoMarks(aig', types')
           /\ aig'.maxvar = aig.maxvar /\ aig'.inputs = aig.inputs /\ aig'.latches = aig.latches
           /\ aig'.symbols = aig.symbols /\ aig'.names = aig.names
           /\ Len(aig'.ands) = Len(aig.ands) + 1
           /\ aig'.ands[Len(aig.ands) + 1] = [lhs |-> 2 * v, rhs0 |-> rhs0, rhs1 |-> rhs1]
           /\ \A k \in 1..Len(aig.ands) : aig'.ands[k] = aig.ands[k]
  <1> DEFINE r == [lhs |-> 2 * v, rhs0 |-> rhs0, rhs1 |-> rhs1]
  <1>1. /\ IsGraph(aig) /\ aig.maxvar \in Nat /\ v \in Nat /\ aig.ands \in Seq(AndRecords(aig))
        /\ aig = [maxvar |-> aig.maxvar, inputs |-> aig.inputs, latches |-> aig.latches,
                  symbols |-> aig.symbols, ands |-> aig.ands, names |-> aig.names]
        /\ Len(aig.ands) \in Nat
    BY GraphParts, GraphEntries DEF GraphOK
  <1>2. 2 * v \in LitsOf(aig)
    BY <1>1 DEF LitsOf
  <1>3. DOMAIN types = 0..aig.maxvar /\ types = [x \in DOMAIN types |-> types[x]]
    BY DEF Corresponds
  <1>4. Import(aig, {2 * v, rhs0, rhs1}) = aig /\ Enlarged({2 * v} \cup {rhs0, rhs1}) = types
    <2>1. {2 * v, rhs0, rhs1} \in SUBSET LitsOf(aig) /\ {2 * v} \cup {rhs0, rhs1} = {2 * v, rhs0, rhs1}
      BY <1>2
    <2> QED
      BY <1>1, <1>3, <2>1, NothingNew
  <1>5. aig' = [aig EXCEPT !.ands = Append(aig.ands, r)]
    BY <1>4 DEF AddAnd
  <1>6. types' = [types EXCEPT ![v].is = "and", ![v].idx = Len(aig.ands) + 1]
    BY <1>1, <1>4, Doubled DEF AddAnd, Define
  <1>7. r \in AndRecords(aig) /\ r.lhs = 2 * v
    BY <1>2 DEF AndRecords
  <1> HIDE DEF r
  <1>8. /\ Append(aig.ands, r) \in Seq(AndRecords(aig))
        /\ Len(Append(aig.ands, r)) = Len(aig.ands) + 1
        /\ \A k \in 1..Len(aig.ands) : Append(aig.ands, r)[k] = aig.ands[k]
        /\ Append(aig.ands, r)[Len(aig.ands) + 1] = r
    BY <1>1, <1>7, AppendProperties
  <1>9. /\ aig'.maxvar = aig.maxvar /\ aig'.inputs = aig.inputs /\ aig'.latches = aig.latches
        /\ aig'.symbols = aig.symbols /\ aig'.names = aig.names
        /\ aig'.ands = Append(aig.ands, r)
    BY <1>1, <1>5
  <1>10. IsGraph(aig')
    BY <1>1, <1>5, <1>8, GraphWith
  <1>11. GraphOK(aig')
    BY <1>9, <1>10 DEF GraphOK
  <1>12. Corresponds(aig', types') /\ NoMarks(aig', types')
    <2>1. \A w \in Whats : Count(aig, w) \in Nat
      BY <1>1, GraphEntries DEF Count
    <2>2. /\ "and" \in Whats
          /\ Count(aig', "and") = Count(aig, "and") + 1
          /\ Defined(aig', "and", Count(aig, "and") + 1) = 2 * v
          /\ \A w \in Whats : w # "and" => Count(aig', w) = Count(aig, w)
          /\ Count(aig, "and") = Len(aig.ands)
      BY <1>7, <1>8, <1>9 DEF Count, Defined, Whats
    <2>3. \A w \in Whats : \A k \in 1..Count(aig, w) : Defined(aig', w, k) = Defined(aig, w, k)
      BY <1>8, <1>9 DEF Count, Defined, Whats
    <2>4. /\ Corresponds(aig', types')
          /\ \A x \in 0..aig.maxvar : types'[x].mark = types[x].mark /\ types'[x].onstack = types[x].onstack
      <3>1. types' = [types EXCEPT ![v].is = "and", ![v].idx = Count(aig, "and") + 1]
        BY <1>6, <2>2
      <3>2. aig.maxvar \in Nat /\ aig'.maxvar = aig.maxvar
        BY <1>1, <1>8, <1>9
      <3> QED
        <4>1. Extends(aig, aig', types, types', "and", v)
          BY <2>1, <2>2, <2>3, <3>1, <3>2 DEF Extends
        <4> QED
          BY <4>1, NewEntry
    <2> QED
      BY <1>9, <2>4 DEF NoMarks
  <1> QED
    BY <1>8, <1>9, <1>11, <1>12 DEF r

\* A symbol may raise the maximum, and then it names the new one.
LEMMA AddSymbolKeeps ==
    ASSUME GraphOK(aig), Corresponds(aig, types), NoMarks(aig, types),
           NEW kind \in ToSet(Kinds), NEW lits \in Seq(0..(Word - 1)), AddSymbol(kind, lits)
    PROVE  /\ GraphOK(aig') /\ Corresponds(aig', types') /\ NoMarks(aig', types')
           /\ aig'.inputs = aig.inputs /\ aig'.latches = aig.latches /\ aig'.ands = aig.ands
           /\ aig'.names = aig.names
           /\ aig'.symbols = [aig.symbols EXCEPT ![kind] = Append(aig.symbols[kind], lits)]
           /\ aig.maxvar <= aig'.maxvar
           /\ aig'.maxvar = aig.maxvar \/ /\ aig'.maxvar > aig.maxvar
                                          /\ \E k \in 1..Len(lits) : aig'.maxvar = Var(lits[k])
  <1> DEFINE m == Import(aig, ToSet(lits)).maxvar
             b == [aig EXCEPT !.maxvar = m]
  <1>1. /\ IsGraph(aig) /\ aig.maxvar \in Nat /\ aig.symbols \in [ToSet(Kinds) -> Seq(Seq(LitsOf(aig)))]
        /\ aig = [maxvar |-> aig.maxvar, inputs |-> aig.inputs, latches |-> aig.latches,
                  symbols |-> aig.symbols, ands |-> aig.ands, names |-> aig.names]
    BY GraphParts DEF GraphOK
  <1>2. Word \in Nat \ {0} /\ Word % 2 = 0
    BY WordIs
  <1>3. ToSet(lits) \in SUBSET (0..(Word - 1)) /\ ToSet(lits) = {lits[k] : k \in 1..Len(lits)}
    <2> DEFINE B == 0..(Word - 1)
    <2>1. lits \in Seq(B)
      OBVIOUS
    <2> HIDE DEF B
    <2>2. ToSet(lits) \in SUBSET B /\ ToSet(lits) = {lits[k] : k \in 1..Len(lits)}
      BY <2>1, SetOfSeq
    <2> QED
      BY <2>2 DEF B
  <1>4. /\ m \in Nat /\ aig.maxvar <= m /\ \A lit \in ToSet(lits) : Var(lit) <= m
        /\ m = aig.maxvar \/ \E lit \in ToSet(lits) : m = Var(lit) /\ m > aig.maxvar
        /\ Import(aig, ToSet(lits)) = b
    <2>1. Word - 1 \in Nat
      BY <1>2
    <2> QED
      BY <1>1, <1>3, <2>1, Imported, ZenonT(30)
  <1> HIDE DEF m
  <1>5. IsGraph(b)
    BY <1>1, <1>4, GraphGrows
  <1>6. b = [maxvar |-> m, inputs |-> aig.inputs, latches |-> aig.latches,
             symbols |-> aig.symbols, ands |-> aig.ands, names |-> aig.names]
    <2>1. \A p, i, l, x, g, n : [[maxvar |-> p, inputs |-> i, latches |-> l, symbols |-> x, ands |-> g,
                                  names |-> n] EXCEPT !.maxvar = m]
                               = [maxvar |-> m, inputs |-> i, latches |-> l, symbols |-> x, ands |-> g,
                                  names |-> n]
      OBVIOUS
    <2>2. aig = [maxvar |-> aig.maxvar, inputs |-> aig.inputs, latches |-> aig.latches,
                 symbols |-> aig.symbols, ands |-> aig.ands, names |-> aig.names]
      BY <1>1
    <2> QED
      BY <2>1, <2>2
  <1> DEFINE s == [aig.symbols EXCEPT ![kind] = Append(aig.symbols[kind], lits)]
  <1>7. aig' = [b EXCEPT !.symbols = s] /\ types' = Enlarged(ToSet(lits))
    BY <1>4, <1>6 DEF AddSymbol
  <1>8. s \in [ToSet(Kinds) -> Seq(Seq(LitsOf(b)))]
    <2>1. b.symbols \in [ToSet(Kinds) -> Seq(Seq(LitsOf(b)))] /\ b.symbols = aig.symbols
      <3>1. b.symbols = aig.symbols
        BY <1>6
      <3> HIDE DEF b
      <3> QED
        BY <1>5, <3>1, GraphParts
    <2>2. lits \in Seq(LitsOf(b))
      <3>1. ASSUME NEW k \in 1..Len(lits) PROVE lits[k] \in LitsOf(b)
        <4>1. lits[k] \in 0..(Word - 1) /\ lits[k] \in ToSet(lits)
          BY <1>3, ElementOfSeq
        <4>2. lits[k] \in Nat /\ Var(lits[k]) <= m
          BY <1>2, <1>4, <4>1
        <4> QED
          BY <1>4, <1>6, <4>2, Literals DEF LitsOf
      <3> QED
        BY <3>1
    <2>3. aig.symbols[kind] \in Seq(Seq(LitsOf(b)))
      BY <2>1
    <2>4. Append(aig.symbols[kind], lits) \in Seq(Seq(LitsOf(b)))
      BY <2>2, <2>3, AppendProperties
    <2> QED
      BY <2>1, <2>4
  <1> HIDE DEF s
  <1>9. aig' = [maxvar |-> m, inputs |-> aig.inputs, latches |-> aig.latches,
                symbols |-> s, ands |-> aig.ands, names |-> aig.names]
    BY <1>6, <1>7
  <1>10. IsGraph(aig')
    BY <1>5, <1>7, <1>8, GraphWith
  <1>11. 2 * m + 1 < Word
    <2>1. CASE m = aig.maxvar
      BY <2>1 DEF GraphOK
    <2>2. CASE m # aig.maxvar
      <3>1. PICK lit \in 0..(Word - 1) : m = Var(lit)
        BY <1>3, <1>4, <2>2
      <3>2. lit \in Nat /\ lit < Word
        BY <1>2, <3>1
      <3> QED
        BY <1>2, <3>1, <3>2 DEF Var
    <2> QED
      BY <2>1, <2>2
  <1>12. GraphOK(aig')
    BY <1>9, <1>10, <1>11 DEF GraphOK
  <1>13. types' = [v \in 0..m |-> IF v \in 0..aig.maxvar THEN types[v] ELSE Untyped]
    <2>1. DOMAIN types = 0..aig.maxvar
      BY DEF Corresponds
    <2>2. 0..aig.maxvar \cup 0..m = 0..m
      BY <1>1, <1>4
    <2>3. Import(aig, ToSet(lits)).maxvar = m
      BY DEF m
    <2> QED
      BY <1>7, <2>1, <2>2, <2>3 DEF Enlarged
  <1>14. Corresponds(aig', types') /\ NoMarks(aig', types')
    <2>1. /\ \A w \in Whats : Count(aig', w) = Count(aig, w)
          /\ \A w \in Whats : \A k \in 1..Count(aig, w) : Defined(aig', w, k) = Defined(aig, w, k)
          /\ aig'.maxvar = m
      BY <1>9 DEF Count, Defined
    <2> QED
      BY <1>1, <1>4, <1>13, <2>1, MoreVariables
  <1>15. m = aig.maxvar \/ /\ m > aig.maxvar
                           /\ \E k \in 1..Len(lits) : m = Var(lits[k])
    BY <1>3, <1>4
  <1> QED
    BY <1>4, <1>9, <1>12, <1>14, <1>15 DEF s

(***************************************************************************)
(* Reading.                                                                *)
(***************************************************************************)
\* Section by section, no more than the header announces.
Sections ==
    /\ Len(aig.inputs) <= Header.inputs /\ Len(aig.latches) <= Header.latches
    /\ Len(aig.ands) <= Header.ands
    /\ \A kind \in ToSet(Kinds) : Len(aig.symbols[kind]) <= Header.symbols[kind]
    /\ Len(aig.latches) # 0 => InputsRead
    /\ (\E kind \in ToSet(Kinds) : Len(aig.symbols[kind]) # 0) => LatchesRead
    /\ Len(aig.ands) # 0 => SymbolsRead
    /\ aig.names = {}
\* The maximum is the header's until a justice property raises it.
Maximum ==
    /\ Header.maxvar <= aig.maxvar
    /\ aig.maxvar # Header.maxvar =>
         \E k \in 1..Len(aig.symbols["justice"]) : \E m \in 1..Len(aig.symbols["justice"][k]) :
           Var(aig.symbols["justice"][k][m]) = aig.maxvar
    /\ \A k \in 1..Len(aig.inputs) : Var(aig.inputs[k]) <= Header.maxvar
    /\ \A k \in 1..Len(aig.latches) : Var(aig.latches[k].lit) <= Header.maxvar
\* A binary file leaves out what has to be.
Consecutive ==
    ~Ascii => /\ Header.maxvar = Header.inputs + Header.latches + Header.ands
              /\ \A k \in 1..Len(aig.inputs) : aig.inputs[k] = 2 * k
              /\ \A k \in 1..Len(aig.latches) : aig.latches[k].lit = 2 * (Header.inputs + k)
              /\ \A k \in 1..Len(aig.ands) : aig.ands[k].lhs = 2 * (Header.inputs + Header.latches + k)
GraphPhase == GraphOK(aig) /\ Corresponds(aig, types)
ReadPhase == /\ GraphPhase /\ NoMarks(aig, types) /\ stack = <<>> /\ line \in Nat \ {0}
             /\ Sections /\ Maximum /\ Consecutive
Failed == at' = "failed" /\ UNCHANGED <<aig, types, stack>>

\* The counts of a header.
LEMMA HeaderParts ==
    ASSUME IsFile(file)
    PROVE  /\ Header.maxvar \in Nat /\ Header.inputs \in Nat /\ Header.latches \in Nat
           /\ Header.ands \in Nat /\ \A kind \in ToSet(Kinds) : Header.symbols[kind] \in Nat
           /\ 2 * Header.maxvar + 1 < Word /\ Word \in Nat
           /\ Header = [maxvar |-> Header.maxvar, inputs |-> Header.inputs, latches |-> Header.latches,
                        ands |-> Header.ands, symbols |-> Header.symbols]
           /\ Header.symbols \in [ToSet(Kinds) -> Nat]
           /\ file.mode \in {"ascii", "binary"}
           /\ ~Ascii => Header.inputs + Header.latches + Header.ands < Word
  <1> DEFINE X == [ToSet(Kinds) -> Nat]
             h == file.header
  <1>1. /\ h \in [ maxvar : Nat, inputs : Nat, latches : Nat, ands : Nat, symbols : X ]
        /\ 2 * Wrapped(h.maxvar) + 1 < Word /\ file.mode \in {"ascii", "binary"}
        /\ ~Ascii => Wrapped(h.inputs) + Wrapped(h.latches) + Wrapped(h.ands) < Word
    BY DEF IsFile, Ascii
  <1>2. Word \in Nat \ {0}
    BY WordIs
  <1>3. \A n \in Nat : Wrapped(n) \in Nat
    BY <1>2 DEF Wrapped
  <1>4. h.maxvar \in Nat /\ h.inputs \in Nat /\ h.latches \in Nat /\ h.ands \in Nat /\ h.symbols \in X
    <2> HIDE DEF X, h
    <2> QED
      BY <1>1
  <1>5. [kind \in ToSet(Kinds) |-> Wrapped(h.symbols[kind])] \in X
    BY <1>3, <1>4
  <1>6. Header = [maxvar |-> Wrapped(h.maxvar), inputs |-> Wrapped(h.inputs), latches |-> Wrapped(h.latches),
                  ands |-> Wrapped(h.ands), symbols |-> [kind \in ToSet(Kinds) |-> Wrapped(h.symbols[kind])]]
    BY DEF Header
  <1>7. \A m, i, l, a, x : LET r == [maxvar |-> m, inputs |-> i, latches |-> l, ands |-> a, symbols |-> x] IN
          r.maxvar = m /\ r.inputs = i /\ r.latches = l /\ r.ands = a /\ r.symbols = x
    OBVIOUS
  <1> HIDE DEF h
  <1>8. /\ Header.maxvar = Wrapped(h.maxvar) /\ Header.inputs = Wrapped(h.inputs)
        /\ Header.latches = Wrapped(h.latches) /\ Header.ands = Wrapped(h.ands)
        /\ Header.symbols = [kind \in ToSet(Kinds) |-> Wrapped(h.symbols[kind])]
    BY <1>6, <1>7
  <1>9. Header.symbols \in X
    BY <1>5, <1>8
  <1>10. /\ Header.maxvar \in Nat /\ Header.inputs \in Nat /\ Header.latches \in Nat /\ Header.ands \in Nat
         /\ \A kind \in ToSet(Kinds) : Header.symbols[kind] \in Nat
    BY <1>3, <1>4, <1>8, <1>9
  <1>11. Header = [maxvar |-> Header.maxvar, inputs |-> Header.inputs, latches |-> Header.latches,
                   ands |-> Header.ands, symbols |-> Header.symbols]
    BY <1>6, <1>8
  <1> QED
    BY <1>1, <1>2, <1>8, <1>9, <1>10, <1>11

\* The numbers of a line are within a word.
LEMMA NumbersType ==
    ASSUME IsFile(file), line \in Nat \ {0}
    PROVE  /\ Numbers \in Seq(0..(Word - 1)) /\ Len(Numbers) \in Nat
           /\ \A k \in 1..Len(Numbers) : /\ Numbers[k] \in Nat /\ Numbers[k] < Word
                                         /\ Numbers[k] = Wrapped(file.lines[line][k])
           /\ Len(Numbers) # 0 => line \in 1..Len(file.lines) /\ Len(Numbers) = Len(file.lines[line])
  <1>1. Word \in Nat \ {0}
    BY WordIs
  <1>2. file.lines \in Seq(Seq(Nat))
    BY DEF IsFile
  <1>3. CASE line <= Len(file.lines)
    <2> DEFINE s == file.lines[line]
    <2>1. line \in 1..Len(file.lines) /\ s \in Seq(Nat)
      BY <1>2, <1>3, LenProperties, ElementOfSeq
    <2>2. Len(s) \in Nat /\ \A k \in 1..Len(s) : s[k] \in Nat
      BY <2>1, LenProperties, ElementOfSeq
    <2>3. Numbers = [k \in 1..Len(s) |-> Wrapped(s[k])]
      BY <1>3 DEF Numbers
    <2> HIDE DEF s
    <2>4. \A k \in 1..Len(s) : Wrapped(s[k]) \in Nat /\ Wrapped(s[k]) < Word
      BY <1>1, <2>2 DEF Wrapped
    <2>5. \A k \in 1..Len(s) : Wrapped(s[k]) \in 0..(Word - 1)
      BY <1>1, <2>4
    <2>6. Numbers \in Seq(0..(Word - 1)) /\ Len(Numbers) = Len(s)
      BY <2>2, <2>3, <2>5
    <2> QED
      BY <2>1, <2>2, <2>3, <2>4, <2>6 DEF s
  <1>4. CASE ~(line <= Len(file.lines))
    <2>1. Numbers = <<>>
      BY <1>4 DEF Numbers
    <2> QED
      BY <2>1
  <1> QED
    BY <1>3, <1>4

\* A literal that can be defined is the double of a variable without a type.
LEMMA DefinableVar ==
    ASSUME GraphPhase, NEW lit \in Nat, Definable(lit)
    PROVE  lit = 2 * Var(lit) /\ Var(lit) \in 1..aig.maxvar /\ types[Var(lit)].is = "none"
  <1>1. lit # 0 /\ ~IsNeg(lit) /\ Var(lit) <= aig.maxvar /\ types[Var(lit)].is = "none"
    BY DEF Definable
  <1>2. Var(lit) \in Nat /\ lit = 2 * Var(lit)
    <2>1. ~IsNeg(lit)
      BY <1>1
    <2> QED
      BY <2>1 DEF Var, IsNeg
  <1>3. aig.maxvar \in Nat
    BY GraphParts DEF GraphPhase, GraphOK
  <1> QED
    BY <1>1, <1>2, <1>3, SMT

\* A literal in range is a literal of the graph.
LEMMA InRangeLit ==
    ASSUME GraphPhase, NEW lit \in Nat, InRange(lit)
    PROVE  lit \in LitsOf(aig)
  <1>1. aig.maxvar \in Nat
    BY GraphParts DEF GraphPhase, GraphOK
  <1> QED
    BY <1>1, Literals DEF InRange, LitsOf

\* Each step of the reader fails, or leads on with what it has read in order.
LEMMA HeaderStep ==
    ASSUME IsFile(file), aig = EmptyGraph, stack = <<>>, ReadHeader
    PROVE  Failed \/ (at' = "read" /\ ReadPhase')
  <1>1. CASE at' = "failed"
    <2>1. UNCHANGED <<aig, types, stack>>
      BY <1>1 DEF ReadHeader
    <2>2. Failed
      BY <1>1, <2>1 DEF Failed
    <2> QED
      BY <2>2
  <1>2. CASE at' # "failed"
    <2>1. /\ at' = "read" /\ aig' = [EmptyGraph EXCEPT !.maxvar = Header.maxvar]
          /\ types' = [v \in 0..Header.maxvar |-> Untyped] /\ line' = 1 /\ stack' = stack /\ file' = file
          /\ ~Ascii => (Header.inputs + Header.latches + Header.ands) % Word = Header.maxvar
      BY <1>2 DEF ReadHeader
    <2> DEFINE none == [k \in ToSet(Kinds) |-> <<>>]
    <2>2. aig' = [maxvar |-> Header.maxvar, inputs |-> <<>>, latches |-> <<>>, ands |-> <<>>,
                  symbols |-> none, names |-> {}]
      BY <2>1 DEF EmptyGraph
    <2>3. IsGraph(aig')
      <3> DEFINE I == Seq(LitsOf(aig'))  J == Seq(LatchRecords(aig'))  K == Seq(AndRecords(aig'))
                 X == [ToSet(Kinds) -> Seq(Seq(LitsOf(aig')))]  M == SUBSET Names
      <3>1. <<>> \in I /\ <<>> \in J /\ <<>> \in K /\ none \in X /\ {} \in M /\ Header.maxvar \in Nat
        BY HeaderParts
      <3> HIDE DEF I, J, K, X, M, none
      <3>2. aig' \in [maxvar : Nat, inputs : I, latches : J, symbols : X, ands : K, names : M]
        BY <2>2, <3>1
      <3> QED
        BY <3>2 DEF IsGraph, LatchRecords, AndRecords, I, J, K, X, M
    <2>4. \A kind \in ToSet(Kinds) : Len(none[kind]) = 0
      OBVIOUS
    <2> HIDE DEF none
    <2>5. /\ aig'.maxvar = Header.maxvar /\ Len(aig'.inputs) = 0 /\ Len(aig'.latches) = 0 /\ Len(aig'.ands) = 0
          /\ aig'.symbols = none /\ aig'.names = {} /\ Header' = Header
      BY <2>1, <2>2 DEF Header
    <2>6. GraphOK(aig')
      <3>1. IsFiniteSet({})
        BY FS_EmptySet
      <3>2. 1..Len(aig'.latches) = {}
        BY <2>5
      <3> QED
        BY <2>3, <2>5, <3>1, <3>2, HeaderParts DEF GraphOK
    <2>7. Corresponds(aig', types') /\ NoMarks(aig', types')
      <3>1. Untyped \in Types /\ Untyped.is = "none" /\ ~Untyped.mark /\ ~Untyped.onstack
        BY DEF Untyped, Types
      <3>2. \A v \in 0..aig'.maxvar : types'[v] = Untyped
        BY <2>1, <2>5
      <3>3. types' \in [0..aig'.maxvar -> Types]
        BY <2>1, <2>5, <3>1
      <3>4. \A what \in Whats : 1..Count(aig', what) = {}
        BY <2>5 DEF Count
      <3>5. "none" \notin Whats
        BY DEF Whats
      <3> QED
        BY <3>1, <3>2, <3>3, <3>4, <3>5 DEF Corresponds, Leads, NoMarks
    <2>8. Sections'
      <3>1. /\ Header.inputs \in Nat /\ Header.latches \in Nat /\ Header.ands \in Nat
            /\ \A kind \in ToSet(Kinds) : Header.symbols[kind] \in Nat
        BY HeaderParts
      <3>2. \A kind \in ToSet(Kinds) : Len(aig'.symbols[kind]) = 0
        BY <2>4, <2>5
      <3> QED
        BY <2>5, <3>1, <3>2 DEF Sections
    <2>9. Maximum' /\ Consecutive'
      <3>1. /\ Header.maxvar \in Nat /\ Header.inputs \in Nat /\ Header.latches \in Nat /\ Header.ands \in Nat
            /\ ~Ascii => Header.inputs + Header.latches + Header.ands < Word
            /\ Word \in Nat
        BY HeaderParts
      <3>2. 1..Len(aig'.inputs) = {} /\ 1..Len(aig'.latches) = {} /\ 1..Len(aig'.ands) = {}
        BY <2>5
      <3>3. ~Ascii => Header.maxvar = Header.inputs + Header.latches + Header.ands
        <4>1. \A w \in Nat : \A n \in Nat : n < w => n % w = n
          OBVIOUS
        <4>2. Header.inputs + Header.latches + Header.ands \in Nat
          BY <3>1
        <4> QED
          BY <2>1, <3>1, <4>1, <4>2
      <3>4. Ascii' = Ascii
        BY <2>1 DEF Ascii
      <3>5. Maximum' /\ Consecutive'
        BY <2>5, <3>1, <3>2, <3>3, <3>4 DEF Maximum, Consecutive
      <3> QED
        BY <3>5
    <2> QED
      BY <2>1, <2>6, <2>7, <2>8, <2>9 DEF ReadPhase, GraphPhase
  <1> QED
    BY <1>1, <1>2 DEF Failed

\* As long as a section is not read, the later ones are empty.
LEMMA LaterSectionsEmpty ==
    ASSUME IsFile(file), ReadPhase
    PROVE  /\ Len(aig.inputs) \in Nat /\ Len(aig.latches) \in Nat /\ Len(aig.ands) \in Nat
           /\ ~InputsRead => Len(aig.latches) = 0
           /\ ~LatchesRead => /\ \A kind \in ToSet(Kinds) : Len(aig.symbols[kind]) = 0
                              /\ aig.maxvar = Header.maxvar
           /\ ~SymbolsRead => Len(aig.ands) = 0
           /\ SymbolsRead => LatchesRead
           /\ LatchesRead => InputsRead
  <1>1. SymbolsRead => LatchesRead
    BY DEF SymbolsRead, KindsRead
  <1>2. LatchesRead => InputsRead
    BY DEF LatchesRead
  <1>3. Sections /\ Maximum /\ IsGraph(aig)
    BY DEF ReadPhase, GraphPhase, GraphOK
  <1>4. Len(aig.inputs) \in Nat /\ Len(aig.latches) \in Nat /\ Len(aig.ands) \in Nat
    BY <1>3, GraphEntries
  <1>5. ~LatchesRead => \A kind \in ToSet(Kinds) : Len(aig.symbols[kind]) = 0
    BY <1>3 DEF Sections
  <1>6. ~LatchesRead => aig.maxvar = Header.maxvar
    <2> SUFFICES ASSUME ~LatchesRead PROVE aig.maxvar = Header.maxvar
      OBVIOUS
    <2>1. Len(aig.symbols["justice"]) = 0
      BY <1>5, KindNames
    <2>2. 1..Len(aig.symbols["justice"]) = {}
      BY <2>1
    <2> QED
      BY <1>3, <2>2 DEF Maximum
  <1> QED
    BY <1>1, <1>2, <1>3, <1>4, <1>5, <1>6 DEF Sections

\* An input has been accepted.
LEMMA InputAdded ==
    ASSUME IsFile(file), ReadPhase, ~InputsRead,
           NEW v \in 1..aig.maxvar, types[v].is = "none", AddInput(2 * v),
           UNCHANGED <<stack, file>>,
           IF Ascii THEN line' = line + 1 ELSE line' = line /\ v = Len(aig.inputs) + 1
    PROVE  ReadPhase'
  <1>1. /\ GraphOK(aig) /\ Corresponds(aig, types) /\ NoMarks(aig, types)
        /\ Sections /\ Maximum /\ Consecutive /\ line \in Nat \ {0} /\ stack = <<>>
    BY DEF ReadPhase, GraphPhase
  <1>2. /\ GraphOK(aig') /\ Corresponds(aig', types') /\ NoMarks(aig', types')
        /\ aig'.maxvar = aig.maxvar /\ aig'.latches = aig.latches /\ aig'.ands = aig.ands
        /\ aig'.symbols = aig.symbols /\ aig'.names = aig.names
        /\ Len(aig'.inputs) = Len(aig.inputs) + 1
        /\ aig'.inputs[Len(aig.inputs) + 1] = 2 * v
        /\ \A k \in 1..Len(aig.inputs) : aig'.inputs[k] = aig.inputs[k]
    BY <1>1, AddInputKeeps
  <1>3. /\ Len(aig.inputs) \in Nat /\ Len(aig.latches) = 0 /\ ~SymbolsRead /\ ~LatchesRead /\ Len(aig.ands) = 0
        /\ \A kind \in ToSet(Kinds) : Len(aig.symbols[kind]) = 0
        /\ aig.maxvar = Header.maxvar
    BY LaterSectionsEmpty
  <1>4. /\ Header.inputs \in Nat /\ Header.latches \in Nat /\ Header.ands \in Nat /\ Header.maxvar \in Nat
        /\ \A kind \in ToSet(Kinds) : Header.symbols[kind] \in Nat
    BY HeaderParts
  <1>5. Header' = Header /\ Ascii' = Ascii
    BY DEF Header, Ascii
  <1>6. Len(aig.inputs) < Header.inputs
    BY <1>1, <1>3, <1>4 DEF Sections, InputsRead
  <1>7. Sections'
    <2>1. Len(aig'.inputs) <= Header.inputs
      BY <1>2, <1>3, <1>4, <1>6
    <2>2. Len(aig'.latches) = 0 /\ Len(aig'.ands) = 0 /\ \A kind \in ToSet(Kinds) : Len(aig'.symbols[kind]) = 0
      BY <1>2, <1>3
    <2> QED
      BY <1>1, <1>2, <1>4, <1>5, <2>1, <2>2 DEF Sections
  <1>8. \A k \in 1..Len(aig'.inputs) : k = Len(aig.inputs) + 1 \/ k \in 1..Len(aig.inputs)
    BY <1>2, <1>3
  <1>9. Var(2 * v) = v /\ v \in Nat
    BY <1>3, <1>4, Doubled
  <1>10. Maximum'
    <2>1. \A k \in 1..Len(aig'.inputs) : Var(aig'.inputs[k]) <= Header.maxvar
      BY <1>1, <1>2, <1>3, <1>8, <1>9 DEF Maximum
    <2> QED
      BY <1>1, <1>2, <1>3, <1>5, <2>1 DEF Maximum
  <1>11. Consecutive'
    <2> SUFFICES ASSUME ~Ascii PROVE Consecutive'
      BY <1>5 DEF Consecutive
    <2>1. \A k \in 1..Len(aig'.inputs) : aig'.inputs[k] = 2 * k
      BY <1>1, <1>2, <1>8 DEF Consecutive
    <2> QED
      BY <1>1, <1>2, <1>5, <2>1 DEF Consecutive
  <1>12. line' \in Nat \ {0}
    BY <1>1
  <1> QED
    BY <1>1, <1>2, <1>7, <1>10, <1>11, <1>12 DEF ReadPhase, GraphPhase

\* ReadInput.
LEMMA InputStep ==
    ASSUME IsFile(file), ReadPhase, ReadInput
    PROVE  Failed \/ (at' = "read" /\ ReadPhase')
  <1>1. at = "read" /\ ~InputsRead /\ UNCHANGED <<stack, file>> /\ GraphPhase /\ line \in Nat \ {0}
    BY DEF ReadInput, ReadPhase
  <1>2. CASE Ascii
    <2>1. Read(Len(Numbers) = 1 /\ Definable(Numbers[1]), AddInput(Numbers[1])) /\ line' = line + 1
      BY <1>2 DEF ReadInput
    <2>2. CASE Len(Numbers) = 1 /\ Definable(Numbers[1])
      <3>1. Numbers[1] \in Nat
        BY <1>1, <2>2, NumbersType
      <3> DEFINE v == Var(Numbers[1])
      <3>2. Numbers[1] = 2 * v /\ v \in 1..aig.maxvar /\ types[v].is = "none"
        BY <1>1, <2>2, <3>1, DefinableVar
      <3>3. AddInput(2 * v) /\ at' = "read"
        BY <1>1, <2>1, <2>2, <3>2 DEF Read
      <3> QED
        BY <1>1, <1>2, <2>1, <3>2, <3>3, InputAdded
    <2>3. CASE ~(Len(Numbers) = 1 /\ Definable(Numbers[1]))
      BY <1>1, <2>1, <2>3 DEF Read, Failed
    <2> QED
      BY <2>2, <2>3
  <1>3. CASE ~Ascii
    <2> DEFINE v == Len(aig.inputs) + 1
    <2>1. AddInput(2 * v) /\ UNCHANGED <<at, line>>
      BY <1>3 DEF ReadInput
    <2>2. /\ Len(aig.inputs) \in Nat /\ Len(aig.latches) = 0 /\ Len(aig.ands) = 0
          /\ aig.maxvar = Header.maxvar
      BY <1>1, LaterSectionsEmpty
    <2>3. v \in 1..aig.maxvar
      <3>1. Len(aig.inputs) <= Header.inputs /\ Header.maxvar = Header.inputs + Header.latches + Header.ands
        BY <1>3 DEF ReadPhase, Sections, Consecutive
      <3> QED
        BY <1>1, <2>2, <3>1, HeaderParts DEF InputsRead
    <2>4. types[v].is = "none"
      <3>1. types[v] \in Types /\ Leads(aig, types, v)
        BY <1>1, <2>3 DEF GraphPhase, Corresponds
      <3>2. types[v].is # "latch" /\ types[v].is # "and"
        BY <2>2, <3>1 DEF Leads, Whats, Count
      <3>3. types[v].is # "input"
        <4>1. types[v].is = "input" => /\ types[v].idx \in 1..Len(aig.inputs)
                                       /\ aig.inputs[types[v].idx] = 2 * v
          BY <3>1 DEF Leads, Whats, Count, Defined
        <4>2. \A k \in 1..Len(aig.inputs) : aig.inputs[k] = 2 * k
          BY <1>3 DEF ReadPhase, Consecutive
        <4> QED
          BY <2>2, <4>1, <4>2
      <3> QED
        BY <3>1, <3>2, <3>3 DEF Types
    <2>5. at' = "read"
      BY <1>1, <2>1
    <2> QED
      BY <1>1, <1>3, <2>1, <2>3, <2>4, <2>5, InputAdded
  <1> QED
    BY <1>2, <1>3

\* A latch has been accepted.
LEMMA LatchAdded ==
    ASSUME IsFile(file), ReadPhase, InputsRead, ~LatchesRead,
           NEW v \in 1..aig.maxvar, types[v].is = "none",
           NEW next \in LitsOf(aig), NEW reset \in 0..(Word - 1), AddLatch(2 * v, next, reset),
           UNCHANGED <<stack, file>>, line' = line + 1,
           ~Ascii => v = Header.inputs + Len(aig.latches) + 1
    PROVE  ReadPhase'
  <1>1. /\ GraphOK(aig) /\ Corresponds(aig, types) /\ NoMarks(aig, types)
        /\ Sections /\ Maximum /\ Consecutive /\ line \in Nat \ {0} /\ stack = <<>>
    BY DEF ReadPhase, GraphPhase
  <1> DEFINE n == Len(aig.latches)
  <1>2. /\ GraphOK(aig') /\ Corresponds(aig', types') /\ NoMarks(aig', types')
        /\ aig'.maxvar = aig.maxvar /\ aig'.inputs = aig.inputs /\ aig'.ands = aig.ands
        /\ aig'.symbols = aig.symbols /\ aig'.names = aig.names
        /\ Len(aig'.latches) = n + 1
        /\ aig'.latches[n + 1] = [lit |-> 2 * v, next |-> next, reset |-> reset]
        /\ \A k \in 1..n : aig'.latches[k] = aig.latches[k]
    BY <1>1, AddLatchKeeps
  <1> HIDE DEF n
  <1>3. /\ Len(aig.inputs) \in Nat /\ n \in Nat /\ ~SymbolsRead /\ Len(aig.ands) = 0
        /\ \A kind \in ToSet(Kinds) : Len(aig.symbols[kind]) = 0
        /\ aig.maxvar = Header.maxvar
    BY LaterSectionsEmpty DEF n
  <1>4. /\ Header.inputs \in Nat /\ Header.latches \in Nat /\ Header.ands \in Nat /\ Header.maxvar \in Nat
        /\ \A kind \in ToSet(Kinds) : Header.symbols[kind] \in Nat
    BY HeaderParts
  <1>5. /\ Header' = Header /\ Ascii' = Ascii /\ InputsRead'
        /\ Len(aig.inputs) = Header.inputs
    BY <1>2 DEF Header, Ascii, InputsRead
  <1>6. n < Header.latches
    BY <1>1, <1>3, <1>4 DEF Sections, LatchesRead, n
  <1>7. aig'.latches[n + 1].lit = 2 * v
    BY <1>2
  <1>8. Sections'
    <2>1. Len(aig'.latches) <= Header.latches
      BY <1>2, <1>3, <1>4, <1>6
    <2>2. Len(aig'.ands) = 0 /\ \A kind \in ToSet(Kinds) : Len(aig'.symbols[kind]) = 0
      BY <1>2, <1>3
    <2> QED
      BY <1>1, <1>2, <1>4, <1>5, <2>1, <2>2 DEF Sections
  <1>9. \A k \in 1..Len(aig'.latches) : k = n + 1 \/ k \in 1..n
    BY <1>2, <1>3
  <1>10. Var(2 * v) = v /\ v \in Nat
    BY <1>3, <1>4, Doubled
  <1>11. Maximum'
    <2>1. \A k \in 1..Len(aig'.latches) : Var(aig'.latches[k].lit) <= Header.maxvar
      BY <1>1, <1>2, <1>3, <1>7, <1>9, <1>10, SMTT(30) DEF Maximum, n
    <2> QED
      BY <1>1, <1>2, <1>3, <1>5, <2>1 DEF Maximum
  <1>12. Consecutive'
    <2> SUFFICES ASSUME ~Ascii PROVE Consecutive'
      BY <1>5 DEF Consecutive
    <2>1. \A k \in 1..Len(aig'.latches) : aig'.latches[k].lit = 2 * (Header.inputs + k)
      <3>1. 2 * v = 2 * (Header.inputs + (n + 1))
        BY <1>3, <1>4 DEF n
      <3>2. \A k \in 1..n : aig.latches[k].lit = 2 * (Header.inputs + k)
        BY <1>1 DEF Consecutive, n
      <3> QED
        BY <1>2, <1>7, <1>9, <3>1, <3>2
    <2> QED
      BY <1>1, <1>2, <1>5, <2>1 DEF Consecutive
  <1>13. line' \in Nat \ {0}
    BY <1>1
  <1> QED
    BY <1>1, <1>2, <1>8, <1>11, <1>12, <1>13 DEF ReadPhase, GraphPhase

\* A variable behind all that a binary file has defined is new.
LEMMA BehindAll ==
    ASSUME IsFile(file), ReadPhase, ~Ascii, NEW v \in 1..aig.maxvar,
           Len(aig.inputs) < v,
           Len(aig.latches) # 0 => Header.inputs + Len(aig.latches) < v,
           Len(aig.ands) # 0 => Header.inputs + Header.latches + Len(aig.ands) < v
    PROVE  types[v].is = "none"
  <1>1. /\ Len(aig.inputs) \in Nat /\ Len(aig.latches) \in Nat /\ Len(aig.ands) \in Nat
        /\ Header.inputs \in Nat /\ Header.latches \in Nat /\ aig.maxvar \in Nat
    BY LaterSectionsEmpty, HeaderParts, GraphParts DEF ReadPhase, GraphPhase, GraphOK
  <1>2. Consecutive /\ Corresponds(aig, types)
    BY DEF ReadPhase, GraphPhase
  <1>3. types[v] \in Types /\ Leads(aig, types, v)
    BY <1>1, <1>2 DEF Corresponds
  <1>4. types[v].is # "input"
    <2> SUFFICES ASSUME types[v].is = "input" PROVE FALSE
      OBVIOUS
    <2>1. types[v].idx \in 1..Len(aig.inputs) /\ aig.inputs[types[v].idx] = 2 * v
      BY <1>3 DEF Leads, Whats, Count, Defined
    <2>2. aig.inputs[types[v].idx] = 2 * types[v].idx
      BY <1>2, <2>1 DEF Consecutive
    <2> QED
      BY <1>1, <2>1, <2>2
  <1>5. types[v].is # "latch"
    <2> SUFFICES ASSUME types[v].is = "latch" PROVE FALSE
      OBVIOUS
    <2>1. types[v].idx \in 1..Len(aig.latches) /\ aig.latches[types[v].idx].lit = 2 * v
      BY <1>3 DEF Leads, Whats, Count, Defined
    <2>2. aig.latches[types[v].idx].lit = 2 * (Header.inputs + types[v].idx)
      BY <1>2, <2>1 DEF Consecutive
    <2> QED
      BY <1>1, <2>1, <2>2
  <1>6. types[v].is # "and"
    <2> SUFFICES ASSUME types[v].is = "and" PROVE FALSE
      OBVIOUS
    <2>1. types[v].idx \in 1..Len(aig.ands) /\ aig.ands[types[v].idx].lhs = 2 * v
      BY <1>3 DEF Leads, Whats, Count, Defined
    <2>2. aig.ands[types[v].idx].lhs = 2 * (Header.inputs + Header.latches + types[v].idx)
      BY <1>2, <2>1 DEF Consecutive
    <2> QED
      BY <1>1, <2>1, <2>2
  <1> QED
    BY <1>3, <1>4, <1>5, <1>6 DEF Types

\* ReadLatch.
LEMMA LatchStep ==
    ASSUME IsFile(file), ReadPhase, ReadLatch
    PROVE  Failed \/ (at' = "read" /\ ReadPhase')
  <1> DEFINE n == Len(aig.latches)
             ns == IF Ascii THEN Numbers ELSE <<2 * (Header.inputs + n + 1)>> \o Numbers
             ok == Len(ns) \in {2, 3} /\ (Ascii => Definable(ns[1])) /\ InRange(ns[2])
             reset == IF Len(ns) = 3 THEN ns[3] ELSE 0
  <1>1. /\ at = "read" /\ InputsRead /\ ~LatchesRead /\ UNCHANGED <<stack, file>> /\ line' = line + 1
        /\ Read(ok, AddLatch(ns[1], ns[2], reset))
    BY DEF ReadLatch
  <1>2. CASE ~ok
    <2> HIDE DEF ok
    <2> QED
      BY <1>1, <1>2 DEF Read, Failed
  <1>3. CASE ok
    <2>1. AddLatch(ns[1], ns[2], reset) /\ at' = "read"
      <3> HIDE DEF ok
      <3> QED
        BY <1>1, <1>3 DEF Read
    <2>2. /\ n \in Nat /\ aig.maxvar = Header.maxvar /\ Len(aig.ands) = 0 /\ Len(aig.inputs) = Header.inputs
          /\ Header.inputs \in Nat /\ Header.latches \in Nat /\ Header.ands \in Nat /\ Header.maxvar \in Nat
          /\ Word \in Nat /\ 2 * Header.maxvar + 1 < Word
      BY <1>1, LaterSectionsEmpty, HeaderParts DEF InputsRead
    <2>3. n + 1 \in 1..Header.latches
      <3>1. n <= Header.latches
        BY DEF ReadPhase, Sections
      <3> QED
        BY <1>1, <2>2, <3>1, SMTT(20) DEF LatchesRead
    <2>4. /\ Numbers \in Seq(0..(Word - 1)) /\ Len(Numbers) \in Nat
          /\ \A k \in 1..Len(Numbers) : Numbers[k] \in Nat /\ Numbers[k] = Wrapped(file.lines[line][k])
          /\ Len(Numbers) # 0 => line \in 1..Len(file.lines) /\ Len(Numbers) = Len(file.lines[line])
      BY NumbersType DEF ReadPhase
    <2>5. 0 \in 0..(Word - 1) /\ \A k \in 1..Len(Numbers) : Numbers[k] \in 0..(Word - 1)
      <3>1. Word \in Nat \ {0}
        BY WordIs
      <3> QED
        BY <2>4, <3>1, ElementOfSeq
    <2>7. CASE Ascii
      <3>1. ns = Numbers
        BY <2>7
      <3>2. /\ Len(Numbers) \in {2, 3} /\ Definable(Numbers[1]) /\ InRange(Numbers[2])
            /\ reset = IF Len(Numbers) = 3 THEN Numbers[3] ELSE 0
        BY <1>3, <2>7, <3>1
      <3>3. Numbers[1] \in Nat /\ Numbers[2] \in Nat
        BY <2>4, <3>2
      <3> DEFINE v == Var(Numbers[1])
      <3>4. Numbers[1] = 2 * v /\ v \in 1..aig.maxvar /\ types[v].is = "none" /\ Numbers[2] \in LitsOf(aig)
        BY <3>2, <3>3, DefinableVar, InRangeLit DEF ReadPhase
      <3>5. reset \in 0..(Word - 1)
        <4>1. Len(Numbers) = 3 => 3 \in 1..Len(Numbers)
          BY <2>4
        <4> QED
          BY <2>5, <3>2, <4>1
      <3> HIDE DEF v, reset, ns
      <3>6. AddLatch(2 * v, Numbers[2], reset)
        BY <2>1, <3>1, <3>4
      <3> QED
        BY <1>1, <2>1, <2>7, <3>4, <3>5, <3>6, LatchAdded
    <2>8. CASE ~Ascii
      <3> DEFINE v == Header.inputs + n + 1
      <3>1. ns = <<2 * v>> \o Numbers
        BY <2>8
      <3>2. v \in Nat /\ 2 * v \in Nat /\ <<2 * v>> \in Seq(Nat) /\ Len(<<2 * v>>) = 1 /\ <<2 * v>>[1] = 2 * v
        BY <2>2, SMTT(20)
      <3> HIDE DEF v
      <3>3. /\ Len(ns) = 1 + Len(Numbers) /\ ns[1] = 2 * v
            /\ \A k \in 1..Len(Numbers) : ns[1 + k] = Numbers[k]
        <4>1. Numbers \in Seq(Nat)
          <5>1. 0..(Word - 1) \subseteq Nat
            OBVIOUS
          <5> QED
            BY <2>4, <5>1, SeqMonotonic
        <4>2. /\ Len(<<2 * v>> \o Numbers) = Len(<<2 * v>>) + Len(Numbers)
              /\ \A i \in 1..(Len(<<2 * v>>) + Len(Numbers)) : (<<2 * v>> \o Numbers)[i] =
                   IF i <= Len(<<2 * v>>) THEN <<2 * v>>[i] ELSE Numbers[i - Len(<<2 * v>>)]
          BY <3>2, <4>1, ConcatProperties
        <4> HIDE DEF ns
        <4>3. /\ Len(ns) = 1 + Len(Numbers)
              /\ \A i \in 1..(1 + Len(Numbers)) : ns[i] = IF i <= 1 THEN 2 * v ELSE Numbers[i - 1]
          <5>1. \A i \in 1..(1 + Len(Numbers)) : i <= 1 => i = 1
            BY <2>4
          <5> QED
            BY <3>1, <3>2, <4>2, <5>1
        <4> QED
          BY <2>4, <4>3
      <3>4. Len(Numbers) \in {1, 2}
        <4>1. Len(ns) \in {2, 3}
          BY <1>3
        <4> HIDE DEF ns
        <4>2. \A a \in Nat : \A b : b = 1 + a /\ b \in {2, 3} => a \in {1, 2}
          OBVIOUS
        <4>3. Len(Numbers) \in Nat /\ Len(ns) = 1 + Len(Numbers)
          BY <2>4, <3>3
        <4> QED
          BY <4>1, <4>2, <4>3
      <3>5. ns[2] = Numbers[1] /\ Numbers[1] \in Nat /\ (Len(Numbers) = 2 => ns[3] = Numbers[2])
        <4> HIDE DEF ns
        <4>1. 1 + 1 = 2 /\ 1 + 2 = 3 /\ 1 \in 1..Len(Numbers) /\ (Len(Numbers) = 2 => 2 \in 1..Len(Numbers))
          BY <3>4
        <4> QED
          BY <2>4, <3>3, <4>1
      <3>6. Numbers[1] \in LitsOf(aig)
        BY <1>3, <3>5, InRangeLit DEF ReadPhase
      <3>7. v \in 1..aig.maxvar /\ types[v].is = "none"
        <4>1. Header.maxvar = Header.inputs + Header.latches + Header.ands
          BY <2>8 DEF ReadPhase, Consecutive
        <4>2. v \in 1..aig.maxvar
          <5>1. n + 1 <= Header.latches
            BY <2>2, <2>3
          <5>2. \A i \in Nat : \A l \in Nat : \A a \in Nat : \A k \in Nat :
                  k + 1 <= l => i + k + 1 \in 1..(i + l + a)
            OBVIOUS
          <5>3. Header.inputs + n + 1 \in 1..(Header.inputs + Header.latches + Header.ands)
            BY <2>2, <5>1, <5>2
          <5>4. aig.maxvar = Header.inputs + Header.latches + Header.ands
            BY <2>2, <4>1
          <5> QED
            BY <5>3, <5>4 DEF v
        <4>3. /\ Len(aig.inputs) < v
              /\ Len(aig.latches) # 0 => Header.inputs + Len(aig.latches) < v
              /\ Len(aig.ands) # 0 => Header.inputs + Header.latches + Len(aig.ands) < v
          BY <2>2 DEF v
        <4> HIDE DEF n
        <4> QED
          BY <2>8, <4>2, <4>3, BehindAll
      <3>8. reset \in 0..(Word - 1)
        <4>1. CASE Len(Numbers) = 2
          <5>1. Len(ns) = 3 /\ ns[3] = Numbers[2] /\ 2 \in 1..Len(Numbers)
            BY <3>3, <3>5, <4>1
          <5> QED
            BY <2>5, <5>1
        <4>2. CASE Len(Numbers) # 2
          <5>1. Len(ns) # 3
            BY <3>3, <3>4, <4>2
          <5> QED
            BY <2>5, <5>1
        <4> QED
          BY <4>1, <4>2
      <3> HIDE DEF reset, ns
      <3>9. AddLatch(2 * v, Numbers[1], reset)
        BY <2>1, <3>3, <3>5
      <3>10. v = Header.inputs + Len(aig.latches) + 1
        BY DEF v
      <3> QED
        BY <1>1, <2>1, <2>8, <3>6, <3>7, <3>8, <3>9, <3>10, LatchAdded
    <2> QED
      BY <2>7, <2>8
  <1> QED
    BY <1>2, <1>3

\* ReadSymbol: only a justice property raises the maximum.
LEMMA SymbolStep ==
    ASSUME IsFile(file), ReadPhase, ReadSymbol
    PROVE  Failed \/ (at' = "read" /\ ReadPhase')
  <1>1. /\ GraphOK(aig) /\ Corresponds(aig, types) /\ NoMarks(aig, types)
        /\ Sections /\ Maximum /\ Consecutive /\ line \in Nat \ {0} /\ stack = <<>>
    BY DEF ReadPhase, GraphPhase
  <1>2. /\ Numbers \in Seq(0..(Word - 1)) /\ Len(Numbers) \in Nat
        /\ \A k \in 1..Len(Numbers) : Numbers[k] \in Nat
    BY <1>1, NumbersType
  <1> DEFINE lits == Numbers
  <1>3. PICK n \in 1..5 :
          /\ KindsRead(n - 1) /\ ~KindsRead(n)
          /\ Read(IF Kinds[n] = "justice" THEN line <= Len(file.lines) ELSE Len(lits) = 1 /\ InRange(lits[1]),
                  AddSymbol(Kinds[n], lits))
    BY KindNames DEF ReadSymbol
  <1>4. at = "read" /\ LatchesRead /\ UNCHANGED <<stack, file>> /\ line' = line + 1
    BY DEF ReadSymbol
  <1> DEFINE kind == Kinds[n]
             ok == IF kind = "justice" THEN line <= Len(file.lines) ELSE Len(lits) = 1 /\ InRange(lits[1])
  <1>5. kind \in ToSet(Kinds) /\ Read(ok, AddSymbol(kind, lits))
    BY <1>3, KindNames
  <1>6. CASE ~ok
    <2> HIDE DEF ok
    <2> QED
      BY <1>4, <1>5, <1>6 DEF Read, Failed
  <1>7. CASE ok
    <2>1. AddSymbol(kind, lits) /\ at' = "read"
      <3> HIDE DEF ok
      <3> QED
        BY <1>4, <1>5, <1>7 DEF Read
    <2>2. /\ Len(aig.symbols[kind]) \in Nat /\ Header.symbols[kind] \in Nat
          /\ Len(aig.symbols[kind]) < Header.symbols[kind] /\ ~SymbolsRead
      <3>1. Len(aig.symbols[kind]) # Header.symbols[kind]
        <4> SUFFICES ASSUME Len(aig.symbols[kind]) = Header.symbols[kind] PROVE KindsRead(n)
          BY <1>3
        <4>1. \A m \in 1..n : m = n \/ m \in 1..(n - 1)
          OBVIOUS
        <4>2. /\ LatchesRead
              /\ \A m \in 1..(n - 1) : Len(aig.symbols[Kinds[m]]) = Header.symbols[Kinds[m]]
          BY <1>3 DEF KindsRead
        <4> QED
          BY <4>1, <4>2 DEF KindsRead
      <3>2. Len(aig.symbols[kind]) <= Header.symbols[kind]
        BY <1>1, <1>5 DEF Sections
      <3>3. Len(aig.symbols[kind]) \in Nat /\ Header.symbols[kind] \in Nat
        BY <1>1, <1>5, HeaderParts, GraphEntries DEF GraphOK
      <3>4. ~SymbolsRead
        BY <3>1, KindNames DEF SymbolsRead, KindsRead
      <3> QED
        BY <3>1, <3>2, <3>3, <3>4
    <2>3. /\ aig.maxvar \in Nat /\ aig.symbols \in [ToSet(Kinds) -> Seq(Seq(LitsOf(aig)))]
          /\ Header.maxvar \in Nat /\ \A x \in ToSet(Kinds) : Header.symbols[x] \in Nat
          /\ Len(aig.ands) = 0 /\ Header.ands \in Nat
      BY <1>1, <2>2, HeaderParts, GraphParts, LaterSectionsEmpty DEF GraphOK
    <2>4. /\ GraphOK(aig') /\ Corresponds(aig', types') /\ NoMarks(aig', types')
          /\ aig'.inputs = aig.inputs /\ aig'.latches = aig.latches /\ aig'.ands = aig.ands
          /\ aig'.names = aig.names
          /\ aig'.symbols = [aig.symbols EXCEPT ![kind] = Append(aig.symbols[kind], lits)]
          /\ aig.maxvar <= aig'.maxvar
          /\ aig'.maxvar = aig.maxvar \/ /\ aig'.maxvar > aig.maxvar
                                         /\ \E k \in 1..Len(lits) : aig'.maxvar = Var(lits[k])
      <3> HIDE DEF kind
      <3> QED
        BY <1>1, <1>2, <1>5, <2>1, AddSymbolKeeps
    <2>5. aig'.maxvar \in Nat
      BY <2>4, GraphParts DEF GraphOK
    <2>6. Header' = Header /\ Ascii' = Ascii /\ LatchesRead' /\ InputsRead' /\ InputsRead
      BY <1>4, <2>4 DEF Header, Ascii, LatchesRead, InputsRead
    <2> DEFINE s == aig.symbols[kind]
    <2>7. /\ aig'.symbols[kind] = Append(s, lits)
          /\ \A x \in ToSet(Kinds) : x # kind => aig'.symbols[x] = aig.symbols[x]
      BY <1>5, <2>3, <2>4
    <2> HIDE DEF kind
    <2>8. /\ Len(Append(s, lits)) = Len(s) + 1 /\ Append(s, lits)[Len(s) + 1] = lits
          /\ \A k \in 1..Len(s) : Append(s, lits)[k] = s[k]
      <3>1. \A a \in Seq(Seq(Nat)) : \A e \in Seq(Nat) :
              /\ Len(Append(a, e)) = Len(a) + 1 /\ Append(a, e)[Len(a) + 1] = e
              /\ \A k \in 1..Len(a) : Append(a, e)[k] = a[k]
        BY AppendProperties
      <3>2. s \in Seq(Seq(Nat)) /\ lits \in Seq(Nat)
        <4>1. LitsOf(aig) \subseteq Nat /\ 0..(Word - 1) \subseteq Nat
          BY <2>3 DEF LitsOf
        <4>2. Seq(LitsOf(aig)) \subseteq Seq(Nat) /\ Seq(Seq(LitsOf(aig))) \subseteq Seq(Seq(Nat))
          BY <4>1, SeqMonotonic
        <4>3. Seq(0..(Word - 1)) \subseteq Seq(Nat)
          BY <4>1, SeqMonotonic
        <4> QED
          BY <1>2, <1>5, <2>3, <4>2, <4>3
      <3> QED
        BY <3>1, <3>2
    <2>9. Sections'
      <3>1. \A x \in ToSet(Kinds) : Len(aig'.symbols[x]) <= Header.symbols[x]
        <4> SUFFICES ASSUME NEW x \in ToSet(Kinds) PROVE Len(aig'.symbols[x]) <= Header.symbols[x]
          OBVIOUS
        <4>1. CASE x = kind
          BY <2>2, <2>7, <2>8, <4>1, SMTT(20)
        <4>2. CASE x # kind
          BY <1>1, <2>7, <4>2 DEF Sections
        <4> QED
          BY <4>1, <4>2
      <3> QED
        BY <1>1, <2>3, <2>4, <2>6, <3>1 DEF Sections
    <2>10. Maximum'
      <3>1. Header.maxvar <= aig'.maxvar
        BY <1>1, <2>3, <2>4, <2>5 DEF Maximum
      <3>2. ASSUME aig'.maxvar # Header.maxvar
            PROVE  \E k \in 1..Len(aig'.symbols["justice"]) : \E m \in 1..Len(aig'.symbols["justice"][k]) :
                     Var(aig'.symbols["justice"][k][m]) = aig'.maxvar
        <4>1. CASE kind = "justice"
          <5>1. CASE aig'.maxvar = aig.maxvar
            <6>1. PICK k \in 1..Len(s) : \E m \in 1..Len(s[k]) : Var(s[k][m]) = aig.maxvar
              BY <1>1, <3>2, <4>1, <5>1 DEF Maximum
            <6>2. k \in 1..Len(Append(s, lits)) /\ Append(s, lits)[k] = s[k]
              BY <2>2, <2>8, <6>1
            <6> QED
              BY <2>7, <4>1, <5>1, <6>1, <6>2
          <5>2. CASE aig'.maxvar # aig.maxvar
            <6>1. PICK m \in 1..Len(lits) : aig'.maxvar = Var(lits[m])
              BY <2>4, <5>2
            <6>2. Len(s) + 1 \in 1..Len(Append(s, lits)) /\ Append(s, lits)[Len(s) + 1] = lits
              BY <2>2, <2>8
            <6> QED
              BY <2>7, <4>1, <6>1, <6>2
          <5> QED
            BY <5>1, <5>2
        <4>2. CASE kind # "justice"
          <5>1. aig'.symbols["justice"] = aig.symbols["justice"]
            BY <2>7, <4>2, KindNames
          <5>2. aig'.maxvar = aig.maxvar
            <6>1. Len(lits) = 1 /\ InRange(lits[1])
              BY <1>7, <4>2
            <6>2. \A k \in 1..Len(lits) : k = 1 /\ Var(lits[k]) <= aig.maxvar /\ Var(lits[k]) \in Nat
              BY <1>2, <6>1, Literals DEF InRange
            <6>3. ~\E k \in 1..Len(lits) : aig'.maxvar = Var(lits[k]) /\ aig'.maxvar > aig.maxvar
              BY <2>3, <2>5, <6>2
            <6> HIDE DEF lits
            <6> QED
              BY <2>4, <6>3
          <5> QED
            BY <1>1, <3>2, <5>1, <5>2 DEF Maximum
        <4> QED
          BY <4>1, <4>2
      <3> QED
        BY <1>1, <2>4, <2>6, <3>1, <3>2 DEF Maximum
    <2>11. Consecutive'
      BY <1>1, <2>4, <2>6 DEF Consecutive
    <2>12. line' \in Nat \ {0}
      BY <1>1, <1>4
    <2> QED
      BY <1>1, <1>4, <2>1, <2>4, <2>9, <2>10, <2>11, <2>12 DEF ReadPhase, GraphPhase
  <1> QED
    BY <1>6, <1>7

\* An and has been accepted.
LEMMA AndAdded ==
    ASSUME IsFile(file), ReadPhase, SymbolsRead, ~AndsRead,
           NEW v \in 1..aig.maxvar, types[v].is = "none",
           NEW rhs0 \in LitsOf(aig), NEW rhs1 \in LitsOf(aig), AddAnd(2 * v, rhs0, rhs1),
           UNCHANGED <<stack, file>>, line' \in Nat \ {0},
           ~Ascii => v = Header.inputs + Header.latches + (Len(aig.ands) + 1)
    PROVE  ReadPhase'
  <1>1. /\ GraphOK(aig) /\ Corresponds(aig, types) /\ NoMarks(aig, types)
        /\ Sections /\ Maximum /\ Consecutive /\ stack = <<>>
    BY DEF ReadPhase, GraphPhase
  <1> DEFINE n == Len(aig.ands)
  <1>2. /\ GraphOK(aig') /\ Corresponds(aig', types') /\ NoMarks(aig', types')
        /\ aig'.maxvar = aig.maxvar /\ aig'.inputs = aig.inputs /\ aig'.latches = aig.latches
        /\ aig'.symbols = aig.symbols /\ aig'.names = aig.names
        /\ Len(aig'.ands) = n + 1
        /\ aig'.ands[n + 1] = [lhs |-> 2 * v, rhs0 |-> rhs0, rhs1 |-> rhs1]
        /\ \A k \in 1..n : aig'.ands[k] = aig.ands[k]
    BY <1>1, AddAndKeeps
  <1> HIDE DEF n
  <1>3. n \in Nat /\ LatchesRead /\ InputsRead
    BY LaterSectionsEmpty DEF n
  <1>4. Header.inputs \in Nat /\ Header.latches \in Nat /\ Header.ands \in Nat /\ v \in Nat
    <2>1. aig.maxvar \in Nat
      BY <1>1, GraphParts DEF GraphOK
    <2> QED
      BY <2>1, HeaderParts
  <1>5. /\ Header' = Header /\ Ascii' = Ascii /\ InputsRead' /\ LatchesRead' /\ SymbolsRead'
    <2>1. Header' = Header /\ Ascii' = Ascii
      BY DEF Header, Ascii
    <2>2. InputsRead' /\ LatchesRead'
      BY <1>2, <1>3, <2>1 DEF InputsRead, LatchesRead
    <2> QED
      BY <1>2, <2>1, <2>2 DEF SymbolsRead, KindsRead
  <1>6. n < Header.ands
    <2>1. n <= Header.ands /\ n # Header.ands
      BY <1>1, <1>3, <1>4 DEF Sections, AndsRead, n
    <2> QED
      BY <1>3, <1>4, <2>1
  <1>7. aig'.ands[n + 1].lhs = 2 * v
    BY <1>2
  <1>8. Sections'
    <2>1. Len(aig'.ands) <= Header.ands
      BY <1>2, <1>3, <1>4, <1>6
    <2> QED
      BY <1>1, <1>2, <1>5, <2>1 DEF Sections
  <1>9. Maximum'
    BY <1>1, <1>2, <1>5 DEF Maximum
  <1>10. Consecutive'
    <2> SUFFICES ASSUME ~Ascii PROVE Consecutive'
      BY <1>5 DEF Consecutive
    <2>1. \A k \in 1..Len(aig'.ands) : aig'.ands[k].lhs = 2 * (Header.inputs + Header.latches + k)
      <3>1. 2 * v = 2 * (Header.inputs + Header.latches + (n + 1))
        BY <1>3, <1>4 DEF n
      <3>2. \A k \in 1..n : aig.ands[k].lhs = 2 * (Header.inputs + Header.latches + k)
        BY <1>1 DEF Consecutive, n
      <3>3. \A k \in 1..Len(aig'.ands) : k = n + 1 \/ k \in 1..n
        BY <1>2, <1>3
      <3> QED
        BY <1>2, <1>7, <3>1, <3>2, <3>3
    <2> QED
      BY <1>1, <1>2, <1>5, <2>1 DEF Consecutive
  <1> QED
    BY <1>1, <1>2, <1>8, <1>9, <1>10 DEF ReadPhase, GraphPhase

\* ReadAsciiAnd.
LEMMA AsciiAndStep ==
    ASSUME IsFile(file), ReadPhase, ReadAsciiAnd
    PROVE  Failed \/ (at' = "read" /\ ReadPhase')
  <1> DEFINE ns == Numbers
             ok == Len(ns) = 3 /\ Definable(ns[1]) /\ InRange(ns[2]) /\ InRange(ns[3])
  <1>1. /\ at = "read" /\ SymbolsRead /\ ~AndsRead /\ Ascii /\ UNCHANGED <<stack, file>> /\ line' = line + 1
        /\ Read(ok, AddAnd(ns[1], ns[2], ns[3])) /\ GraphPhase /\ line \in Nat \ {0}
    BY DEF ReadAsciiAnd, ReadPhase
  <1>2. CASE ~ok
    <2> HIDE DEF ok
    <2> QED
      BY <1>1, <1>2 DEF Read, Failed
  <1>3. CASE ok
    <2>1. AddAnd(ns[1], ns[2], ns[3]) /\ at' = "read"
      <3> HIDE DEF ok
      <3> QED
        BY <1>1, <1>3 DEF Read
    <2>2. ns[1] \in Nat /\ ns[2] \in Nat /\ ns[3] \in Nat
      <3>1. \A k \in 1..Len(ns) : ns[k] \in Nat
        BY <1>1, NumbersType
      <3> QED
        BY <1>3, <3>1
    <2> DEFINE v == Var(ns[1])
    <2>3. ns[1] = 2 * v /\ v \in 1..aig.maxvar /\ types[v].is = "none"
          /\ ns[2] \in LitsOf(aig) /\ ns[3] \in LitsOf(aig)
      BY <1>1, <1>3, <2>2, DefinableVar, InRangeLit
    <2>4. AddAnd(2 * v, ns[2], ns[3]) /\ line' \in Nat \ {0}
      BY <1>1, <2>1, <2>3
    <2> HIDE DEF v, ns
    <2> QED
      BY <1>1, <2>1, <2>3, <2>4, AndAdded
  <1> QED
    BY <1>2, <1>3

\* ReadBinaryAnd.
LEMMA BinaryAndStep ==
    ASSUME IsFile(file), ReadPhase, ReadBinaryAnd
    PROVE  Failed \/ (at' = "read" /\ ReadPhase')
  <1> DEFINE n == Len(aig.ands) + 1
             v == Header.inputs + Header.latches + n
             here(k) == 2 * n - 2 + k
             accepted(k) == here(k) <= Len(file.codes) /\
                            DeltaAccepted(file.codes[here(k)], ~file.cut \/ here(k) < Len(file.codes))
             delta(k) == ReadDelta(file.codes[here(k)])
             rhs0 == 2 * v - delta(1)
             rhs1 == rhs0 - delta(2)
             ok == accepted(1) /\ delta(1) <= 2 * v /\ accepted(2) /\ delta(2) <= rhs0
  <1>1. /\ at = "read" /\ SymbolsRead /\ ~AndsRead /\ ~Ascii /\ UNCHANGED <<stack, file, line>>
        /\ Read(ok, AddAnd(2 * v, rhs0, rhs1))
    BY DEF ReadBinaryAnd
  <1>2. CASE ~ok
    <2> HIDE DEF ok
    <2> QED
      BY <1>1, <1>2 DEF Read, Failed
  <1>3. CASE ok
    <2>1. AddAnd(2 * v, rhs0, rhs1) /\ at' = "read"
      <3> HIDE DEF ok
      <3> QED
        BY <1>1, <1>3 DEF Read
    <2>2. /\ Len(aig.inputs) \in Nat /\ Len(aig.latches) \in Nat /\ Len(aig.ands) \in Nat
          /\ Header.inputs \in Nat /\ Header.latches \in Nat /\ Header.ands \in Nat /\ Header.maxvar \in Nat
          /\ aig.maxvar \in Nat /\ file.codes \in Seq(Seq(Nat)) /\ line \in Nat \ {0}
          /\ Len(aig.inputs) = Header.inputs /\ Len(aig.latches) = Header.latches
      BY <1>1, LaterSectionsEmpty, HeaderParts, GraphParts
      DEF ReadPhase, GraphPhase, GraphOK, IsFile, LatchesRead, InputsRead
    <2>3. n <= Header.ands /\ n \in Nat
      <3>1. Len(aig.ands) <= Header.ands /\ Len(aig.ands) # Header.ands
        BY <1>1 DEF ReadPhase, Sections, AndsRead
      <3> QED
        BY <2>2, <3>1
    <2>4. Header.maxvar = Header.inputs + Header.latches + Header.ands /\ Header.maxvar <= aig.maxvar
      BY <1>1 DEF ReadPhase, Consecutive, Maximum
    <2>5. v \in 1..aig.maxvar /\ v \in Nat
      <3> HIDE DEF n
      <3>1. \A i \in Nat : \A l \in Nat : \A a \in Nat : \A k \in Nat : \A m \in Nat : \A h \in Nat :
              k <= a /\ h = i + l + a /\ h <= m /\ k # 0 => i + l + k \in 1..m /\ i + l + k \in Nat
        OBVIOUS
      <3>2. n # 0
        BY <2>2 DEF n
      <3> QED
        BY <2>2, <2>3, <2>4, <3>1, <3>2
    <2>6. ASSUME NEW k \in {1, 2} PROVE accepted(k) => delta(k) \in Nat
      <3> SUFFICES ASSUME accepted(k) PROVE delta(k) \in Nat
        OBVIOUS
      <3>1. here(k) \in 1..Len(file.codes)
        <4>1. here(k) \in Nat \ {0}
          <5>1. \A i \in Nat \ {0} : \A j \in {1, 2} : 2 * i - 2 + j \in Nat \ {0}
            OBVIOUS
          <5>2. n \in Nat \ {0}
            BY <2>2
          <5> HIDE DEF n
          <5> QED
            BY <5>1, <5>2
        <4>2. here(k) <= Len(file.codes)
          OBVIOUS
        <4> HIDE DEF here
        <4>3. Len(file.codes) \in Nat
          BY <2>2
        <4> QED
          BY <4>1, <4>2, <4>3
      <3>2. file.codes[here(k)] \in Seq(Nat)
        BY <2>2, <3>1, ElementOfSeq
      <3> QED
        BY <3>2, ReadDeltaType, LenProperties
    <2>7. delta(1) \in Nat /\ delta(1) <= 2 * v /\ delta(2) \in Nat /\ delta(2) <= rhs0
      BY <1>3, <2>6
    <2> DEFINE d1 == delta(1)  d2 == delta(2)
    <2>8. rhs0 = 2 * v - d1 /\ rhs1 = rhs0 - d2 /\ d1 \in Nat /\ d1 <= 2 * v /\ d2 \in Nat /\ d2 <= rhs0
      BY <2>7
    <2> HIDE DEF d1, d2, rhs0, rhs1
    <2>9. rhs0 \in LitsOf(aig) /\ rhs1 \in LitsOf(aig)
      <3> HIDE DEF v
      <3>1. rhs0 \in Nat /\ rhs0 <= 2 * v
        BY <2>5, <2>8
      <3>2. rhs1 \in Nat /\ rhs1 <= 2 * v
        BY <2>5, <2>8, <3>1
      <3>3. 2 * v <= 2 * aig.maxvar + 1
        BY <2>2, <2>5
      <3> QED
        BY <2>2, <2>5, <3>1, <3>2, <3>3, SMTT(20) DEF LitsOf
    <2>10. types[v].is = "none"
      <3>1. /\ Len(aig.inputs) < v
            /\ Len(aig.latches) # 0 => Header.inputs + Len(aig.latches) < v
            /\ Len(aig.ands) # 0 => Header.inputs + Header.latches + Len(aig.ands) < v
        <4>1. \A i \in Nat : \A l \in Nat : \A a \in Nat :
                i < i + l + (a + 1) /\ i + l < i + l + (a + 1) /\ i + l + a < i + l + (a + 1)
          OBVIOUS
        <4> QED
          BY <2>2, <4>1
      <3> HIDE DEF v
      <3> QED
        BY <1>1, <2>5, <3>1, BehindAll
    <2>11. v = Header.inputs + Header.latches + (Len(aig.ands) + 1)
      OBVIOUS
    <2>12. line' \in Nat \ {0}
      BY <1>1, <2>2
    <2> HIDE DEF v
    <2> QED
      BY <1>1, <2>1, <2>5, <2>9, <2>10, <2>11, <2>12, AndAdded
  <1> QED
    BY <1>2, <1>3

\* The entries that define variables as a sequence.
LEMMA DefinedInTurn ==
    ASSUME NEW a, IsGraph(a)
    PROVE  LET d == Sources(a) \o LhsLits(a)
               I == Len(a.inputs)  L == Len(a.latches)  N == Len(a.ands) IN
           /\ Sources(a) \in Seq(LitsOf(a)) /\ Len(Sources(a)) = I + L
           /\ \A k \in 1..I : Sources(a)[k] = a.inputs[k]
           /\ \A k \in 1..L : Sources(a)[I + k] = a.latches[k].lit
           /\ d \in Seq(LitsOf(a)) /\ Len(d) = I + L + N
           /\ \A k \in 1..(I + L) : d[k] = Sources(a)[k]
           /\ \A k \in 1..N : d[I + L + k] = a.ands[k].lhs
  <1> DEFINE I == Len(a.inputs)  L == Len(a.latches)  N == Len(a.ands)
             A == LitsOf(a)
  <1>1. /\ I \in Nat /\ L \in Nat /\ N \in Nat /\ a.inputs \in Seq(A)
        /\ \A k \in 1..L : a.latches[k].lit \in A
        /\ \A k \in 1..N : a.ands[k].lhs \in A
    BY GraphParts, GraphEntries
  <1>2. /\ LatchLits(a) \in Seq(A) /\ Len(LatchLits(a)) = L
        /\ \A k \in 1..L : LatchLits(a)[k] = a.latches[k].lit
    <2>1. LatchLits(a) = [k \in 1..L |-> a.latches[k].lit]
      BY DEF LatchLits
    <2> HIDE DEF L, A
    <2> QED
      BY <1>1, <2>1
  <1>3. /\ LhsLits(a) \in Seq(A) /\ Len(LhsLits(a)) = N
        /\ \A k \in 1..N : LhsLits(a)[k] = a.ands[k].lhs
    <2>1. LhsLits(a) = [k \in 1..N |-> a.ands[k].lhs]
      BY DEF LhsLits
    <2> HIDE DEF N, A
    <2> QED
      BY <1>1, <2>1
  <1> HIDE DEF A, I, L, N
  <1>4. \A s, t \in Seq(A) :
          /\ s \o t \in Seq(A) /\ Len(s) \in Nat /\ Len(t) \in Nat /\ Len(s \o t) = Len(s) + Len(t)
          /\ \A k \in 1..Len(s) : (s \o t)[k] = s[k]
          /\ \A k \in 1..Len(t) : (s \o t)[Len(s) + k] = t[k]
    <2> SUFFICES ASSUME NEW s \in Seq(A), NEW t \in Seq(A)
                 PROVE /\ s \o t \in Seq(A) /\ Len(s) \in Nat /\ Len(t) \in Nat /\ Len(s \o t) = Len(s) + Len(t)
                       /\ \A k \in 1..Len(s) : (s \o t)[k] = s[k]
                       /\ \A k \in 1..Len(t) : (s \o t)[Len(s) + k] = t[k]
      OBVIOUS
    <2>1. /\ s \o t \in Seq(A) /\ Len(s) \in Nat /\ Len(t) \in Nat /\ Len(s \o t) = Len(s) + Len(t)
          /\ \A i \in 1..(Len(s) + Len(t)) : (s \o t)[i] = IF i <= Len(s) THEN s[i] ELSE t[i - Len(s)]
      BY ConcatProperties, LenProperties
    <2>2. \A k \in 1..Len(t) : Len(s) + k \in 1..(Len(s) + Len(t)) /\ ~(Len(s) + k <= Len(s)) /\ Len(s) + k - Len(s) = k
      BY <2>1
    <2>3. \A k \in 1..Len(s) : k \in 1..(Len(s) + Len(t)) /\ k <= Len(s)
      BY <2>1
    <2> QED
      BY <2>1, <2>2, <2>3
  <1> DEFINE s == Sources(a)
  <1>5. /\ s \in Seq(A) /\ Len(s) = I + L
        /\ \A k \in 1..I : s[k] = a.inputs[k]
        /\ \A k \in 1..L : s[I + k] = a.latches[k].lit
    <2>1. s = a.inputs \o LatchLits(a) /\ Len(a.inputs) = I
      BY DEF Sources, I
    <2> DEFINE u == a.inputs  w == LatchLits(a)
    <2>2. u \in Seq(A) /\ w \in Seq(A) /\ Len(u) = I /\ Len(w) = L
      BY <1>1, <1>2, <2>1
    <2> HIDE DEF u, w
    <2>3. /\ u \o w \in Seq(A) /\ Len(u \o w) = I + L
          /\ \A k \in 1..I : (u \o w)[k] = u[k]
          /\ \A k \in 1..L : (u \o w)[I + k] = w[k]
      BY <1>4, <2>2
    <2>4. s = u \o w
      BY <2>1 DEF u, w
    <2>5. (\A k \in 1..L : w[k] = a.latches[k].lit) /\ u = a.inputs
      BY <1>2 DEF w, u
    <2> HIDE DEF s
    <2> QED
      BY <2>3, <2>4, <2>5
  <1> HIDE DEF s
  <1>6. /\ s \o LhsLits(a) \in Seq(A) /\ Len(s \o LhsLits(a)) = I + L + N
        /\ \A k \in 1..(I + L) : (s \o LhsLits(a))[k] = s[k]
        /\ \A k \in 1..N : (s \o LhsLits(a))[I + L + k] = a.ands[k].lhs
    <2> DEFINE w == LhsLits(a)
    <2>1. w \in Seq(A) /\ Len(w) = N /\ \A k \in 1..N : w[k] = a.ands[k].lhs
      BY <1>3
    <2> HIDE DEF w
    <2>2. /\ s \o w \in Seq(A) /\ Len(s \o w) = Len(s) + Len(w)
          /\ \A k \in 1..Len(s) : (s \o w)[k] = s[k]
          /\ \A k \in 1..Len(w) : (s \o w)[Len(s) + k] = w[k]
      BY <1>4, <1>5, <2>1
    <2>3. /\ s \o w \in Seq(A) /\ Len(s \o w) = I + L + N
          /\ \A k \in 1..(I + L) : (s \o w)[k] = s[k]
          /\ \A k \in 1..N : (s \o w)[I + L + k] = a.ands[k].lhs
      BY <1>5, <2>1, <2>2
    <2> QED
      BY <2>3 DEF w
  <1> QED
    BY <1>5, <1>6 DEF A, s, I, L, N

\* No variable is defined twice, and none beyond the maximum.
LEMMA DefinedOnce ==
    ASSUME NEW a, NEW t, IsGraph(a), Corresponds(a, t)
    PROVE  LET d == Sources(a) \o LhsLits(a) IN
           /\ IsInjective(d)
           /\ \A lit \in ToSet(d) : ~IsNeg(lit) /\ lit = 2 * Var(lit) /\ Var(lit) \in 1..a.maxvar
           /\ \A lit \in ToSet(Sources(a)) : \/ \E k \in 1..Len(a.inputs) : lit = a.inputs[k]
                                             \/ \E k \in 1..Len(a.latches) : lit = a.latches[k].lit
  <1> DEFINE I == Len(a.inputs)  L == Len(a.latches)  N == Len(a.ands)
             s == Sources(a)  d == s \o LhsLits(a)
             off(w) == IF w = "input" THEN 0 ELSE IF w = "latch" THEN I ELSE I + L
  <1>1. I \in Nat /\ L \in Nat /\ N \in Nat /\ a.maxvar \in Nat
    BY GraphParts, GraphEntries
  <1>2. /\ s \in Seq(LitsOf(a)) /\ Len(s) = I + L
        /\ \A k \in 1..I : s[k] = a.inputs[k]
        /\ \A k \in 1..L : s[I + k] = a.latches[k].lit
        /\ d \in Seq(LitsOf(a)) /\ Len(d) = I + L + N
        /\ \A k \in 1..(I + L) : d[k] = s[k]
        /\ \A k \in 1..N : d[I + L + k] = a.ands[k].lhs
    BY DefinedInTurn
  <1> HIDE DEF s, d, I, L, N
  <1>3. ASSUME NEW k \in 1..(I + L)
        PROVE  \/ k \in 1..I /\ s[k] = a.inputs[k]
               \/ k - I \in 1..L /\ s[k] = a.latches[k - I].lit /\ ~(k \in 1..I)
    <2>1. CASE k <= I
      BY <1>1, <1>2, <2>1
    <2>2. CASE ~(k <= I)
      <3>1. k - I \in 1..L /\ I + (k - I) = k
        BY <1>1, <2>2
      <3> QED
        BY <1>1, <1>2, <2>2, <3>1
    <2> QED
      BY <2>1, <2>2
  <1>4. ASSUME NEW k \in 1..(I + L + N)
        PROVE  \E w \in Whats : \E j \in 1..Count(a, w) : k = off(w) + j /\ d[k] = Defined(a, w, j)
    <2>1. CASE k <= I + L
      <3>1. k \in 1..(I + L) /\ d[k] = s[k]
        BY <1>1, <1>2, <2>1
      <3>2. CASE k \in 1..I /\ s[k] = a.inputs[k]
        <4>1. "input" \in Whats /\ k \in 1..Count(a, "input") /\ k = off("input") + k
              /\ d[k] = Defined(a, "input", k)
          BY <1>1, <3>1, <3>2 DEF Whats, Count, Defined, I
        <4> QED
          BY <4>1
      <3>3. CASE k - I \in 1..L /\ s[k] = a.latches[k - I].lit
        <4>1. "latch" \in Whats /\ k - I \in 1..Count(a, "latch") /\ k = off("latch") + (k - I)
              /\ d[k] = Defined(a, "latch", k - I)
          BY <1>1, <3>1, <3>3 DEF Whats, Count, Defined, L
        <4> QED
          BY <4>1
      <3> QED
        BY <1>3, <3>1, <3>2, <3>3
    <2>2. CASE ~(k <= I + L)
      <3>1. k - (I + L) \in 1..N /\ I + L + (k - (I + L)) = k
        BY <1>1, <2>2
      <3>2. d[k] = a.ands[k - (I + L)].lhs
        BY <1>2, <3>1
      <3>3. "and" \in Whats /\ k - (I + L) \in 1..Count(a, "and") /\ k = off("and") + (k - (I + L))
            /\ d[k] = Defined(a, "and", k - (I + L))
        BY <1>1, <2>2, <3>1, <3>2 DEF Whats, Count, Defined, N
      <3> QED
        BY <3>3
    <2> QED
      BY <2>1, <2>2
  <1>5. \A w \in Whats : \A j \in 1..Count(a, w) : Placed(a, t, w, j)
    BY DEF Corresponds
  <1>6. IsInjective(d)
    <2> SUFFICES ASSUME NEW k \in 1..(I + L + N), NEW l \in 1..(I + L + N), d[k] = d[l]
                 PROVE  k = l
      BY <1>2 DEF IsInjective
    <2>1. PICK w \in Whats : \E j \in 1..Count(a, w) : k = off(w) + j /\ d[k] = Defined(a, w, j)
      BY <1>4
    <2>2. PICK j \in 1..Count(a, w) : k = off(w) + j /\ d[k] = Defined(a, w, j)
      BY <2>1
    <2>3. PICK x \in Whats : \E m \in 1..Count(a, x) : l = off(x) + m /\ d[l] = Defined(a, x, m)
      BY <1>4
    <2>4. PICK m \in 1..Count(a, x) : l = off(x) + m /\ d[l] = Defined(a, x, m)
      BY <2>3
    <2> HIDE DEF off
    <2>5. w = x /\ j = m
      BY <1>5, <2>2, <2>4 DEF Placed
    <2> QED
      BY <2>2, <2>4, <2>5
  <1>7. ASSUME NEW lit \in ToSet(d) PROVE ~IsNeg(lit) /\ lit = 2 * Var(lit) /\ Var(lit) \in 1..a.maxvar
    <2>1. PICK k \in 1..(I + L + N) : lit = d[k]
      BY <1>2, SetOfSeq
    <2>2. PICK w \in Whats : \E j \in 1..Count(a, w) : d[k] = Defined(a, w, j)
      BY <1>4
    <2>3. lit = 2 * Var(lit) /\ Var(lit) \in 1..a.maxvar
      BY <1>5, <2>1, <2>2 DEF Placed
    <2>4. Var(lit) \in Nat
      BY <1>1, <2>3
    <2> QED
      BY <2>3, <2>4, Doubled
  <1>8. ASSUME NEW lit \in ToSet(s)
        PROVE  \/ \E k \in 1..Len(a.inputs) : lit = a.inputs[k]
               \/ \E k \in 1..Len(a.latches) : lit = a.latches[k].lit
    <2>1. PICK k \in 1..(I + L) : lit = s[k]
      BY <1>2, SetOfSeq
    <2> QED
      BY <1>3, <2>1 DEF I, L
  <1> QED
    BY <1>6, <1>7, <1>8 DEF d, s

CheckStart == GraphPhase /\ NoMarks(aig, types) /\ stack = <<>>

\* A name that is read is one, its place wrapped or not.
LEMMA NamesSeenAre ==
    ASSUME IsFile(file)
    PROVE  /\ NamesSeen \in Seq(Names) /\ Len(NamesSeen) = Len(file.names)
           /\ \A k \in 1..Len(NamesSeen) :
                /\ file.names[k] \in Names
                /\ NamesSeen[k] = [kind |-> file.names[k].kind, place |-> Wrapped(file.names[k].place - 1) + 1]
  <1>1. file.names \in Seq(Names)
    BY DEF IsFile, Names
  <1>2. Len(file.names) \in Nat /\ \A k \in 1..Len(file.names) : file.names[k] \in Names
    BY <1>1, LenProperties, ElementOfSeq
  <1>3. \A n \in Nat : Wrapped(n) \in Nat
    BY WordIs DEF Wrapped
  <1>4. \A n \in Names : LET r == [n EXCEPT !.place = Wrapped(@ - 1) + 1] IN
          r \in Names /\ r = [kind |-> n.kind, place |-> Wrapped(n.place - 1) + 1]
    <2> SUFFICES ASSUME NEW n \in Names
                 PROVE  LET r == [n EXCEPT !.place = Wrapped(@ - 1) + 1] IN
                        r \in Names /\ r = [kind |-> n.kind, place |-> Wrapped(n.place - 1) + 1]
      OBVIOUS
    <2>1. n.place - 1 \in Nat /\ n = [kind |-> n.kind, place |-> n.place]
      BY DEF Names
    <2>2. Wrapped(n.place - 1) + 1 \in Nat \ {0}
      BY <1>3, <2>1
    <2> QED
      BY <2>2 DEF Names
  <1> DEFINE N == Len(file.names)
             seen(k) == [file.names[k] EXCEPT !.place = Wrapped(@ - 1) + 1]
  <1>5. NamesSeen = [k \in 1..N |-> seen(k)] /\ \A k \in 1..N : seen(k) \in Names
    BY <1>2, <1>4 DEF NamesSeen
  <1>6. \A k \in 1..N : seen(k) = [kind |-> file.names[k].kind, place |-> Wrapped(file.names[k].place - 1) + 1]
    BY <1>2, <1>4
  <1> HIDE DEF N, seen
  <1>7. NamesSeen \in Seq(Names) /\ Len(NamesSeen) = N /\ \A k \in 1..N : NamesSeen[k] = seen(k)
    BY <1>2, <1>5 DEF N
  <1> QED
    BY <1>2, <1>6, <1>7 DEF N

\* ReadNames: what is accepted now has all the entries its header announces.
LEMMA NamesStep ==
    ASSUME IsFile(file), ReadPhase, ReadNames
    PROVE  Failed \/ (at' = "check" /\ CheckStart' /\ AcceptedAsAnnounced')
  <1>1. /\ GraphOK(aig) /\ Corresponds(aig, types) /\ NoMarks(aig, types)
        /\ Sections /\ Maximum /\ stack = <<>> /\ IsGraph(aig)
    BY DEF ReadPhase, GraphPhase, GraphOK
  <1>2. AndsRead /\ UNCHANGED <<types, stack, file, line>>
    BY DEF ReadNames
  <1>3. CASE at' = "failed" /\ UNCHANGED aig
    BY <1>2, <1>3 DEF Failed
  <1>4. CASE aig' = [aig EXCEPT !.names = ToSet(NamesSeen)] /\ at' = "check"
    <2>1. aig = [maxvar |-> aig.maxvar, inputs |-> aig.inputs, latches |-> aig.latches,
                 symbols |-> aig.symbols, ands |-> aig.ands, names |-> aig.names]
      BY <1>1, GraphParts
    <2>2. /\ aig'.maxvar = aig.maxvar /\ aig'.inputs = aig.inputs /\ aig'.latches = aig.latches
          /\ aig'.symbols = aig.symbols /\ aig'.ands = aig.ands /\ aig'.names = ToSet(NamesSeen)
      BY <1>4, <2>1
    <2>3. ToSet(NamesSeen) \in SUBSET Names /\ IsFiniteSet(ToSet(NamesSeen))
      BY NamesSeenAre, SetOfSeq
    <2>4. IsGraph(aig')
      BY <1>1, <1>4, <2>3, GraphWith
    <2>5. GraphOK(aig')
      BY <1>1, <2>2, <2>3, <2>4 DEF GraphOK
    <2>6. Corresponds(aig', types') /\ NoMarks(aig', types')
      <3>1. \A w \in Whats : /\ Count(aig', w) = Count(aig, w)
                             /\ \A k : Defined(aig', w, k) = Defined(aig, w, k)
        BY <2>2 DEF Count, Defined
      <3> QED
        BY <1>1, <1>2, <2>2, <3>1 DEF Corresponds, Placed, Leads, NoMarks
    <2>7. Sources(aig') = Sources(aig) /\ LhsLits(aig') = LhsLits(aig) /\ HeaderOf(aig') = HeaderOf(aig)
      BY <2>2 DEF Sources, LatchLits, LhsLits, HeaderOf
    <2>8. HeaderOf(aig) = [Header EXCEPT !.maxvar = aig.maxvar]
      <3>1. /\ Header.symbols \in [ToSet(Kinds) -> Nat]
            /\ Header = [maxvar |-> Header.maxvar, inputs |-> Header.inputs, latches |-> Header.latches,
                         ands |-> Header.ands, symbols |-> Header.symbols]
        BY HeaderParts
      <3>2. /\ Len(aig.inputs) = Header.inputs /\ Len(aig.latches) = Header.latches /\ Len(aig.ands) = Header.ands
            /\ \A n \in 1..5 : Len(aig.symbols[Kinds[n]]) = Header.symbols[Kinds[n]]
        BY <1>2, KindNames DEF AndsRead, SymbolsRead, KindsRead, LatchesRead, InputsRead
      <3>3. \A kind \in ToSet(Kinds) : Len(aig.symbols[kind]) = Header.symbols[kind]
        BY <3>2, KindNames
      <3>4. [k \in ToSet(Kinds) |-> Len(aig.symbols[k])] = Header.symbols
        BY <3>1, <3>3
      <3>5. HeaderOf(aig) = [maxvar |-> aig.maxvar, inputs |-> Header.inputs, latches |-> Header.latches,
                             ands |-> Header.ands, symbols |-> Header.symbols]
        BY <3>2, <3>4 DEF HeaderOf
      <3>6. \A m, p, i, l, g, x : [[maxvar |-> p, inputs |-> i, latches |-> l, ands |-> g, symbols |-> x]
                                    EXCEPT !.maxvar = m]
                                  = [maxvar |-> m, inputs |-> i, latches |-> l, ands |-> g, symbols |-> x]
        OBVIOUS
      <3>7. [Header EXCEPT !.maxvar = aig.maxvar]
            = [maxvar |-> aig.maxvar, inputs |-> Header.inputs, latches |-> Header.latches,
               ands |-> Header.ands, symbols |-> Header.symbols]
        BY <3>1, <3>6
      <3> QED
        BY <3>5, <3>7
    <2>9. aig.maxvar # Header.maxvar =>
            \E lit \in ToSet(FlattenSeq(aig.symbols["justice"])) :
              Var(lit) = aig.maxvar /\ aig.maxvar > Header.maxvar
      <3> SUFFICES ASSUME aig.maxvar # Header.maxvar
                   PROVE \E lit \in ToSet(FlattenSeq(aig.symbols["justice"])) :
                           Var(lit) = aig.maxvar /\ aig.maxvar > Header.maxvar
        OBVIOUS
      <3> DEFINE s == aig.symbols["justice"]
      <3>1. PICK k \in 1..Len(s) : \E m \in 1..Len(s[k]) : Var(s[k][m]) = aig.maxvar
        BY <1>1 DEF Maximum
      <3>2. PICK m \in 1..Len(s[k]) : Var(s[k][m]) = aig.maxvar
        BY <3>1
      <3>3. s \in Seq(Seq(LitsOf(aig))) /\ s[k] \in Seq(LitsOf(aig))
        BY <1>1, KindNames, GraphEntries
      <3>4. s[k][m] \in ToSet(s[k])
        BY <3>3, SetOfSeq
      <3>5. s[k][m] \in ToSet(FlattenSeq(s))
        BY <3>3, <3>4, Flattened
      <3>6. aig.maxvar > Header.maxvar
        <4>1. aig.maxvar \in Nat /\ Header.maxvar \in Nat /\ Header.maxvar <= aig.maxvar
          BY <1>1, GraphParts, HeaderParts DEF Maximum
        <4> QED
          BY <4>1
      <3> QED
        BY <3>2, <3>5, <3>6
    <2>10. \A lit \in ToSet(Sources(aig)) : Var(lit) <= Header.maxvar
      BY <1>1, DefinedOnce DEF Maximum
    <2>11. /\ IsInjective(Sources(aig) \o LhsLits(aig))
           /\ \A lit \in ToSet(Sources(aig) \o LhsLits(aig)) : ~IsNeg(lit) /\ Var(lit) \in 1..aig.maxvar
      BY <1>1, DefinedOnce
    <2>12. Header' = Header
      BY <1>2 DEF Header
    <2>13. AcceptedAsAnnounced'
      BY <2>2, <2>7, <2>8, <2>9, <2>10, <2>11, <2>12 DEF AcceptedAsAnnounced
    <2> QED
      BY <1>1, <1>2, <1>4, <2>5, <2>6, <2>13 DEF CheckStart, GraphPhase
  <1> QED
    BY <1>3, <1>4 DEF ReadNames

\* One step of the reader.
LEMMA ReadStepKeeps ==
    ASSUME IsFile(file), ReadStep,
           at = "open" => aig = EmptyGraph /\ stack = <<>>,
           at = "read" => ReadPhase
    PROVE  /\ file' = file
           /\ \/ Failed
              \/ at' = "read" /\ ReadPhase'
              \/ at' = "check" /\ CheckStart' /\ AcceptedAsAnnounced'
  <1>1. CASE ReadHeader
    BY <1>1, HeaderStep DEF ReadHeader
  <1>2. CASE ReadInput
    BY <1>2, InputStep DEF ReadInput
  <1>3. CASE ReadLatch
    BY <1>3, LatchStep DEF ReadLatch
  <1>4. CASE ReadSymbol
    BY <1>4, SymbolStep DEF ReadSymbol
  <1>5. CASE ReadAsciiAnd
    BY <1>5, AsciiAndStep DEF ReadAsciiAnd
  <1>6. CASE ReadBinaryAnd
    BY <1>6, BinaryAndStep DEF ReadBinaryAnd
  <1>7. CASE ReadNames
    BY <1>7, NamesStep DEF ReadNames
  <1> QED
    BY <1>1, <1>2, <1>3, <1>4, <1>5, <1>6, <1>7 DEF ReadStep

(***************************************************************************)
(* The check.                                                              *)
(***************************************************************************)
MarksSet(t, e, x, y, u) ==
    \/ u = [t EXCEPT ![e].mark = x, ![e].onstack = y]
    \/ u = [t EXCEPT ![e].onstack = y] /\ x = t[e].mark
\* The marks of one variable are set.
LEMMA MarkSet ==
    ASSUME NEW D, NEW t \in [D -> Types], NEW e \in D, NEW x \in BOOLEAN, NEW y \in BOOLEAN, NEW u,
           MarksSet(t, e, x, y, u)
    PROVE  /\ u \in [D -> Types]
           /\ \A v \in D : u[v].is = t[v].is /\ u[v].idx = t[v].idx
           /\ \A v \in D : v # e => u[v] = t[v]
           /\ u[e].mark = x /\ u[e].onstack = y
  <1> USE DEF MarksSet
  <1>1. t[e] \in [is : {"none", "input", "latch", "and"}, idx : Nat, mark : BOOLEAN, onstack : BOOLEAN]
    BY DEF Types
  <1>2. DOMAIN t = D
    OBVIOUS
  <1>3. u = [t EXCEPT ![e] = u[e]] /\ u[e] = [is |-> t[e].is, idx |-> t[e].idx, mark |-> x, onstack |-> y]
    <2>1. CASE u = [t EXCEPT ![e].mark = x, ![e].onstack = y]
      BY <1>1, <1>2, <2>1
    <2>2. CASE u = [t EXCEPT ![e].onstack = y] /\ x = t[e].mark
      BY <1>1, <1>2, <2>2
    <2> QED
      BY <2>1, <2>2
  <1>4. t[e].is \in {"none", "input", "latch", "and"} /\ t[e].idx \in Nat
    BY <1>1
  <1>5. \A p \in {"none", "input", "latch", "and"} : \A i \in Nat : \A a \in BOOLEAN : \A b \in BOOLEAN :
          [is |-> p, idx |-> i, mark |-> a, onstack |-> b] \in Types
    BY DEF Types
  <1>6. u[e] \in Types
    BY <1>3, <1>4, <1>5
  <1>7. \A v \in D : v # e => u[v] = t[v]
    BY <1>2, <1>3
  <1>8. u[e].is = t[e].is /\ u[e].idx = t[e].idx /\ u[e].mark = x /\ u[e].onstack = y
    BY <1>3
  <1>9. u \in [D -> Types]
    BY <1>2, <1>3, <1>6
  <1> QED
    BY <1>7, <1>8, <1>9

\* The literals of symbols.
LEMMA SymbolLitsAre ==
    ASSUME NEW a, IsGraph(a)
    PROVE  /\ SymbolLits(a) \in Seq(LitsOf(a))
           /\ ToSet(SymbolLits(a)) = UNION {UNION {ToSet(a.symbols[kind][k]) : k \in 1..Len(a.symbols[kind])} : kind \in ToSet(Kinds)}
           /\ \A kind \in ToSet(Kinds) : \A k \in 1..Len(a.symbols[kind]) : \A m \in 1..Len(a.symbols[kind][k]) :
                a.symbols[kind][k][m] \in ToSet(SymbolLits(a))
  <1> DEFINE A == LitsOf(a)
             flat(n) == FlattenSeq(a.symbols[Kinds[n]])
             seqs == [n \in 1..Len(Kinds) |-> flat(n)]
             lits(kind) == UNION {ToSet(a.symbols[kind][k]) : k \in 1..Len(a.symbols[kind])}
  <1>1. \A kind \in ToSet(Kinds) : a.symbols[kind] \in Seq(Seq(A))
    BY GraphEntries
  <1>2. \A n \in 1..5 : flat(n) \in Seq(A) /\ ToSet(flat(n)) = lits(Kinds[n])
    <2> SUFFICES ASSUME NEW n \in 1..5 PROVE flat(n) \in Seq(A) /\ ToSet(flat(n)) = lits(Kinds[n])
      OBVIOUS
    <2> HIDE DEF A
    <2>1. a.symbols[Kinds[n]] \in Seq(Seq(A))
      BY <1>1, KindNames
    <2>2. /\ FlattenSeq(a.symbols[Kinds[n]]) \in Seq(A)
          /\ ToSet(FlattenSeq(a.symbols[Kinds[n]])) =
               UNION {ToSet(a.symbols[Kinds[n]][k]) : k \in 1..Len(a.symbols[Kinds[n]])}
      BY <2>1, Flattened
    <2> QED
      BY <2>2
  <1>3. seqs \in Seq(Seq(A)) /\ Len(seqs) = 5 /\ \A n \in 1..5 : seqs[n] = flat(n)
    <2> DEFINE S == Seq(A)
    <2>1. Len(Kinds) = 5
      BY KindNames
    <2> HIDE DEF flat, S
    <2>2. \A n \in 1..5 : flat(n) \in S
      BY <1>2 DEF S
    <2>3. seqs = [n \in 1..5 |-> flat(n)]
      BY <2>1
    <2> HIDE DEF seqs
    <2>4. seqs \in Seq(S) /\ Len(seqs) = 5 /\ \A n \in 1..5 : seqs[n] = flat(n)
      BY <2>2, <2>3
    <2> QED
      BY <2>4 DEF S
  <1>4. SymbolLits(a) = FlattenSeq(seqs)
    BY DEF SymbolLits
  <1> HIDE DEF seqs, lits, flat, A
  <1>5. SymbolLits(a) \in Seq(A) /\ ToSet(SymbolLits(a)) = UNION {ToSet(seqs[n]) : n \in 1..5}
    BY <1>3, <1>4, Flattened
  <1>6. UNION {ToSet(seqs[n]) : n \in 1..5} = UNION {lits(kind) : kind \in ToSet(Kinds)}
    <2>1. \A n \in 1..5 : ToSet(seqs[n]) = lits(Kinds[n])
      BY <1>2, <1>3
    <2>2. \A kind \in ToSet(Kinds) : \E n \in 1..5 : kind = Kinds[n]
      BY KindNames
    <2>3. \A n \in 1..5 : Kinds[n] \in ToSet(Kinds)
      BY KindNames
    <2> QED
      BY <2>1, <2>2, <2>3
  <1>7. ASSUME NEW kind \in ToSet(Kinds), NEW k \in 1..Len(a.symbols[kind]), NEW m \in 1..Len(a.symbols[kind][k])
        PROVE  a.symbols[kind][k][m] \in ToSet(SymbolLits(a))
    <2>1. a.symbols[kind][k] \in Seq(A)
      BY GraphEntries DEF A
    <2>2. a.symbols[kind][k][m] \in ToSet(a.symbols[kind][k])
      BY <2>1, SetOfSeq
    <2>3. a.symbols[kind][k][m] \in lits(kind)
      BY <2>2 DEF lits
    <2> QED
      BY <1>5, <1>6, <2>3
  <1> QED
    BY <1>5, <1>6, <1>7 DEF lits, A

\* A gate, and what it reads.
LEMMA GateReads ==
    ASSUME GraphPhase, NEW v \in GateVars
    PROVE  /\ v \in 1..aig.maxvar /\ v \in Nat \ {0} /\ types[v].idx \in 1..Len(aig.ands) /\ Gate(v).lhs = 2 * v
           /\ Var(Gate(v).rhs0) \in 0..aig.maxvar /\ Var(Gate(v).rhs1) \in 0..aig.maxvar
           /\ Gate(v).rhs0 \in LitsOf(aig) /\ Gate(v).rhs1 \in LitsOf(aig)
  <1>1. IsGraph(aig) /\ aig.maxvar \in Nat /\ Corresponds(aig, types)
    BY GraphParts DEF GraphPhase, GraphOK
  <1>2. v \in 1..aig.maxvar /\ types[v].is = "and" /\ v \in 0..aig.maxvar /\ v \in Nat \ {0}
    BY <1>1 DEF GateVars
  <1>3. types[v].idx \in 1..Len(aig.ands) /\ Gate(v).lhs = 2 * v
    BY <1>1, <1>2 DEF Corresponds, Leads, Whats, Count, Defined, Gate
  <1>4. Gate(v).rhs0 \in LitsOf(aig) /\ Gate(v).rhs1 \in LitsOf(aig)
    BY <1>1, <1>3, GraphEntries DEF Gate
  <1>5. \A lit \in LitsOf(aig) : Var(lit) \in 0..aig.maxvar
    <2> SUFFICES ASSUME NEW lit \in LitsOf(aig) PROVE Var(lit) \in 0..aig.maxvar
      OBVIOUS
    <2>1. lit \in Nat /\ lit \in 0..(2 * aig.maxvar + 1)
      BY <1>1 DEF LitsOf
    <2>2. Var(lit) \in Nat /\ Var(lit) <= aig.maxvar
      BY <1>1, <2>1, Literals
    <2> QED
      BY <1>1, <2>2
  <1> QED
    BY <1>2, <1>3, <1>4, <1>5

\* The variable of a literal of the graph.
LEMMA LitVar ==
    ASSUME GraphPhase, NEW lit \in LitsOf(aig)
    PROVE  lit \in Nat /\ Var(lit) \in 0..aig.maxvar /\ aig.maxvar \in Nat
  <1>1. aig.maxvar \in Nat
    BY GraphParts DEF GraphPhase, GraphOK
  <1>2. lit \in Nat /\ lit \in 0..(2 * aig.maxvar + 1)
    BY <1>1 DEF LitsOf
  <1>3. Var(lit) \in Nat /\ Var(lit) <= aig.maxvar
    BY <1>1, <1>2, Literals
  <1> QED
    BY <1>1, <1>2, <1>3

\* What changes the marks only.
LEMMA MarksOnly ==
    ASSUME GraphPhase, UNCHANGED aig, types' \in [0..aig.maxvar -> Types],
           \A v \in 0..aig.maxvar : types'[v].is = types[v].is /\ types'[v].idx = types[v].idx
    PROVE  /\ GraphPhase' /\ GateVars' = GateVars
           /\ \A v \in GateVars : Fanin(v)' = Fanin(v)
           /\ AllDefined => AllDefined'
  <1>1. IsGraph(aig) /\ aig.maxvar \in Nat /\ Corresponds(aig, types) /\ GraphOK(aig)
    BY GraphParts DEF GraphPhase, GraphOK
  <1>2. \A v \in 1..aig.maxvar : v \in 0..aig.maxvar
    BY <1>1
  <1>3. Corresponds(aig', types')
    <2>1. ASSUME NEW w \in Whats, NEW k \in 1..Count(aig, w) PROVE Placed(aig', types', w, k)
      BY <1>1, <1>2 DEF Corresponds, Placed
    <2>2. ASSUME NEW v \in 0..aig.maxvar PROVE Leads(aig', types', v)
      BY <1>1 DEF Corresponds, Leads
    <2> QED
      BY <1>1, <2>1, <2>2 DEF Corresponds
  <1>4. GateVars' = GateVars
    BY <1>2 DEF GateVars
  <1>5. \A v \in GateVars : Fanin(v)' = Fanin(v)
    BY <1>2 DEF GateVars, Fanin, Gate
  <1>6. \A lit \in LitsOf(aig) : LiteralDefined(lit)' <=> LiteralDefined(lit)
    BY LitVar DEF LiteralDefined
  <1>7. AllDefined => AllDefined'
    <2>1. SymbolLits(aig') = SymbolLits(aig)
      OBVIOUS
    <2>2. ToSet(SymbolLits(aig)) \in SUBSET LitsOf(aig)
      BY <1>1, SymbolLitsAre, SetOfSeq
    <2> QED
      BY <1>1, <1>6, <2>1, <2>2, GraphEntries DEF AllDefined
  <1> QED
    BY <1>1, <1>3, <1>4, <1>5, <1>7 DEF GraphPhase

\* The search for cycles: a gate with a mark is on the path or left.
Reads == [v \in GateVars |-> Fanin(v)]
OnPath == {v \in GateVars : types[v].onstack}
LeftGates == {v \in GateVars : types[v].mark /\ ~types[v].onstack}
Scanned == \A v \in GateVars : v <= root => types[v].mark \/ stack = <<v>>
PathMarked == \A v \in 0..aig.maxvar : types[v].onstack => v \in GateVars /\ types[v].mark
CyclePhase ==
    /\ GraphPhase /\ AllDefined
    /\ root \in 0..aig.maxvar /\ stack \in Seq(0..aig.maxvar)
    /\ PathMarked /\ Scanned
    /\ Search(GateVars, Reads, stack, OnPath, LeftGates)
\* A graph that has been found correct.
CheckedPhase ==
    /\ GraphPhase /\ AllDefined /\ Acyclic
    /\ stack = <<>> /\ \A v \in 0..aig.maxvar : ~types[v].onstack

\* The gates are variables.
LEMMA GatesAre ==
    ASSUME GraphPhase
    PROVE  /\ aig.maxvar \in Nat /\ types \in [0..aig.maxvar -> Types]
           /\ GateVars \in SUBSET (Nat \ {0}) /\ GateVars \in SUBSET (0..aig.maxvar)
           /\ \A v \in 0..aig.maxvar : v # 0 /\ types[v].is = "and" => v \in GateVars
           /\ \A v \in GateVars : types[v].is = "and"
  <1>1. aig.maxvar \in Nat /\ types \in [0..aig.maxvar -> Types]
    BY GraphParts DEF GraphPhase, GraphOK, Corresponds
  <1> QED
    BY <1>1 DEF GateVars

\* The reference definition of an acyclic graph in terms of the search.
LEMMA AcyclicMeans ==
    NoCycle(Reads, GateVars) <=> Acyclic
  <1>1. \A S \in SUBSET GateVars : \A v \in S : Reads[v] = Fanin(v)
    BY DEF Reads
  <1> QED
    BY <1>1 DEF NoCycle, Acyclic

\* What a stack consists of.
LEMMA LastFront ==
    ASSUME NEW S, NEW s \in Seq(S), s # <<>>
    PROVE  /\ Len(s) \in Nat \ {0} /\ Last(s) = s[Len(s)] /\ Last(s) \in S
           /\ Front(s) \in Seq(S)
           /\ \A n \in 0..Len(s) : SubSeq(s, 1, n) \in Seq(S)
  <1>1. Len(s) \in Nat \ {0}
    OBVIOUS
  <1> QED
    BY <1>1 DEF Last, Front

\* The gates and what they read do not depend on the marks.
LEMMA MarksOnlySearch ==
    ASSUME GraphPhase, UNCHANGED aig, types' \in [0..aig.maxvar -> Types],
           \A v \in 0..aig.maxvar : types'[v].is = types[v].is /\ types'[v].idx = types[v].idx
    PROVE  GraphPhase' /\ GateVars' = GateVars /\ Reads' = Reads /\ (AllDefined => AllDefined')
  <1>1. GraphPhase' /\ GateVars' = GateVars /\ (AllDefined => AllDefined')
        /\ \A v \in GateVars : Fanin(v)' = Fanin(v)
    BY MarksOnly
  <1>2. Reads' = [v \in GateVars' |-> Fanin(v)']
    BY DEF Reads
  <1> QED
    BY <1>1, <1>2 DEF Reads

\* The steps of aiger_check, each with its verdict: CheckDefined,
LEMMA CheckDefinedStep ==
    ASSUME CheckStart, CheckDefined
    PROVE  Verdict /\ (at' = "failed" \/ (at' = "cycles" /\ CyclePhase'))
  <1>1. GraphPhase /\ NoMarks(aig, types) /\ stack = <<>> /\ UNCHANGED <<aig, types, stack>> /\ root' = 0
    BY DEF CheckStart, CheckDefined
  <1>2. GraphPhase' /\ GateVars' = GateVars /\ Reads' = Reads /\ (AllDefined => AllDefined')
    BY <1>1, GatesAre, MarksOnlySearch
  <1>3. OnPath' = {} /\ LeftGates' = {}
    BY <1>1, <1>2, GatesAre DEF OnPath, LeftGates, NoMarks
  <1>4. Search(GateVars', Reads', stack', OnPath', LeftGates')
    BY <1>1, <1>3, SearchBegins
  <1>5. root' \in 0..aig'.maxvar /\ stack' \in Seq(0..aig'.maxvar)
    BY <1>1, GatesAre
  <1>6. PathMarked' /\ Scanned'
    <2>1. PathMarked'
      BY <1>1 DEF PathMarked, NoMarks
    <2>2. \A v \in GateVars : ~(v <= 0)
      BY <1>1, GatesAre
    <2> QED
      BY <1>1, <1>2, <2>1, <2>2 DEF Scanned
  <1>7. CASE AllDefined
    BY <1>2, <1>4, <1>5, <1>6, <1>7 DEF CheckDefined, CyclePhase, Verdict
  <1>8. CASE ~AllDefined
    BY <1>8 DEF CheckDefined, Verdict
  <1> QED
    BY <1>7, <1>8

\* NextRoot,
LEMMA NextRootStep ==
    ASSUME CyclePhase, NextRoot
    PROVE  Verdict /\ at' = "cycles" /\ CyclePhase'
  <1>1. /\ GraphPhase /\ AllDefined /\ UNCHANGED <<aig, types>> /\ stack = <<>>
        /\ root' = root + 1 /\ root \in 0..aig.maxvar /\ root < aig.maxvar /\ at' = "cycles"
        /\ PathMarked /\ Scanned /\ Search(GateVars, Reads, <<>>, OnPath, LeftGates)
        /\ stack' = IF types[root + 1].is = "and" /\ ~types[root + 1].mark THEN <<root + 1>> ELSE <<>>
    BY DEF CyclePhase, NextRoot
  <1>2. GraphPhase' /\ GateVars' = GateVars /\ Reads' = Reads /\ AllDefined'
    BY <1>1, GatesAre, MarksOnlySearch
  <1>3. OnPath' = OnPath /\ LeftGates' = LeftGates
    BY <1>1, <1>2 DEF OnPath, LeftGates
  <1>4. root + 1 \in 0..aig.maxvar /\ root + 1 \in Nat \ {0} /\ root \in Nat /\ aig.maxvar \in Nat
    BY <1>1, GatesAre
  <1>5. Search(GateVars, Reads, stack', OnPath, LeftGates)
    <2>1. CASE stack' = <<root + 1>>
      BY <1>1, <1>4, <2>1, SearchStarts
    <2>2. CASE stack' = <<>>
      BY <1>1, <2>2
    <2> QED
      BY <1>1, <2>1, <2>2
  <1>6. stack' \in Seq(0..aig.maxvar)
    <2> DEFINE A == 0..aig.maxvar
    <2>1. root + 1 \in A
      BY <1>4
    <2> HIDE DEF A
    <2>2. <<root + 1>> \in Seq(A) /\ <<>> \in Seq(A)
      BY <2>1
    <2> QED
      BY <1>1, <2>2 DEF A
  <1>7. Scanned'
    <2> SUFFICES ASSUME NEW v \in GateVars, v <= root + 1 PROVE types[v].mark \/ stack' = <<v>>
      BY <1>1, <1>2 DEF Scanned
    <2>1. v \in Nat
      BY <1>1, GatesAre
    <2>2. CASE v = root + 1
      BY <1>1, <2>2, GatesAre
    <2>3. CASE v # root + 1
      <3>1. v <= root
        BY <1>4, <2>1, <2>3
      <3>2. stack # <<v>>
        BY <1>1
      <3> QED
        BY <1>1, <3>1, <3>2 DEF Scanned
    <2> QED
      BY <2>2, <2>3
  <1>8. PathMarked'
    BY <1>1, <1>2 DEF PathMarked
  <1> QED
    BY <1>1, <1>2, <1>3, <1>4, <1>5, <1>6, <1>7, <1>8 DEF CyclePhase, Verdict

\* CycleFound: there is a cycle indeed,
LEMMA CycleFoundStep ==
    ASSUME CyclePhase, CycleFound
    PROVE  Verdict /\ at' = "failed"
  <1>1. /\ GraphPhase /\ stack \in Seq(0..aig.maxvar) /\ stack # <<>> /\ PathMarked
        /\ types[Last(stack)].onstack /\ Search(GateVars, Reads, stack, OnPath, LeftGates)
    BY DEF CyclePhase, CycleFound, Searching, Top
  <1>2. Last(stack) \in OnPath
    BY <1>1, LastFront DEF PathMarked, OnPath
  <1>3. ~NoCycle(Reads, GateVars)
    BY <1>1, <1>2, GatesAre, SearchFindsCycle
  <1> QED
    BY <1>3, AcyclicMeans DEF CycleFound, Verdict

\* PopVisited,
LEMMA PopVisitedStep ==
    ASSUME CyclePhase, PopVisited
    PROVE  Verdict /\ at' = "cycles" /\ CyclePhase'
  <1>1. /\ GraphPhase /\ AllDefined /\ UNCHANGED <<aig, types, root>> /\ stack \in Seq(0..aig.maxvar) /\ stack # <<>>
        /\ root \in 0..aig.maxvar /\ at' = "cycles" /\ Last(stack) # 0 /\ stack' = Front(stack)
        /\ ~(types[Last(stack)].mark /\ types[Last(stack)].onstack)
        /\ types[Last(stack)].is # "and" \/ types[Last(stack)].mark
        /\ PathMarked /\ Scanned /\ Search(GateVars, Reads, stack, OnPath, LeftGates)
    BY DEF CyclePhase, PopVisited, Searching, Top
  <1>2. GraphPhase' /\ GateVars' = GateVars /\ Reads' = Reads /\ AllDefined'
    BY <1>1, GatesAre, MarksOnlySearch
  <1>3. OnPath' = OnPath /\ LeftGates' = LeftGates
    BY <1>1, <1>2 DEF OnPath, LeftGates
  <1>4. Last(stack) \in 0..aig.maxvar /\ Front(stack) \in Seq(0..aig.maxvar) /\ Last(stack) = stack[Len(stack)]
    BY <1>1, LastFront
  <1>5. Last(stack) \in LeftGates \/ Last(stack) \notin GateVars
    BY <1>1, <1>4, GatesAre DEF LeftGates
  <1>6. Search(GateVars, Reads, stack', OnPath, LeftGates)
    BY <1>1, <1>5, GatesAre, SearchPops
  <1>7. Scanned'
    <2> SUFFICES ASSUME NEW v \in GateVars, v <= root PROVE types[v].mark \/ stack' = <<v>>
      BY <1>1, <1>2 DEF Scanned
    <2>1. CASE stack = <<v>>
      <3>1. Last(stack) = v
        BY <1>4, <2>1
      <3> QED
        BY <1>1, <3>1, GatesAre
    <2> QED
      BY <1>1, <2>1 DEF Scanned
  <1>8. PathMarked'
    BY <1>1, <1>2 DEF PathMarked
  <1> QED
    BY <1>1, <1>2, <1>3, <1>4, <1>6, <1>7, <1>8 DEF CyclePhase, Verdict

\* t is s with a marker and the elements of F above it.
Pushes(s, F, t) ==
    /\ Len(t) > Len(s)
    /\ \A i \in 1..Len(s) : t[i] = s[i]
    /\ t[Len(s) + 1] = 0
    /\ \A j \in (Len(s) + 2)..Len(t) : t[j] # 0 /\ t[j] \in F
    /\ \A c \in F : \E j \in (Len(s) + 2)..Len(t) : t[j] = c
FaninsAbove(s, x, y) == s \o <<0>> \o NonZero(x) \o NonZero(y)
\* What Enter makes of the stack.
LEMMA FaninsPushed ==
    ASSUME NEW S, NEW s \in Seq(S), NEW x \in S, NEW y \in S, 0 \in S
    PROVE  FaninsAbove(s, x, y) \in Seq(S) /\ Pushes(s, {x, y} \ {0}, FaninsAbove(s, x, y))
  <1> DEFINE n == Len(s)
             z == s \o <<0>>
             zx == z \o <<x>>
             zy == z \o <<y>>
             zxy == zx \o <<y>>
             t == FaninsAbove(s, x, y)
  <1>1. n \in Nat
    OBVIOUS
  <1>2. \A r \in Seq(S) : \A d \in S :
          /\ r \o <<d>> \in Seq(S) /\ Len(r \o <<d>>) = Len(r) + 1 /\ (r \o <<d>>)[Len(r) + 1] = d
          /\ \A i \in 1..Len(r) : (r \o <<d>>)[i] = r[i]
    OBVIOUS
  <1>3. z \in Seq(S) /\ Len(z) = n + 1 /\ z[n + 1] = 0 /\ \A i \in 1..n : z[i] = s[i]
    BY <1>2
  <1> HIDE DEF z
  <1>4. /\ zx \in Seq(S) /\ Len(zx) = n + 2 /\ zx[n + 2] = x /\ \A i \in 1..(n + 1) : zx[i] = z[i]
        /\ zy \in Seq(S) /\ Len(zy) = n + 2 /\ zy[n + 2] = y /\ \A i \in 1..(n + 1) : zy[i] = z[i]
    <2> HIDE DEF n
    <2>1. (n + 1) + 1 = n + 2
      BY <1>1
    <2>2. zx \in Seq(S) /\ Len(zx) = Len(z) + 1 /\ zx[Len(z) + 1] = x /\ \A i \in 1..Len(z) : zx[i] = z[i]
      BY <1>2, <1>3
    <2>3. zy \in Seq(S) /\ Len(zy) = Len(z) + 1 /\ zy[Len(z) + 1] = y /\ \A i \in 1..Len(z) : zy[i] = z[i]
      BY <1>2, <1>3
    <2> HIDE DEF zx, zy
    <2> QED
      BY <1>3, <2>1, <2>2, <2>3
  <1> HIDE DEF zx, zy
  <1>5. zxy \in Seq(S) /\ Len(zxy) = n + 3 /\ zxy[n + 3] = y /\ \A i \in 1..(n + 2) : zxy[i] = zx[i]
    <2> HIDE DEF n
    <2>1. (n + 2) + 1 = n + 3
      BY <1>1
    <2> QED
      BY <1>2, <1>4, <2>1
  <1> HIDE DEF zxy, n, t
  <1>6. \A i \in 1..n : i \in 1..(n + 1) /\ i \in 1..(n + 2)
    BY <1>1
  <1>7. n + 1 \in 1..(n + 1) /\ n + 1 \in 1..(n + 2) /\ n + 2 \in 1..(n + 2) /\ n + 1 > n /\ n + 2 > n /\ n + 3 > n
    BY <1>1
  <1>8. CASE x = 0 /\ y = 0
    <2>1. t = z
      BY <1>3, <1>8 DEF NonZero, FaninsAbove, t, z
    <2>2. (n + 2)..(n + 1) = {}
      BY <1>1
    <2> QED
      BY <1>3, <1>7, <1>8, <2>1, <2>2 DEF n, t, Pushes
  <1>9. CASE x = 0 /\ y # 0
    <2>1. t = zy
      BY <1>3, <1>9 DEF NonZero, FaninsAbove, t, z, zy
    <2>2. (n + 2)..(n + 2) = {n + 2}
      BY <1>1
    <2> QED
      BY <1>3, <1>4, <1>6, <1>7, <1>9, <2>1, <2>2 DEF n, t, Pushes
  <1>10. CASE x # 0 /\ y = 0
    <2>1. t = zx
      BY <1>3, <1>4, <1>10 DEF NonZero, FaninsAbove, t, z, zx
    <2>2. (n + 2)..(n + 2) = {n + 2}
      BY <1>1
    <2> QED
      BY <1>3, <1>4, <1>6, <1>7, <1>10, <2>1, <2>2, SMTT(20) DEF n, t, Pushes
  <1>11. CASE x # 0 /\ y # 0
    <2>1. t = zxy
      BY <1>11 DEF NonZero, FaninsAbove, t, z, zx, zxy
    <2>2. (n + 2)..(n + 3) = {n + 2, n + 3}
      BY <1>1
    <2>3. t[n + 1] = 0 /\ t[n + 2] = x /\ t[n + 3] = y /\ \A i \in 1..n : t[i] = s[i]
      BY <1>3, <1>4, <1>5, <1>6, <1>7, <2>1
    <2> QED
      BY <1>5, <1>7, <1>11, <2>1, <2>2, <2>3 DEF n, t, Pushes
  <1> HIDE DEF t
  <1> QED
    BY <1>8, <1>9, <1>10, <1>11 DEF t

\* Enter,
LEMMA EnterStep ==
    ASSUME CyclePhase, Enter
    PROVE  Verdict /\ at' = "cycles" /\ CyclePhase'
  <1> DEFINE e == Last(stack)
             x == Var(Gate(e).rhs0)
             y == Var(Gate(e).rhs1)
  <1>1. /\ GraphPhase /\ AllDefined /\ UNCHANGED <<aig, root>> /\ stack \in Seq(0..aig.maxvar) /\ stack # <<>>
        /\ root \in 0..aig.maxvar /\ at' = "cycles" /\ e # 0 /\ types[e].is = "and" /\ ~types[e].mark
        /\ types' = [types EXCEPT ![e].mark = TRUE, ![e].onstack = TRUE]
        /\ stack' = stack \o <<0>> \o NonZero(x) \o NonZero(y)
        /\ PathMarked /\ Scanned /\ Search(GateVars, Reads, stack, OnPath, LeftGates)
    BY DEF CyclePhase, Enter, Searching, Top
  <1>2. e \in 0..aig.maxvar /\ e \in GateVars
    BY <1>1, LastFront, GatesAre
  <1>3. x \in 0..aig.maxvar /\ y \in 0..aig.maxvar /\ Reads[e] = {x, y} \ {0} /\ 0 \in 0..aig.maxvar
    BY <1>1, <1>2, GateReads, GatesAre DEF Reads, Fanin
  <1> HIDE DEF x, y, e
  <1>4. /\ types' \in [0..aig.maxvar -> Types]
        /\ \A v \in 0..aig.maxvar : types'[v].is = types[v].is /\ types'[v].idx = types[v].idx
        /\ \A v \in 0..aig.maxvar : v # e => types'[v] = types[v]
        /\ types'[e].mark = TRUE /\ types'[e].onstack = TRUE
    <2> DEFINE D == 0..aig.maxvar
    <2>1. types \in [D -> Types] /\ e \in D
      BY <1>1, <1>2, GatesAre
    <2> HIDE DEF D
    <2>2. /\ types' \in [D -> Types]
          /\ \A v \in D : types'[v].is = types[v].is /\ types'[v].idx = types[v].idx
          /\ \A v \in D : v # e => types'[v] = types[v]
          /\ types'[e].mark = TRUE /\ types'[e].onstack = TRUE
      <3> DEFINE t == types
                 u == types'
      <3>1. t \in [D -> Types] /\ MarksSet(t, e, TRUE, TRUE, u) /\ e \in D
        BY <1>1, <2>1 DEF MarksSet
      <3> HIDE DEF t, u
      <3>2. /\ u \in [D -> Types]
            /\ \A v \in D : u[v].is = t[v].is /\ u[v].idx = t[v].idx
            /\ \A v \in D : v # e => u[v] = t[v]
            /\ u[e].mark = TRUE /\ u[e].onstack = TRUE
        BY <3>1, MarkSet
      <3> QED
        BY <3>2 DEF t, u
    <2> QED
      BY <2>2 DEF D
  <1>5. GraphPhase' /\ GateVars' = GateVars /\ Reads' = Reads /\ AllDefined'
    BY <1>1, <1>4, MarksOnlySearch
  <1>6. OnPath' = OnPath \cup {e}
    BY <1>1, <1>2, <1>4, <1>5, GatesAre DEF OnPath
  <1>7. LeftGates' = LeftGates
    BY <1>1, <1>2, <1>4, <1>5, GatesAre DEF LeftGates
  <1>8. stack' \in Seq(0..aig.maxvar) /\ Search(GateVars, Reads, stack', OnPath \cup {e}, LeftGates)
    <2>1. e \notin OnPath \cup LeftGates
      BY <1>1, <1>2 DEF PathMarked, OnPath, LeftGates
    <2>2. stack' \in Seq(0..aig.maxvar) /\ Pushes(stack, {x, y} \ {0}, stack')
      <3> DEFINE D == 0..aig.maxvar
      <3>1. stack \in Seq(D) /\ x \in D /\ y \in D /\ 0 \in D
        BY <1>1, <1>3
      <3>2. stack' = FaninsAbove(stack, x, y)
        BY <1>1 DEF FaninsAbove
      <3> HIDE DEF D
      <3>3. stack' \in Seq(D) /\ Pushes(stack, {x, y} \ {0}, stack')
        BY <3>1, <3>2, FaninsPushed
      <3> QED
        BY <3>3 DEF D
    <2>3. stack' \in Seq(Nat)
      <3> DEFINE D == 0..aig.maxvar
      <3>1. \A d \in D : d \in Nat
        OBVIOUS
      <3>2. stack' \in Seq(D)
        BY <2>2
      <3> HIDE DEF D
      <3> QED
        BY <3>1, <3>2
    <2>4. Search(GateVars, Reads, stack, OnPath, LeftGates) /\ stack # <<>> /\ GateVars \in SUBSET (Nat \ {0})
          /\ Last(stack) \in GateVars /\ Last(stack) \notin OnPath \cup LeftGates
          /\ Reads[Last(stack)] = {x, y} \ {0}
      BY <1>1, <1>2, <1>3, <2>1, GatesAre DEF e
    <2> DEFINE t == stack'
               m == Len(stack)
               G == GateVars
               R == Reads
               on == OnPath
               left == LeftGates
               F == {x, y} \ {0}
    <2>5. /\ t \in Seq(Nat) /\ Len(t) > m
          /\ \A i \in 1..m : t[i] = stack[i]
          /\ t[m + 1] = 0
          /\ \A j \in (m + 2)..Len(t) : t[j] # 0 /\ t[j] \in R[Last(stack)]
          /\ \A c \in R[Last(stack)] \cap G : c \in left \/ \E j \in (m + 2)..Len(t) : t[j] = c
      BY <2>2, <2>3, <2>4 DEF Pushes
    <2> HIDE DEF t, G, R, on, left, F
    <2>6. Search(G, R, t, on \cup {Last(stack)}, left)
      <3>1. Search(G, R, stack, on, left) /\ stack # <<>> /\ G \in SUBSET (Nat \ {0})
            /\ Last(stack) \in G /\ Last(stack) \notin on \cup left
        BY <2>4 DEF G, R, on, left
      <3> QED
        BY <2>5, <3>1, SearchEnters
    <2> QED
      BY <2>2, <2>6 DEF t, G, R, on, left, e
  <1>9. PathMarked'
    BY <1>1, <1>2, <1>4, <1>5 DEF PathMarked
  <1>10. Scanned'
    <2> SUFFICES ASSUME NEW v \in GateVars, v <= root PROVE types'[v].mark \/ stack' = <<v>>
      BY <1>1, <1>5 DEF Scanned
    <2>1. v \in 0..aig.maxvar
      BY <1>1, GatesAre
    <2>2. CASE v = e
      BY <1>4, <2>2
    <2>3. CASE v # e
      <3>1. stack # <<v>>
        <4>1. Last(stack) = stack[Len(stack)]
          BY <1>1, LastFront
        <4> QED
          BY <2>3, <4>1 DEF e
      <3> QED
        BY <1>4, <2>1, <2>3, <3>1, <1>1 DEF Scanned
    <2> QED
      BY <2>2, <2>3
  <1> QED
    BY <1>1, <1>5, <1>6, <1>7, <1>8, <1>9, <1>10 DEF CyclePhase, Verdict

\* Leave,
LEMMA LeaveStep ==
    ASSUME CyclePhase, Leave
    PROVE  Verdict /\ at' = "cycles" /\ CyclePhase'
  <1> DEFINE e == stack[Len(stack) - 1]
  <1>1. /\ GraphPhase /\ AllDefined /\ UNCHANGED <<aig, root>> /\ stack \in Seq(0..aig.maxvar) /\ stack # <<>>
        /\ root \in 0..aig.maxvar /\ at' = "cycles" /\ Last(stack) = 0
        /\ types' = [types EXCEPT ![e].onstack = FALSE]
        /\ stack' = SubSeq(stack, 1, Len(stack) - 2)
        /\ PathMarked /\ Scanned /\ Search(GateVars, Reads, stack, OnPath, LeftGates)
    BY DEF CyclePhase, Leave, Searching, Top
  <1>2. /\ Len(stack) >= 2 /\ e \in OnPath /\ Reads[e] \cap GateVars \subseteq LeftGates
        /\ Search(GateVars, Reads, SubSeq(stack, 1, Len(stack) - 2), OnPath \ {e}, LeftGates \cup {e})
    BY <1>1, GatesAre, SearchLeaves
  <1>3. e \in GateVars /\ e \in 0..aig.maxvar /\ types[e].onstack /\ types[e].mark
    BY <1>1, <1>2, GatesAre DEF OnPath, PathMarked
  <1>4. stack' \in Seq(0..aig.maxvar)
    <2>1. Len(stack) \in Nat /\ Len(stack) - 2 \in 0..Len(stack)
      BY <1>1, <1>2
    <2> QED
      BY <1>1, <2>1, LastFront
  <1> HIDE DEF e
  <1>5. /\ types' \in [0..aig.maxvar -> Types]
        /\ \A v \in 0..aig.maxvar : types'[v].is = types[v].is /\ types'[v].idx = types[v].idx
        /\ \A v \in 0..aig.maxvar : v # e => types'[v] = types[v]
        /\ types'[e].mark = TRUE /\ types'[e].onstack = FALSE
    <2> DEFINE D == 0..aig.maxvar
    <2>1. types \in [D -> Types] /\ e \in D
      BY <1>1, <1>3, GatesAre
    <2>2. types[e].mark = TRUE
      <3>1. types[e] \in Types
        BY <2>1
      <3> QED
        BY <1>3, <3>1 DEF Types
    <2> HIDE DEF D
    <2>3. /\ types' \in [D -> Types]
          /\ \A v \in D : types'[v].is = types[v].is /\ types'[v].idx = types[v].idx
          /\ \A v \in D : v # e => types'[v] = types[v]
          /\ types'[e].mark = TRUE /\ types'[e].onstack = FALSE
      <3> DEFINE t == types
                 u == types'
      <3>1. t \in [D -> Types] /\ MarksSet(t, e, TRUE, FALSE, u) /\ e \in D
        BY <1>1, <2>1, <2>2 DEF e, MarksSet
      <3> HIDE DEF t, u
      <3>2. /\ u \in [D -> Types]
            /\ \A v \in D : u[v].is = t[v].is /\ u[v].idx = t[v].idx
            /\ \A v \in D : v # e => u[v] = t[v]
            /\ u[e].mark = TRUE /\ u[e].onstack = FALSE
        BY <3>1, MarkSet
      <3> QED
        BY <3>2 DEF t, u
    <2> QED
      BY <2>3 DEF D
  <1>6. GraphPhase' /\ GateVars' = GateVars /\ Reads' = Reads /\ AllDefined'
    BY <1>1, <1>5, MarksOnlySearch
  <1>7. OnPath' = OnPath \ {e}
    BY <1>1, <1>3, <1>5, <1>6, GatesAre DEF OnPath
  <1>8. LeftGates' = LeftGates \cup {e}
    BY <1>1, <1>3, <1>5, <1>6, GatesAre DEF LeftGates
  <1>9. PathMarked'
    BY <1>1, <1>3, <1>5, <1>6 DEF PathMarked
  <1>10. Scanned'
    <2> SUFFICES ASSUME NEW v \in GateVars, v <= root PROVE types'[v].mark \/ stack' = <<v>>
      BY <1>1, <1>6 DEF Scanned
    <2>1. v \in 0..aig.maxvar
      BY <1>1, GatesAre
    <2>2. CASE v = e
      BY <1>5, <2>2
    <2>3. CASE v # e
      <3>1. stack # <<v>>
        <4> SUFFICES ASSUME stack = <<v>> PROVE FALSE
          OBVIOUS
        <4>1. Len(stack) = 1
          OBVIOUS
        <4> QED
          BY <1>2, <4>1
      <3> QED
        BY <1>5, <2>1, <2>3, <3>1, <1>1 DEF Scanned
    <2> QED
      BY <2>2, <2>3
  <1> QED
    BY <1>1, <1>2, <1>4, <1>6, <1>7, <1>8, <1>9, <1>10 DEF CyclePhase, Verdict, e

\* CheckPassed: all gates have been left, and there is no cycle.
LEMMA CheckPassedStep ==
    ASSUME CyclePhase, CheckPassed
    PROVE  Verdict /\ at' = "checked" /\ CheckedPhase'
  <1>1. /\ GraphPhase /\ AllDefined /\ UNCHANGED <<aig, types, stack>> /\ stack = <<>> /\ root = aig.maxvar
        /\ PathMarked /\ Scanned /\ Search(GateVars, Reads, <<>>, OnPath, LeftGates) /\ at' = "checked"
    BY DEF CyclePhase, CheckPassed
  <1>2. OnPath = {}
    <2>1. 1 \in Nat \ {0}
      OBVIOUS
    <2> QED
      BY <1>1, <2>1, SearchStarts
  <1>3. LeftGates = GateVars
    <2>1. \A v \in GateVars : v <= root
      BY <1>1, GatesAre
    <2>2. \A v \in GateVars : types[v].mark
      BY <1>1, <2>1 DEF Scanned
    <2> QED
      BY <1>2, <2>2 DEF OnPath, LeftGates
  <1>4. Acyclic
    BY <1>1, <1>3, AcyclicMeans DEF Search
  <1>5. \A v \in 0..aig.maxvar : ~types[v].onstack
    BY <1>1, <1>2 DEF PathMarked, OnPath
  <1>6. GraphPhase' /\ AllDefined' /\ GateVars' = GateVars
    BY <1>1, GatesAre, MarksOnlySearch
  <1>7. Acyclic'
    <2>1. \A v \in GateVars : Fanin(v)' = Fanin(v)
      BY <1>1 DEF Fanin, Gate
    <2> QED
      BY <1>4, <1>6, <2>1 DEF Acyclic
  <1> QED
    BY <1>1, <1>4, <1>5, <1>6, <1>7 DEF CheckedPhase, Verdict

(***************************************************************************)
(* New numbers.  X are the variables, S the literals of the sources, G the *)
(* gates and R[v] what gate v reads; c gives the codes, and m of them are  *)
(* in use.                                                                 *)
(***************************************************************************)
Numbering(X, S, G, R, c, m) ==
    /\ c \in [X -> Nat] /\ m \in Nat /\ Len(S) <= m
    /\ \A k \in 1..Len(S) : c[Var(S[k])] = 2 * k
    /\ \A v \in X : c[v] # 0 =>
         \/ \E k \in 1..Len(S) : S[k] = 2 * v /\ c[v] = 2 * k
         \/ v \in G /\ \E j \in (Len(S) + 1)..m : c[v] = 2 * j
    /\ \A j \in (Len(S) + 1)..m : \E v \in G : c[v] = 2 * j
    /\ \A v \in G : \A w \in G : c[v] # 0 /\ c[v] = c[w] => v = w
    /\ \A v \in G : c[v] # 0 => \A d \in R[v] : c[d] # 0 /\ c[d] < c[v]
\* The sources and the gates are different variables up to M.
Variables(M, S, G, R) ==
    /\ M \in Nat /\ G \in SUBSET (1..M) /\ Len(S) \in Nat
    /\ \A k \in 1..Len(S) : Var(S[k]) \in 1..M /\ S[k] = 2 * Var(S[k]) /\ Var(S[k]) \notin G
    /\ \A k \in 1..Len(S) : \A l \in 1..Len(S) : S[k] = S[l] => k = l
    /\ R \in [G -> SUBSET (1..M)]

\* No more codes are in use than there are variables.
LEMMA CodesBounded ==
    ASSUME NEW M, NEW S, NEW G, NEW R, Variables(M, S, G, R), NEW c, NEW m, Numbering(0..M, S, G, R, c, m)
    PROVE  m <= M /\ \A v \in 0..M : c[v] <= 2 * m /\ \E h \in 0..m : c[v] = 2 * h
  <1> DEFINE n == Len(S)
             f == [j \in 1..m |-> CHOOSE v \in 1..M : c[v] = 2 * j]
  <1>1. m \in Nat /\ n \in Nat /\ n <= m /\ M \in Nat
    BY DEF Numbering, Variables
  <1>2. \A j \in 1..m : \E v \in 1..M : c[v] = 2 * j
    <2> SUFFICES ASSUME NEW j \in 1..m PROVE \E v \in 1..M : c[v] = 2 * j
      OBVIOUS
    <2>1. CASE j <= n
      <3>1. j \in 1..n
        BY <1>1, <2>1
      <3> QED
        BY <3>1 DEF Numbering, Variables
    <2>2. CASE j > n
      <3>1. j \in (n + 1)..m
        BY <1>1, <2>2
      <3> QED
        BY <3>1 DEF Numbering, Variables
    <2> QED
      BY <1>1, <2>1, <2>2
  <1>3. f \in [1..m -> 1..M] /\ \A j \in 1..m : c[f[j]] = 2 * j
    BY <1>2
  <1> HIDE DEF f
  <1>4. f \in Injection(1..m, 1..M)
    <2>1. ASSUME NEW i \in 1..m, NEW j \in 1..m, f[i] = f[j] PROVE i = j
      <3>1. 2 * i = 2 * j /\ i \in Nat /\ j \in Nat
        BY <1>3, <2>1
      <3> QED
        BY <3>1
    <2> QED
      BY <1>3, <2>1 DEF Injection, IsInjective
  <1>5. m <= M
    <2> SUFFICES ASSUME NEW i \in Nat PROVE IsFiniteSet(1..i) /\ Cardinality(1..i) = i
      BY <1>1, <1>4, FS_Injection
    <2> QED
      BY FS_Interval
  <1>6. \A v \in 0..M : \E h \in 0..m : c[v] = 2 * h
    <2> SUFFICES ASSUME NEW v \in 0..M PROVE \E h \in 0..m : c[v] = 2 * h
      OBVIOUS
    <2>1. \A k \in 1..n : k \in 0..m
      BY <1>1
    <2>2. \A k \in (n + 1)..m : k \in 0..m
      BY <1>1
    <2>3. 0 \in 0..m /\ 2 * 0 = 0
      BY <1>1
    <2> QED
      BY <2>1, <2>2, <2>3 DEF Numbering
  <1>7. \A v \in 0..M : c[v] <= 2 * m
    BY <1>1, <1>6
  <1> QED
    BY <1>5, <1>6, <1>7

CodesOfPlaces(M, S, c) == c = [v \in 0..M |-> 2 * SelectInSeq(S, LAMBDA lit : lit = 2 * v)]
\* The codes of the sources come first.
LEMMA NumberingBegins ==
    ASSUME NEW M, NEW S, NEW G, NEW R, Variables(M, S, G, R), NEW c, CodesOfPlaces(M, S, c)
    PROVE  Numbering(0..M, S, G, R, c, Len(S)) /\ \A v \in G : c[v] = 0
  <1> DEFINE n == Len(S)
             place(v) == SelectInSeq(S, LAMBDA lit : lit = 2 * v)
  <1>1. n \in Nat /\ M \in Nat
    BY DEF Variables
  <1>2. \A v \in 0..M : /\ place(v) \in 0..n
                        /\ place(v) # 0 => S[place(v)] = 2 * v
                        /\ place(v) = 0 => \A k \in 1..n : S[k] # 2 * v
    <2> SUFFICES ASSUME NEW v \in 0..M
                 PROVE  /\ place(v) \in 0..n
                        /\ place(v) # 0 => S[place(v)] = 2 * v
                        /\ place(v) = 0 => \A k \in 1..n : S[k] # 2 * v
      OBVIOUS
    <2> DEFINE w == 2 * v
    <2> HIDE DEF w
    <2>1. /\ SelectInSeq(S, LAMBDA lit : lit = w) \in 0..n
          /\ SelectInSeq(S, LAMBDA lit : lit = w) # 0 => S[SelectInSeq(S, LAMBDA lit : lit = w)] = w
          /\ SelectInSeq(S, LAMBDA lit : lit = w) = 0 => \A k \in 1..n : S[k] # w
      BY <1>1, PlaceOf
    <2> QED
      BY <2>1 DEF w
  <1>3. c = [v \in 0..M |-> 2 * place(v)]
    BY DEF CodesOfPlaces
  <1> HIDE DEF place, n
  <1>4. c \in [0..M -> Nat]
    <2>1. \A v \in 0..M : 2 * place(v) \in Nat
      <3>1. \A v \in 0..M : place(v) \in Nat
        BY <1>1, <1>2
      <3> QED
        BY <3>1
    <2> QED
      BY <1>3, <2>1
  <1>5. ASSUME NEW k \in 1..n PROVE c[Var(S[k])] = 2 * k
    <2>1. Var(S[k]) \in 0..M /\ S[k] = 2 * Var(S[k])
      BY DEF Variables, n
    <2> DEFINE p == place(Var(S[k]))
    <2>2. p \in 0..n /\ p # 0 /\ S[p] = S[k]
      BY <1>2, <2>1
    <2> HIDE DEF p
    <2>3. p \in 1..n
      BY <1>1, <2>2
    <2>4. p = k
      BY <2>2, <2>3 DEF Variables, n
    <2> QED
      BY <1>3, <2>1, <2>4 DEF p
  <1>6. ASSUME NEW v \in 0..M, c[v] # 0
        PROVE  \E k \in 1..n : S[k] = 2 * v /\ c[v] = 2 * k
    <2>1. place(v) # 0
      BY <1>3, <1>6
    <2>2. place(v) \in 1..n /\ S[place(v)] = 2 * v
      BY <1>1, <1>2, <2>1
    <2> QED
      BY <1>3, <2>2
  <1>7. \A v \in G : c[v] = 0
    <2> SUFFICES ASSUME NEW v \in G, c[v] # 0 PROVE FALSE
      OBVIOUS
    <2>1. v \in 0..M /\ v \in Nat
      BY <1>1 DEF Variables
    <2>2. PICK k \in 1..n : S[k] = 2 * v
      BY <1>6, <2>1
    <2>3. Var(S[k]) = v
      BY <2>1, <2>2, Doubled
    <2> QED
      BY <2>3 DEF Variables, n
  <1>8. (n + 1)..n = {}
    BY <1>1
  <1> QED
    BY <1>1, <1>4, <1>5, <1>6, <1>7, <1>8 DEF Numbering, n

Numbered(c, e, m, b) == b = [c EXCEPT ![e] = 2 * m + 2]
\* A gate whose operands have codes gets the next one.
LEMMA NumberingGoesOn ==
    ASSUME NEW M, NEW S, NEW G, NEW R, Variables(M, S, G, R), NEW c, NEW m, Numbering(0..M, S, G, R, c, m),
           NEW e \in G, c[e] = 0, \A d \in R[e] : c[d] # 0,
           NEW b, Numbered(c, e, m, b)
    PROVE  Numbering(0..M, S, G, R, b, m + 1) /\ 2 * (m + 1) + 2 = (2 * m + 2) + 2
           /\ b[e] # 0 /\ \A v \in 0..M : v # e => b[v] = c[v]
  <1> DEFINE n == Len(S)
             X == 0..M
             N == 2 * m + 2
  <1>1. m \in Nat /\ n \in Nat /\ n <= m /\ M \in Nat /\ c \in [X -> Nat] /\ e \in X
    BY DEF Numbering, Variables
  <1>2. N \in Nat /\ N = 2 * (m + 1) /\ N # 0 /\ 2 * (m + 1) + 2 = N + 2 /\ m + 1 \in Nat /\ n <= m + 1
        /\ m + 1 \in (n + 1)..(m + 1) /\ \A j \in (n + 1)..m : j \in (n + 1)..(m + 1) /\ 2 * j # N
    BY <1>1
  <1>11. \A j \in (n + 1)..(m + 1) : j = m + 1 \/ j \in (n + 1)..m
    BY <1>1
  <1>3. \A v \in X : c[v] < N
    <2>1. \A v \in X : c[v] <= 2 * m /\ c[v] \in Nat
      BY <1>1, CodesBounded
    <2> QED
      BY <1>1, <2>1
  <1> HIDE DEF X, N, n
  <1>4. b \in [X -> Nat] /\ b[e] = N /\ \A v \in X : v # e => b[v] = c[v]
    BY <1>1, <1>2 DEF N, Numbered
  <1>5. ASSUME NEW k \in 1..n PROVE b[Var(S[k])] = 2 * k
    <2>1. Var(S[k]) \in X /\ Var(S[k]) # e
      BY DEF Variables, n, X
    <2> QED
      BY <1>4, <2>1 DEF Numbering, n
  <1>6. ASSUME NEW v \in X, b[v] # 0
        PROVE  \/ \E k \in 1..n : S[k] = 2 * v /\ b[v] = 2 * k
               \/ v \in G /\ \E j \in (n + 1)..(m + 1) : b[v] = 2 * j
    <2>1. CASE v = e
      <3>1. b[v] = 2 * (m + 1) /\ m + 1 \in (n + 1)..(m + 1) /\ v \in G
        BY <1>2, <1>4, <2>1
      <3> QED
        BY <3>1
    <2>2. CASE v # e
      BY <1>2, <1>4, <1>6, <2>2 DEF Numbering, n, X
    <2> QED
      BY <2>1, <2>2
  <1>7. ASSUME NEW j \in (n + 1)..(m + 1) PROVE \E v \in G : b[v] = 2 * j
    <2>1. CASE j = m + 1
      BY <1>2, <1>4, <2>1
    <2>2. CASE j \in (n + 1)..m
      <3>1. PICK v \in G : c[v] = 2 * j
        BY <2>2 DEF Numbering, n
      <3>2. c[v] # 0
        BY <1>1, <2>2, <3>1
      <3>3. v # e /\ v \in X
        BY <3>2 DEF Variables, X
      <3> QED
        BY <1>4, <3>1, <3>3
    <2>3. j = m + 1 \/ j \in (n + 1)..m
      BY <1>11
    <2> QED
      BY <2>1, <2>2, <2>3
  <1>8. ASSUME NEW v \in G, NEW w \in G, b[v] # 0, b[v] = b[w] PROVE v = w
    <2>1. v \in X /\ w \in X
      BY DEF Variables, X
    <2>2. \A x \in X : c[x] # N
      BY <1>1, <1>2, <1>3
    <2> QED
      BY <1>4, <1>8, <2>1, <2>2 DEF Numbering
  <1>9. ASSUME NEW v \in G, b[v] # 0, NEW d \in R[v] PROVE b[d] # 0 /\ b[d] < b[v]
    <2>1. v \in X /\ d \in X /\ R[v] \in SUBSET (1..M)
      <3>1. R[v] \in SUBSET (1..M) /\ v \in 1..M
        BY DEF Variables
      <3> QED
        BY <3>1 DEF X
    <2>2. CASE v = e
      <3>1. c[d] # 0 /\ d # e
        BY <2>2
      <3> QED
        BY <1>3, <1>4, <2>1, <2>2, <3>1
    <2>3. CASE v # e
      <3>1. c[v] # 0 /\ b[v] = c[v]
        BY <1>4, <1>9, <2>1, <2>3
      <3>2. c[d] # 0 /\ c[d] < c[v]
        BY <3>1 DEF Numbering
      <3>3. d # e
        BY <3>2
      <3> QED
        BY <1>4, <2>1, <3>1, <3>2, <3>3
    <2> QED
      BY <2>2, <2>3
  <1>10. Numbering(X, S, G, R, b, m + 1)
    BY <1>2, <1>4, <1>5, <1>6, <1>7, <1>8, <1>9 DEF Numbering, n
  <1> QED
    BY <1>2, <1>4, <1>10 DEF X, N

\* In an acyclic graph no search comes back to a gate it is in.
LEMMA ReadsFresh ==
    ASSUME NEW G \in SUBSET (Nat \ {0}), NEW R, NEW s, NEW on, NEW left, Search(G, R, s, on, left), s # <<>>,
           Last(s) \in G, Last(s) \notin on \cup left, NoCycle(R, G),
           NEW x \in Nat, NEW y \in Nat, R[Last(s)] = {x, y} \ {0}
    PROVE  \A c \in R[Last(s)] : c \notin on /\ c # Last(s)
  <1> SUFFICES ASSUME NEW c \in R[Last(s)], c \in on \cup {Last(s)} PROVE FALSE
    OBVIOUS
  <1> DEFINE o == IF c = x THEN y ELSE x
             t == FaninsAbove(s, o, c)
  <1>1. c \in Nat /\ o \in Nat /\ c # 0 /\ {o, c} \ {0} = R[Last(s)] /\ 0 \in Nat /\ s \in Seq(Nat)
    BY DEF Search
  <1> HIDE DEF o
  <1>2. t \in Seq(Nat) /\ Pushes(s, R[Last(s)], t)
    <2> DEFINE A == Nat
    <2>1. s \in Seq(A) /\ o \in A /\ c \in A /\ 0 \in A
      BY <1>1
    <2> HIDE DEF A
    <2>2. FaninsAbove(s, o, c) \in Seq(A) /\ Pushes(s, {o, c} \ {0}, FaninsAbove(s, o, c))
      BY <2>1, FaninsPushed
    <2> QED
      BY <1>1, <2>2 DEF A
  <1>3. Last(t) = c
    <2> DEFINE u == s \o <<0>> \o NonZero(o)
    <2>1. t = u \o <<c>>
      BY <1>1 DEF FaninsAbove, NonZero
    <2>2. u \in Seq(Nat)
      <3>1. <<0>> \in Seq(Nat) /\ NonZero(o) \in Seq(Nat)
        BY <1>1 DEF NonZero
      <3> QED
        BY <1>1, <3>1
    <2> HIDE DEF u, t
    <2> QED
      BY <1>1, <2>1, <2>2 DEF Last
  <1> HIDE DEF t
  <1>4. Search(G, R, t, on \cup {Last(s)}, left)
    <2>1. /\ Len(t) > Len(s) /\ \A i \in 1..Len(s) : t[i] = s[i]
          /\ t[Len(s) + 1] = 0
          /\ \A j \in (Len(s) + 2)..Len(t) : t[j] # 0 /\ t[j] \in R[Last(s)]
          /\ \A d \in R[Last(s)] \cap G : d \in left \/ \E j \in (Len(s) + 2)..Len(t) : t[j] = d
      BY <1>2 DEF Pushes
    <2> QED
      BY <1>2, <2>1, SearchEnters
  <1>5. t # <<>>
    <2>1. Len(t) > Len(s) /\ Len(s) \in Nat
      BY <1>1, <1>2 DEF Pushes
    <2> QED
      BY <2>1
  <1>6. ~NoCycle(R, G)
    BY <1>3, <1>4, <1>5, SearchFindsCycle
  <1> QED
    BY <1>6

\* At the bottom lies what the search has started from, and no marker.
LEMMA Bottom ==
    ASSUME NEW G, NEW R, NEW s, NEW on, NEW left, Search(G, R, s, on, left), s # <<>>
    PROVE  /\ s[1] # 0 /\ Len(s) \in Nat \ {0}
           /\ Len(s) = 1 => on = {}
           /\ Len(s) = 2 /\ Last(s) = 0 => on = {s[1]}
  <1>1. s \in Seq(Nat) /\ Len(s) \in Nat \ {0}
    BY DEF Search
  <1>2. s[1] # 0
    <2>1. 1 \in 1..Len(s) /\ 1 - 1 \notin 1..Len(s)
      BY <1>1
    <2> QED
      BY <2>1 DEF Search, Markers
  <1>3. ASSUME Len(s) = 1 PROVE on = {}
    BY <1>3 DEF Search, Marked
  <1>4. ASSUME Len(s) = 2, Last(s) = 0 PROVE on = {s[1]}
    <2>1. s[2] = 0 /\ 2 \in 1..Len(s) /\ 2 - 1 = 1
      BY <1>4 DEF Last
    <2>2. s[1] \in on
      BY <2>1 DEF Search, Markers
    <2>3. \A v \in on : v = s[1]
      <3> SUFFICES ASSUME NEW v \in on PROVE v = s[1]
        OBVIOUS
      <3>1. PICK i \in 2..Len(s) : s[i - 1] = v
        BY DEF Search, Marked
      <3>2. i = 2
        BY <1>4, <3>1
      <3> QED
        BY <3>1, <3>2
    <2> QED
      BY <2>2, <2>3
  <1> QED
    BY <1>1, <1>2, <1>3, <1>4

\* What a step leaves of a stack.
LEMMA BottomStays ==
    ASSUME NEW s \in Seq(Nat), s # <<>>
    PROVE  /\ Front(s) # <<>> => Front(s)[1] = s[1] /\ Len(s) # 1
           /\ Front(s) = <<>> => Len(s) = 1
           /\ Len(s) >= 2 /\ SubSeq(s, 1, Len(s) - 2) # <<>> => SubSeq(s, 1, Len(s) - 2)[1] = s[1]
           /\ Len(s) >= 2 /\ SubSeq(s, 1, Len(s) - 2) = <<>> => Len(s) = 2
           /\ \A t \in Seq(Nat) : \A F : Pushes(s, F, t) => t # <<>> /\ t[1] = s[1]
           /\ \A i \in 1..Len(Front(s)) : i \in 1..Len(s) /\ Front(s)[i] = s[i]
           /\ Len(s) >= 2 => \A i \in 1..Len(SubSeq(s, 1, Len(s) - 2)) :
                i \in 1..Len(s) /\ SubSeq(s, 1, Len(s) - 2)[i] = s[i]
  <1> DEFINE n == Len(s)
             f == Front(s)
             r == SubSeq(s, 1, n - 2)
  <1>1. n \in Nat \ {0} /\ f = SubSeq(s, 1, n - 1)
    BY DEF Front
  <1>8. ASSUME NEW k \in 0..n, NEW q, q = SubSeq(s, 1, k)
        PROVE  q \in Seq(Nat) /\ Len(q) = k /\ \A i \in 1..k : q[i] = s[i]
    <2> HIDE DEF n
    <2>1. \A i \in 1..k : s[i] \in Nat
      BY <1>1 DEF n
    <2> QED
      BY <1>1, <1>8, <2>1, SubSeqProperties
  <1>2. f \in Seq(Nat) /\ Len(f) = n - 1 /\ \A i \in 1..(n - 1) : f[i] = s[i]
    <2> HIDE DEF n, f
    <2>1. n - 1 \in 0..n
      BY <1>1
    <2> QED
      BY <1>1, <1>8, <2>1
  <1>3. n >= 2 => r \in Seq(Nat) /\ Len(r) = n - 2 /\ \A i \in 1..(n - 2) : r[i] = s[i]
    <2> SUFFICES ASSUME n >= 2 PROVE r \in Seq(Nat) /\ Len(r) = n - 2 /\ \A i \in 1..(n - 2) : r[i] = s[i]
      OBVIOUS
    <2>1. r = SubSeq(s, 1, n - 2)
      OBVIOUS
    <2> HIDE DEF n, r
    <2>2. n - 2 \in 0..n
      BY <1>1
    <2> QED
      BY <1>8, <2>1, <2>2
  <1>4. ASSUME NEW t \in Seq(Nat), NEW F, Pushes(s, F, t) PROVE t # <<>> /\ t[1] = s[1]
    <2>1. Len(t) > n /\ 1 \in 1..n
      BY <1>1, <1>4 DEF Pushes
    <2> QED
      BY <1>1, <1>4, <2>1 DEF Pushes
  <1>5. \A q \in Seq(Nat) : q = <<>> <=> Len(q) = 0
    OBVIOUS
  <1> HIDE DEF n, f, r
  <1>6. /\ f # <<>> => f[1] = s[1] /\ n # 1
        /\ f = <<>> => n = 1
        /\ \A i \in 1..Len(f) : i \in 1..n /\ f[i] = s[i]
    BY <1>1, <1>2, <1>5, SMTT(20)
  <1>7. /\ n >= 2 /\ r # <<>> => r[1] = s[1]
        /\ n >= 2 /\ r = <<>> => n = 2
        /\ n >= 2 => \A i \in 1..Len(r) : i \in 1..n /\ r[i] = s[i]
    BY <1>1, <1>3, <1>5
  <1> QED
    BY <1>4, <1>6, <1>7 DEF n, f, r

(***************************************************************************)
(* The renumbering.                                                        *)
(***************************************************************************)
CodedGates == {v \in GateVars : code[v] # 0}
Coded(m) == Numbering(0..aig.maxvar, Sources(aig), GateVars, Reads, code, m) /\ new = 2 * m + 2
StackOfGates == \A i \in 1..Len(stack) : stack[i] # 0 => stack[i] \in GateVars
FromStart == stack # <<>> => visit # 0 /\ stack[1] = Var(Starts[visit])
StartsDone ==
    \A k \in 1..visit : /\ Var(Starts[k]) \in 0..aig.maxvar
                        /\ \/ Var(Starts[k]) = 0
                           \/ types[Var(Starts[k])].is = "none"
                           \/ code[Var(Starts[k])] # 0
                           \/ k = visit /\ stack # <<>>
Sound == GraphPhase /\ AllDefined /\ Acyclic
RecodePhase ==
    /\ Sound
    /\ stack \in Seq(0..aig.maxvar) /\ StackOfGates
    /\ Search(GateVars, Reads, stack, OnPath, CodedGates)
    /\ \E m \in Nat : Coded(m)
    /\ visit \in 0..Len(Starts) /\ FromStart /\ StartsDone

\* A turn of the search goes to a start or to what a gate on the stack reads, and codes a gate on the stack.
Finds ==
    /\ \A i \in 1..Len(stack') : stack'[i] # 0 =>
         \/ \E j \in 1..Len(stack) : stack'[i] = stack[j]
         \/ \E j \in 1..Len(stack) : stack[j] \in GateVars /\ stack'[i] \in Reads[stack[j]] \cap GateVars
         \/ stack'[i] \in GateVars /\ \E k \in 1..Len(Starts) : stack'[i] = Var(Starts[k])
    /\ \A v \in CodedGates' : v \in CodedGates \/ (v \in GateVars /\ \E j \in 1..Len(stack) : v = stack[j])
    /\ GateVars' = GateVars /\ Reads' = Reads

\* A variable that is defined is a source or a gate.
LEMMA SourceOrGate ==
    ASSUME GraphPhase, NEW v \in 1..aig.maxvar, types[v].is # "none"
    PROVE  v \in GateVars \/ \E k \in 1..Len(Sources(aig)) : Sources(aig)[k] = 2 * v
  <1> DEFINE I == Len(aig.inputs)
             L == Len(aig.latches)
  <1>1. IsGraph(aig) /\ Corresponds(aig, types) /\ aig.maxvar \in Nat /\ v \in 0..aig.maxvar
        /\ types \in [0..aig.maxvar -> Types]
    BY GraphParts DEF GraphPhase, GraphOK, Corresponds
  <1>2. /\ Len(Sources(aig)) = I + L
        /\ \A k \in 1..I : Sources(aig)[k] = aig.inputs[k]
        /\ \A k \in 1..L : Sources(aig)[I + k] = aig.latches[k].lit
    BY <1>1, DefinedInTurn
  <1>3. types[v].is \in {"none", "input", "latch", "and"}
    BY <1>1 DEF Types
  <1>4. types[v].is \in Whats => /\ types[v].idx \in 1..Count(aig, types[v].is)
                                 /\ Defined(aig, types[v].is, types[v].idx) = 2 * v
    BY <1>1 DEF Corresponds, Leads
  <1>5. I \in Nat /\ L \in Nat
    BY <1>1, GraphEntries
  <1> DEFINE i == types[v].idx
  <1>6. CASE types[v].is = "input"
    <2>1. i \in 1..I /\ aig.inputs[i] = 2 * v
      BY <1>4, <1>6 DEF Whats, Count, Defined
    <2> HIDE DEF I, L, i
    <2>2. i \in 1..(I + L)
      BY <1>5, <2>1
    <2> QED
      BY <1>2, <2>1, <2>2
  <1>7. CASE types[v].is = "latch"
    <2>1. i \in 1..L /\ aig.latches[i].lit = 2 * v
      BY <1>4, <1>7 DEF Whats, Count, Defined
    <2> HIDE DEF I, L, i
    <2>2. I + i \in 1..(I + L)
      BY <1>5, <2>1
    <2> QED
      BY <1>2, <2>1, <2>2
  <1>8. CASE types[v].is = "and"
    BY <1>8 DEF GateVars
  <1> QED
    BY <1>3, <1>6, <1>7, <1>8

\* No variable is both.
LEMMA VariablesAre ==
    ASSUME GraphPhase
    PROVE  Variables(aig.maxvar, Sources(aig), GateVars, Reads)
  <1> DEFINE S == Sources(aig)
             I == Len(aig.inputs)
             L == Len(aig.latches)
  <1>1. IsGraph(aig) /\ Corresponds(aig, types) /\ aig.maxvar \in Nat
    BY GraphParts DEF GraphPhase, GraphOK
  <1>2. /\ Len(S) = I + L /\ S \in Seq(LitsOf(aig))
        /\ \A k \in 1..I : S[k] = aig.inputs[k]
        /\ \A k \in 1..L : S[I + k] = aig.latches[k].lit
        /\ Len(S \o LhsLits(aig)) = I + L + Len(aig.ands)
        /\ \A k \in 1..(I + L) : (S \o LhsLits(aig))[k] = S[k]
        /\ S \o LhsLits(aig) \in Seq(LitsOf(aig))
    BY <1>1, DefinedInTurn
  <1>3. I \in Nat /\ L \in Nat /\ Len(aig.ands) \in Nat
    BY <1>1, GraphEntries
  <1>4. IsInjective(S \o LhsLits(aig))
    BY <1>1, DefinedOnce
  <1> HIDE DEF S
  <1>5. ASSUME NEW k \in 1..Len(S), NEW l \in 1..Len(S), S[k] = S[l] PROVE k = l
    <2> DEFINE d == S \o LhsLits(aig)
    <2> DEFINE N == Len(aig.ands)
    <2>1. DOMAIN d = 1..(I + L + N)
      <3> DEFINE A == LitsOf(aig)
      <3>1. d \in Seq(A) /\ Len(d) = I + L + N
        BY <1>2
      <3> HIDE DEF A, d, I, L, N
      <3> QED
        BY <3>1
    <2>4. I \in Nat /\ L \in Nat /\ N \in Nat /\ k \in 1..(I + L) /\ l \in 1..(I + L)
      BY <1>2, <1>3
    <2> HIDE DEF d, I, L, N
    <2>2. k \in 1..(I + L) /\ l \in 1..(I + L) /\ k \in DOMAIN d /\ l \in DOMAIN d
      BY <2>1, <2>4
    <2>3. d[k] = d[l]
      BY <1>2, <1>5, <2>2 DEF d
    <2> QED
      BY <1>4, <2>2, <2>3 DEF IsInjective, d
  <1>6. ASSUME NEW k \in 1..Len(S) PROVE Var(S[k]) \in 1..aig.maxvar /\ S[k] = 2 * Var(S[k]) /\ Var(S[k]) \notin GateVars
    <2>1. CASE k \in 1..I
      <3>1. S[k] = Defined(aig, "input", k) /\ Placed(aig, types, "input", k)
        BY <1>1, <1>2, <2>1 DEF Corresponds, Defined, Whats, Count
      <3> QED
        BY <3>1 DEF Placed, GateVars
    <2>2. CASE k \notin 1..I
      <3> DEFINE j == k - I
      <3>1. j \in 1..L /\ k = I + j
        <4> HIDE DEF I, L
        <4>1. k \in 1..(I + L)
          BY <1>2
        <4> QED
          BY <1>3, <2>2, <4>1
      <3> HIDE DEF j
      <3>2. S[k] = Defined(aig, "latch", j) /\ Placed(aig, types, "latch", j)
        BY <1>1, <1>2, <3>1 DEF Corresponds, Defined, Whats, Count
      <3> QED
        BY <3>2 DEF Placed, GateVars
    <2> QED
      BY <2>1, <2>2
  <1>7. Reads \in [GateVars -> SUBSET (1..aig.maxvar)]
    <2> SUFFICES ASSUME NEW v \in GateVars PROVE Fanin(v) \in SUBSET (1..aig.maxvar)
      BY DEF Reads
    <2>1. Var(Gate(v).rhs0) \in 0..aig.maxvar /\ Var(Gate(v).rhs1) \in 0..aig.maxvar
      BY GateReads
    <2> QED
      BY <1>1, <2>1 DEF Fanin
  <1>8. GateVars \in SUBSET (1..aig.maxvar) /\ Len(S) \in Nat
    <2>1. GateVars \in SUBSET (1..aig.maxvar)
      BY DEF GateVars
    <2> HIDE DEF I, L
    <2> QED
      BY <1>2, <1>3, <2>1
  <1> QED
    BY <1>1, <1>5, <1>6, <1>7, <1>8 DEF Variables, S

\* Every literal the search starts from is defined, unless it is a reset value.
LEMMA StartsAre ==
    ASSUME Sound
    PROVE  /\ Starts \in Seq(Nat) /\ Len(Starts) \in Nat
           /\ \A k \in 1..Len(Starts) : Starts[k] \in Nat
           /\ \A k \in 1..Len(Starts) :
                \/ Starts[k] \in LitsOf(aig) /\ LiteralDefined(Starts[k])
                \/ \E l \in 1..Len(aig.latches) : Starts[k] = aig.latches[l].reset
           /\ \A k \in 1..Len(aig.latches) : aig.latches[k].next \in ToSet(Starts) /\ aig.latches[k].reset \in ToSet(Starts)
           /\ \A lit \in ToSet(SymbolLits(aig)) : lit \in ToSet(Starts)
           /\ \A lit \in ToSet(Starts) : \E k \in 1..Len(Starts) : lit = Starts[k]
           /\ \A k \in 1..Len(Starts) :
                \/ Starts[k] \in ToSet(SymbolLits(aig))
                \/ \E l \in 1..Len(aig.latches) : Starts[k] = aig.latches[l].next \/ Starts[k] = aig.latches[l].reset
  <1> DEFINE B0 == LitsOf(aig)
             A == Nat
             pairs == [k \in 1..Len(aig.latches) |-> <<aig.latches[k].next, aig.latches[k].reset>>]
             p == FlattenSeq(pairs)
             q == SymbolLits(aig)
             L == Len(aig.latches)
  <1>1. IsGraph(aig) /\ aig.maxvar \in Nat /\ Word \in Nat
    BY GraphParts, WordIs DEF Sound, GraphPhase, GraphOK
  <1>2. L \in Nat /\ \A k \in 1..L : aig.latches[k].next \in A /\ aig.latches[k].reset \in A
    <2>1. \A x \in LitsOf(aig) : x \in Nat
      BY <1>1 DEF LitsOf
    <2>2. \A x \in 0..(Word - 1) : x \in Nat
      BY <1>1
    <2> QED
      BY <1>1, <2>1, <2>2, GraphEntries
  <1>17. \A k \in 1..L : aig.latches[k].next \in B0
    BY <1>1, GraphEntries
  <1>18. q \in Seq(B0) /\ ToSet(q) \in SUBSET B0
    BY <1>1, SymbolLitsAre, SetOfSeq
  <1>3. q \in Seq(A) /\ ToSet(q) \in SUBSET A
    <2>1. \A x \in B0 : x \in A
      BY <1>1 DEF LitsOf
    <2> HIDE DEF A, B0, q
    <2>2. q \in Seq(A)
      BY <1>18, <2>1
    <2> QED
      BY <1>18, <2>1, <2>2
  <1> HIDE DEF A, L, B0
  <1>4. pairs \in Seq(Seq(A)) /\ Len(pairs) = L
        /\ \A k \in 1..L : pairs[k] = <<aig.latches[k].next, aig.latches[k].reset>>
    <2>1. pairs = [k \in 1..L |-> <<aig.latches[k].next, aig.latches[k].reset>>]
      BY DEF L
    <2>2. \A k \in 1..L : <<aig.latches[k].next, aig.latches[k].reset>> \in Seq(A)
      BY <1>2
    <2> HIDE DEF pairs
    <2> DEFINE B == Seq(A)
    <2> HIDE DEF B
    <2>3. \A k \in 1..L : pairs[k] \in B
      BY <2>1, <2>2 DEF B
    <2>4. pairs \in Seq(B) /\ Len(pairs) = L
      BY <1>2, <2>1, <2>3
    <2> QED
      BY <2>1, <2>4 DEF B
  <1> HIDE DEF pairs, q
  <1>5. p \in Seq(A) /\ ToSet(p) = UNION {ToSet(pairs[k]) : k \in 1..L}
    BY <1>4, Flattened
  <1> HIDE DEF p
  <1>6. \A x, y : ToSet(<<x, y>>) = {x, y}
    BY DEF ToSet
  <1>7. Starts = p \o q
    BY DEF Starts, p, q, pairs
  <1>8. Starts \in Seq(A) /\ ToSet(Starts) = ToSet(p) \cup ToSet(q)
    BY <1>3, <1>5, <1>7, SetOfConcat
  <1>13. \A k \in 1..L : ToSet(pairs[k]) = {aig.latches[k].next, aig.latches[k].reset}
    <2> SUFFICES ASSUME NEW k \in 1..L PROVE ToSet(pairs[k]) = {aig.latches[k].next, aig.latches[k].reset}
      OBVIOUS
    <2>1. pairs[k] = <<aig.latches[k].next, aig.latches[k].reset>>
      BY <1>4
    <2> DEFINE x == aig.latches[k].next
               y == aig.latches[k].reset
    <2>2. ToSet(<<x, y>>) = {x, y}
      BY <1>6
    <2> QED
      BY <2>1, <2>2
  <1>14. \A x : x \in ToSet(p) <=> \E k \in 1..L : x \in ToSet(pairs[k])
    BY <1>5
  <1>15. \A x : x \in ToSet(p) <=> \E k \in 1..L : x = aig.latches[k].next \/ x = aig.latches[k].reset
    BY <1>13, <1>14
  <1>9. \A k \in 1..L : aig.latches[k].next \in ToSet(Starts) /\ aig.latches[k].reset \in ToSet(Starts)
    BY <1>15, <1>8
  <1>10. ASSUME NEW lit \in ToSet(Starts)
         PROVE  (lit \in B0 /\ LiteralDefined(lit)) \/ \E l \in 1..L : lit = aig.latches[l].reset
    <2>1. CASE lit \in ToSet(q)
      BY <1>18, <2>1 DEF Sound, AllDefined, q
    <2>2. CASE lit \in ToSet(p)
      <3>1. PICK k \in 1..L : lit \in {aig.latches[k].next, aig.latches[k].reset}
        BY <1>15, <2>2
      <3>2. CASE lit = aig.latches[k].next
        BY <1>17, <3>2 DEF Sound, AllDefined, L
      <3>3. CASE lit = aig.latches[k].reset
        BY <3>3
      <3> QED
        BY <3>1, <3>2, <3>3
    <2> QED
      BY <1>8, <2>1, <2>2
  <1>11. ToSet(Starts) = {Starts[k] : k \in 1..Len(Starts)} /\ ToSet(Starts) \in SUBSET A /\ Len(Starts) \in Nat
    BY <1>8, SetOfSeq
  <1>12. \A k \in 1..Len(Starts) : Starts[k] \in ToSet(Starts)
    BY <1>11
  <1>16. \A k \in 1..Len(Starts) : \/ Starts[k] \in ToSet(q)
                                    \/ \E l \in 1..L : Starts[k] = aig.latches[l].next \/ Starts[k] = aig.latches[l].reset
    BY <1>8, <1>12, <1>15
  <1>19. \A k \in 1..Len(Starts) : (Starts[k] \in B0 /\ LiteralDefined(Starts[k])) \/ \E l \in 1..L : Starts[k] = aig.latches[l].reset
    BY <1>10, <1>12
  <1>20. \A k \in 1..Len(Starts) : Starts[k] \in Nat
    BY <1>11, <1>12 DEF A
  <1> QED
    BY <1>8, <1>9, <1>11, <1>16, <1>19, <1>20 DEF A, B0, L, q

\* Marks are no part of what the check has found.
LEMMA SoundStays ==
    ASSUME Sound, UNCHANGED aig, types' \in [0..aig.maxvar -> Types],
           \A v \in 0..aig.maxvar : types'[v].is = types[v].is /\ types'[v].idx = types[v].idx
    PROVE  /\ Sound' /\ GateVars' = GateVars /\ Reads' = Reads
           /\ Sources(aig)' = Sources(aig) /\ Starts' = Starts
  <1>1. GraphPhase' /\ GateVars' = GateVars /\ Reads' = Reads /\ AllDefined'
    BY MarksOnlySearch DEF Sound
  <1>2. Acyclic'
    <2>1. NoCycle(Reads, GateVars)
      BY AcyclicMeans DEF Sound
    <2>2. NoCycle(Reads', GateVars')
      BY <1>1, <2>1
    <2>3. NoCycle(Reads, GateVars)' <=> Acyclic'
      BY <1>1, AcyclicMeans, PTL
    <2> QED
      BY <2>2, <2>3
  <1>3. Sources(aig)' = Sources(aig) /\ Starts' = Starts
    BY DEF Starts
  <1> QED
    BY <1>1, <1>2, <1>3 DEF Sound

\* The steps of aiger_reencode: StartReencode,
LEMMA StartReencodeStep ==
    ASSUME Sound, stack = <<>>, \A v \in 0..aig.maxvar : ~types[v].onstack, StartReencode
    PROVE  /\ UNCHANGED <<aig, types, stack>>
           /\ \/ at' = "reencoded" /\ IsReencoded(aig)
              \/ at' = "recode" /\ RecodePhase' /\ CodedGates' = {}
  <1>1. UNCHANGED <<aig, types, stack>> /\ visit' = 0
    BY DEF StartReencode
  <1>2. CASE IsReencoded(aig)
    BY <1>2 DEF StartReencode
  <1>3. CASE ~IsReencoded(aig)
    <2>1. /\ at' = "recode" /\ new' = 2 * Len(Sources(aig)) + 2
          /\ code' = [v \in 0..aig.maxvar |-> 2 * SelectInSeq(Sources(aig), LAMBDA lit : lit = 2 * v)]
      BY <1>3 DEF StartReencode
    <2>2. GraphPhase /\ aig.maxvar \in Nat
      BY GatesAre DEF Sound
    <2>3. Numbering(0..aig.maxvar, Sources(aig), GateVars, Reads, code', Len(Sources(aig)))
          /\ \A v \in GateVars : code'[v] = 0
      <3>1. CodesOfPlaces(aig.maxvar, Sources(aig), code')
        BY <2>1 DEF CodesOfPlaces
      <3> QED
        BY <2>2, <3>1, VariablesAre, NumberingBegins
    <2>4. Sound' /\ GateVars' = GateVars /\ Reads' = Reads /\ Sources(aig)' = Sources(aig)
      BY <1>1, <2>2, GatesAre, SoundStays
    <2>5. OnPath' = {} /\ CodedGates' = {}
      BY <1>1, <2>2, <2>3, <2>4, GatesAre DEF OnPath, CodedGates
    <2>6. Search(GateVars', Reads', stack', OnPath', CodedGates')
      BY <1>1, <2>5, SearchBegins
    <2>7. Coded(Len(Sources(aig)))'
      BY <1>1, <2>1, <2>3, <2>4 DEF Coded
    <2>8. Len(Sources(aig)) \in Nat
      BY <2>2, VariablesAre DEF Variables
    <2>9. stack' \in Seq(0..aig'.maxvar) /\ StackOfGates' /\ FromStart' /\ StartsDone'
      BY <1>1 DEF StackOfGates, FromStart, StartsDone
    <2>10. visit' \in 0..Len(Starts')
      BY <1>1, <2>4, StartsAre
    <2>11. \E m \in Nat : Coded(m)'
      BY <1>1, <2>7, <2>8
    <2> QED
      BY <1>1, <2>1, <2>4, <2>5, <2>6, <2>9, <2>10, <2>11 DEF RecodePhase
  <1> QED
    BY <1>2, <1>3, <1>1

\* What has a code, and what has none yet.
LEMMA UncodedIsGate ==
    ASSUME Sound, NEW m, Coded(m), NEW v \in 1..aig.maxvar, types[v].is # "none", code[v] = 0
    PROVE  v \in GateVars
  <1>1. GraphPhase /\ Variables(aig.maxvar, Sources(aig), GateVars, Reads)
    BY VariablesAre DEF Sound
  <1>2. SUFFICES ASSUME NEW k \in 1..Len(Sources(aig)), Sources(aig)[k] = 2 * v
                 PROVE  FALSE
    BY <1>1, SourceOrGate
  <1>3. Var(Sources(aig)[k]) = v /\ k \in Nat /\ k # 0
    <2>1. v \in Nat /\ Len(Sources(aig)) \in Nat /\ aig.maxvar \in Nat
      BY <1>1 DEF Variables
    <2>2. Var(2 * v) = v
      BY <2>1, Doubled
    <2> QED
      BY <1>2, <2>1, <2>2
  <1>4. code[v] = 2 * k
    BY <1>3 DEF Coded, Numbering
  <1> QED
    BY <1>3, <1>4

\* NextStart,
LEMMA NextStartStep ==
    ASSUME RecodePhase, NextStart, Var(Starts[visit + 1]) <= aig.maxvar
    PROVE  at' = at /\ UNCHANGED <<aig, types>> /\ RecodePhase' /\ Finds
  <1>1. /\ Sound /\ UNCHANGED <<aig, types, code, new>> /\ stack = <<>> /\ visit \in 0..Len(Starts)
        /\ visit' = visit + 1 /\ visit < Len(Starts) /\ StartsDone
        /\ Search(GateVars, Reads, <<>>, OnPath, CodedGates)
    BY DEF RecodePhase, NextStart
  <1>2. PICK m \in Nat : Coded(m)
    BY DEF RecodePhase
  <1>3. GraphPhase /\ aig.maxvar \in Nat /\ types \in [0..aig.maxvar -> Types] /\ Len(Starts) \in Nat
        /\ GateVars \in SUBSET (Nat \ {0}) /\ GateVars \in SUBSET (0..aig.maxvar)
    BY <1>1, GatesAre, StartsAre DEF Sound
  <1>4. Sound' /\ GateVars' = GateVars /\ Reads' = Reads /\ Sources(aig)' = Sources(aig) /\ Starts' = Starts
    BY <1>1, <1>3, SoundStays
  <1>5. OnPath' = OnPath /\ CodedGates' = CodedGates /\ Coded(m)'
    BY <1>1, <1>2, <1>4 DEF OnPath, CodedGates, Coded
  <1>6. visit \in Nat /\ visit + 1 \in 1..Len(Starts) /\ visit + 1 \in 0..Len(Starts) /\ visit + 1 # 0
        /\ (\A k \in 1..(visit + 1) : k = visit + 1 \/ k \in 1..visit)
        /\ \A k \in 1..visit : k # visit + 1
    BY <1>1, <1>3
  <1> DEFINE lit == Starts[visit + 1]
             v == Var(lit)
  <1>21. at' = at /\ stack' = IF Searched(lit) THEN <<v>> ELSE <<>>
    <2>1. aig.maxvar \in Nat /\ v <= aig.maxvar /\ v \in Nat
      <3>1. lit \in Nat
        BY <1>1, <1>6, StartsAre
      <3> QED
        BY <1>3, <3>1, Literals
    <2> DEFINE w == v
    <2>2. ~(w > aig.maxvar)
      <3> HIDE DEF w
      <3>1. w \in Nat /\ w <= aig.maxvar
        BY <2>1 DEF w
      <3> QED
        BY <2>1, <3>1
    <2> QED
      BY <2>2 DEF NextStart
  <1>7. lit \in Nat /\ v \in 0..aig.maxvar
    <2>1. lit \in Nat
      BY <1>1, <1>6, StartsAre
    <2>2. v \in Nat
      BY <2>1, Literals
    <2> HIDE DEF v, lit
    <2>3. v <= aig.maxvar
      BY DEF v, lit
    <2> QED
      BY <1>3, <2>1, <2>2, <2>3
  <1>22. types[v].is \in {"none", "input", "latch", "and"} /\ code[v] \in Nat
    <2>1. types[v] \in Types
      BY <1>3, <1>7
    <2> QED
      BY <1>2, <1>7, <2>1 DEF Types, Coded, Numbering
  <1>8. (stack' = <<>> /\ (v = 0 \/ types[v].is = "none" \/ code[v] # 0)) \/ (stack' = <<v>> /\ v \in GateVars)
    <2> HIDE DEF v, lit
    <2>1. lit = 2 * Var(lit) + (lit % 2) /\ lit % 2 \in {0, 1} /\ Var(lit) \in Nat
      BY <1>7, Literals
    <2>2. lit < 2 => v = 0
      <3>1. \A x \in Nat : \A r \in {0, 1} : 2 * x + r < 2 => x = 0
        OBVIOUS
      <3> QED
        BY <2>1, <3>1 DEF v
    <2>3. CASE ~Searched(lit)
      <3>1. stack' = <<>>
        BY <1>21, <2>3
      <3>2. ASSUME v # 0, types[v].is # "none", code[v] = 0 PROVE FALSE
        <4>1. ~(lit < 2)
          BY <1>7, <2>2, <3>2
        <4>2. lit > 1
          BY <1>7, <4>1
        <4>3. types[v].is # "and"
          BY <2>3, <3>2, <4>2 DEF Searched, v
        <4>4. v \in 1..aig.maxvar
          BY <1>3, <1>7, <3>2
        <4>5. v \in GateVars
          BY <1>1, <1>2, <3>2, <4>4, UncodedIsGate
        <4> QED
          BY <1>1, <4>3, <4>5, GatesAre DEF Sound
      <3> QED
        BY <3>1, <3>2
    <2>4. CASE Searched(lit)
      <3>1. lit > 1 /\ types[v].is = "and"
        BY <2>4 DEF Searched, v
      <3>2. v # 0
        BY <1>7, <2>1, <3>1 DEF v
      <3>3. v \in GateVars
        BY <1>1, <1>7, <3>1, <3>2, GatesAre DEF Sound
      <3> QED
        BY <1>21, <2>4, <3>3
    <2> QED
      BY <2>3, <2>4
  <1> HIDE DEF v
  <1>9. stack' \in Seq(0..aig.maxvar) /\ StackOfGates' /\ Search(GateVars, Reads, stack', OnPath, CodedGates)
        /\ (stack' # <<>> => stack'[1] = v)
    <2>1. CASE stack' = <<>>
      <3>1. Len(stack') = 0 /\ stack' \in Seq(0..aig.maxvar)
        BY <2>1
      <3> QED
        BY <1>1, <2>1, <3>1 DEF StackOfGates
    <2>2. CASE stack' = <<v>> /\ v \in GateVars
      <3>1. v \in Nat \ {0} /\ v \in 0..aig.maxvar
        BY <1>3, <2>2
      <3>2. Search(GateVars, Reads, <<v>>, OnPath, CodedGates)
        BY <1>1, <3>1, SearchStarts
      <3>3. Len(<<v>>) = 1 /\ <<v>>[1] = v
        OBVIOUS
      <3>4. <<v>> \in Seq(0..aig.maxvar)
        <4> DEFINE A == 0..aig.maxvar
        <4>1. v \in A
          BY <3>1
        <4> HIDE DEF A
        <4>2. <<v>> \in Seq(A)
          BY <4>1
        <4> QED
          BY <4>2 DEF A
      <3> QED
        BY <1>4, <2>2, <3>2, <3>3, <3>4 DEF StackOfGates
    <2> QED
      BY <1>8, <2>1, <2>2
  <1>10. FromStart' /\ StartsDone'
    <2>1. FromStart'
      BY <1>1, <1>4, <1>6, <1>9 DEF FromStart, v
    <2>2. ASSUME NEW k \in 1..(visit + 1)
          PROVE  /\ Var(Starts[k]) \in 0..aig.maxvar
                 /\ \/ Var(Starts[k]) = 0 \/ types[Var(Starts[k])].is = "none" \/ code[Var(Starts[k])] # 0
                    \/ (k = visit + 1 /\ stack' # <<>>)
      <3>1. CASE k = visit + 1
        <4>1. v = 0 \/ types[v].is = "none" \/ code[v] # 0 \/ stack' # <<>>
          <5>1. <<v>> # <<>>
            OBVIOUS
          <5> QED
            BY <1>8, <5>1
        <4> QED
          BY <1>7, <3>1, <4>1 DEF v
      <3>2. CASE k \in 1..visit
        BY <1>1, <3>2 DEF StartsDone
      <3> QED
        BY <1>6, <3>1, <3>2
    <2> QED
      BY <1>1, <1>4, <2>1, <2>2 DEF StartsDone
  <1>11. \E j \in Nat : Coded(j)'
    BY <1>1, <1>2, <1>5
  <1>12. Finds
    <2>1. \A i \in 1..Len(stack') : stack'[i] # 0 => stack'[i] = v /\ v \in GateVars
      <3>1. Len(<<>>) = 0 /\ Len(<<v>>) = 1 /\ <<v>>[1] = v
        OBVIOUS
      <3> QED
        BY <1>8, <3>1
    <2>2. \A i \in 1..Len(stack') : stack'[i] # 0 =>
             stack'[i] \in GateVars /\ \E k \in 1..Len(Starts) : stack'[i] = Var(Starts[k])
      BY <1>6, <2>1 DEF v
    <2> QED
      BY <1>4, <1>5, <2>2 DEF Finds
  <1> QED
    BY <1>1, <1>4, <1>5, <1>6, <1>9, <1>10, <1>11, <1>12, <1>21 DEF RecodePhase

\* and where it finds no code: at a reset value beyond the literals of the graph.
LEMMA StartBeyond ==
    ASSUME RecodePhase, NextStart, ~(Var(Starts[visit + 1]) <= aig.maxvar)
    PROVE  /\ at' = "undefined" /\ UNCHANGED <<aig, types>> /\ stack' = <<>>
           /\ Sound /\ OnPath = {}
           /\ \E l \in 1..Len(aig.latches) : Var(aig.latches[l].reset) > aig.maxvar
  <1>1. /\ Sound /\ UNCHANGED <<aig, types>> /\ stack = <<>> /\ visit \in 0..Len(Starts) /\ visit < Len(Starts)
        /\ Search(GateVars, Reads, <<>>, OnPath, CodedGates)
    BY DEF RecodePhase, NextStart
  <1> DEFINE lit == Starts[visit + 1]
  <1>2. visit + 1 \in 1..Len(Starts)
    BY <1>1, StartsAre
  <1>3. GraphPhase /\ aig.maxvar \in Nat /\ lit \in Nat /\ Var(lit) \in Nat
    <2>1. lit \in Nat
      BY <1>1, <1>2, StartsAre
    <2> QED
      BY <1>1, <2>1, GatesAre, Literals DEF Sound
  <1>4. lit \notin LitsOf(aig)
    BY <1>3, LitVar
  <1>5. \E l \in 1..Len(aig.latches) : lit = aig.latches[l].reset
    BY <1>1, <1>2, <1>4, StartsAre
  <1>6. Var(lit) > aig.maxvar
    <2> DEFINE w == Var(lit)
    <2>1. ~(w <= aig.maxvar) /\ w \in Nat
      BY <1>3
    <2> HIDE DEF w
    <2> QED
      BY <1>3, <2>1 DEF w
  <1>7. at' = "undefined" /\ stack' = <<>>
    BY <1>6 DEF NextStart
  <1>8. OnPath = {}
    <2>1. Len(<<>>) = 0
      OBVIOUS
    <2> QED
      BY <1>1, <2>1 DEF Search, Marked
  <1> QED
    BY <1>1, <1>5, <1>6, <1>7, <1>8

\* A stack of variables is one of numbers.
LEMMA StackType ==
    ASSUME NEW M \in Nat, NEW s \in Seq(0..M)
    PROVE  s \in Seq(Nat)
  <1> DEFINE A == 0..M
  <1>1. \A x \in A : x \in Nat
    OBVIOUS
  <1> HIDE DEF A
  <1>2. ASSUME s \in Seq(A) PROVE s \in Seq(Nat)
    BY <1>1, <1>2
  <1> QED
    BY <1>2 DEF A

\* PopCoded,
LEMMA PopCodedStep ==
    ASSUME RecodePhase, PopCoded
    PROVE  at' = at /\ UNCHANGED <<aig, types>> /\ RecodePhase' /\ Finds
  <1> DEFINE e == Last(stack)
  <1>1. /\ Sound /\ UNCHANGED <<aig, types, at, code, new, visit>> /\ stack \in Seq(0..aig.maxvar) /\ stack # <<>>
        /\ StackOfGates /\ visit \in 0..Len(Starts) /\ FromStart /\ StartsDone
        /\ e # 0 /\ (code[e] # 0 \/ types[e].onstack) /\ stack' = Front(stack)
        /\ Search(GateVars, Reads, stack, OnPath, CodedGates)
    BY DEF RecodePhase, PopCoded, Recoding
  <1>2. PICK m \in Nat : Coded(m)
    BY DEF RecodePhase
  <1>3. GraphPhase /\ aig.maxvar \in Nat /\ types \in [0..aig.maxvar -> Types]
        /\ GateVars \in SUBSET (Nat \ {0}) /\ GateVars \in SUBSET (0..aig.maxvar)
    BY <1>1, GatesAre DEF Sound
  <1>4. Sound' /\ GateVars' = GateVars /\ Reads' = Reads /\ Sources(aig)' = Sources(aig) /\ Starts' = Starts
    BY <1>1, <1>3, SoundStays
  <1>5. OnPath' = OnPath /\ CodedGates' = CodedGates /\ Coded(m)'
    BY <1>1, <1>2, <1>4 DEF OnPath, CodedGates, Coded
  <1>6. e = stack[Len(stack)] /\ Len(stack) \in 1..Len(stack) /\ Len(stack) \in Nat \ {0} /\ Front(stack) \in Seq(0..aig.maxvar)
    <2>1. Len(stack) \in Nat \ {0} /\ Last(stack) = stack[Len(stack)] /\ Front(stack) \in Seq(0..aig.maxvar)
      BY <1>1, LastFront
    <2> QED
      BY <2>1
  <1>7. e \in GateVars
    BY <1>1, <1>6 DEF StackOfGates
  <1>8. code[e] # 0 /\ e \in CodedGates
    <2>1. e \notin OnPath
      <3>1. NoCycle(Reads, GateVars)
        BY <1>1, AcyclicMeans DEF Sound
      <3> QED
        BY <1>1, <1>3, <3>1, SearchFindsCycle
    <2> QED
      BY <1>1, <1>7, <2>1 DEF OnPath, CodedGates
  <1>9. Search(GateVars, Reads, stack', OnPath, CodedGates)
    BY <1>1, <1>3, <1>8, SearchPops
  <1>10. /\ stack' # <<>> => stack'[1] = stack[1] /\ Len(stack) # 1
         /\ stack' = <<>> => Len(stack) = 1
         /\ \A i \in 1..Len(stack') : i \in 1..Len(stack) /\ stack'[i] = stack[i]
    <2>1. stack \in Seq(Nat)
      BY <1>1, <1>3, StackType
    <2> QED
      BY <1>1, <2>1, BottomStays
  <1>11. StackOfGates'
    BY <1>1, <1>4, <1>10 DEF StackOfGates
  <1>12. FromStart'
    BY <1>1, <1>4, <1>10 DEF FromStart
  <1>13. StartsDone'
    <2> SUFFICES ASSUME NEW k \in 1..visit
                 PROVE  /\ Var(Starts[k]) \in 0..aig.maxvar
                        /\ \/ Var(Starts[k]) = 0 \/ types[Var(Starts[k])].is = "none" \/ code[Var(Starts[k])] # 0
                           \/ (k = visit /\ stack' # <<>>)
      BY <1>1, <1>4 DEF StartsDone
    <2>1. CASE k = visit /\ stack' = <<>>
      <3>1. e = stack[1]
        BY <1>6, <1>10, <2>1
      <3>2. e = Var(Starts[k])
        BY <1>1, <2>1, <3>1 DEF FromStart
      <3>3. Var(Starts[k]) \in 0..aig.maxvar
        BY <1>1 DEF StartsDone
      <3> QED
        BY <1>8, <2>1, <3>2, <3>3
    <2> QED
      BY <1>1, <2>1 DEF StartsDone
  <1>14. \E j \in Nat : Coded(j)'
    BY <1>1, <1>2, <1>5
  <1>15. Finds
    BY <1>4, <1>5, <1>10 DEF Finds
  <1> QED
    BY <1>1, <1>4, <1>5, <1>6, <1>9, <1>11, <1>12, <1>13, <1>14, <1>15 DEF RecodePhase

\* What Expand pushes are the gates among what the gate reads.
LEMMA GatesPushed ==
    ASSUME Sound, NEW e \in GateVars, \A c \in Fanin(e) : ~types[c].onstack \/ c \notin GateVars, e \notin Fanin(e)
    PROVE  LET pair == {Var(Gate(e).rhs0), Var(Gate(e).rhs1)}
               push(v) == IF \/ v = 0 \/ types[v].is \in {"input", "latch"}
                             \/ types[v].onstack \/ v = e
                          THEN <<>> ELSE <<v>> IN
           \E x \in 0..aig.maxvar : \E y \in 0..aig.maxvar :
             /\ push(Max(pair)) = NonZero(x) /\ push(Min(pair)) = NonZero(y)
             /\ {x, y} \ {0} = Fanin(e) \cap GateVars
  <1> DEFINE a == Var(Gate(e).rhs0)
             b == Var(Gate(e).rhs1)
             pair == {a, b}
             push(v) == IF \/ v = 0 \/ types[v].is \in {"input", "latch"}
                           \/ types[v].onstack \/ v = e
                        THEN <<>> ELSE <<v>>
             left(v) == IF v \in GateVars THEN v ELSE 0
  <1>1. GraphPhase /\ aig.maxvar \in Nat /\ types \in [0..aig.maxvar -> Types]
        /\ GateVars \in SUBSET (Nat \ {0}) /\ GateVars \in SUBSET (0..aig.maxvar)
        /\ (\A v \in GateVars : types[v].is = "and")
        /\ \A v \in 0..aig.maxvar : v # 0 /\ types[v].is = "and" => v \in GateVars
    BY GatesAre DEF Sound
  <1>2. a \in 0..aig.maxvar /\ b \in 0..aig.maxvar /\ Fanin(e) = pair \ {0} /\ types[e].idx \in 1..Len(aig.ands)
    BY <1>1, GateReads DEF Fanin
  <1>3. LiteralDefined(Gate(e).rhs0) /\ LiteralDefined(Gate(e).rhs1)
    BY <1>2 DEF Sound, AllDefined, Gate
  <1>4. \A v \in pair : v = 0 \/ types[v].is \in {"input", "latch", "and"}
    <2>1. \A v \in 0..aig.maxvar : types[v].is \in {"none", "input", "latch", "and"}
      BY <1>1 DEF Types
    <2> QED
      BY <1>2, <1>3, <2>1 DEF LiteralDefined
  <1>5. \A v \in pair : push(v) = NonZero(left(v)) /\ left(v) \in 0..aig.maxvar
    <2> SUFFICES ASSUME NEW v \in pair PROVE push(v) = NonZero(left(v)) /\ left(v) \in 0..aig.maxvar
      OBVIOUS
    <2>1. v \in 0..aig.maxvar
      BY <1>2
    <2>2. CASE v = 0
      BY <1>1, <2>1, <2>2 DEF NonZero
    <2>3. CASE v # 0 /\ types[v].is \in {"input", "latch"}
      BY <1>1, <2>1, <2>3 DEF NonZero
    <2>4. CASE v # 0 /\ types[v].is = "and"
      <3>1. v \in GateVars /\ v \in Fanin(e)
        BY <1>1, <1>2, <2>1, <2>4
      <3>2. ~types[v].onstack /\ v # e
        BY <3>1
      <3> QED
        BY <2>1, <2>4, <3>1, <3>2 DEF NonZero
    <2> QED
      BY <1>4, <2>2, <2>3, <2>4
  <1>6. {left(v) : v \in pair} \ {0} = Fanin(e) \cap GateVars
    BY <1>1, <1>2
  <1>7. {Max(pair), Min(pair)} = pair
    <2>1. pair \in SUBSET Nat /\ pair # {} /\ IsFiniteSet(pair)
      <3>1. IsFiniteSet({a}) /\ IsFiniteSet({b})
        BY FS_Singleton
      <3>2. IsFiniteSet({a} \cup {b}) /\ pair = {a} \cup {b}
        BY <3>1, FS_Union
      <3>3. a \in 0..aig.maxvar /\ b \in 0..aig.maxvar
        BY <1>2
      <3> HIDE DEF a, b
      <3>4. a \in Nat /\ b \in Nat
        BY <3>3
      <3> QED
        BY <3>2, <3>4
    <2> HIDE DEF a, b
    <2>2. Max(pair) \in pair /\ Min(pair) \in pair /\ \A k \in pair : k <= Max(pair) /\ Min(pair) <= k
      BY <2>1, MaxOf, MinOf
    <2>3. a \in Nat /\ b \in Nat
      BY <2>1
    <2> QED
      BY <2>2, <2>3
  <1> DEFINE x == Max(pair)
             y == Min(pair)
  <1> HIDE DEF x, y, push, left, pair
  <1>8. x \in pair /\ y \in pair /\ pair = {x, y}
    BY <1>7 DEF x, y
  <1>9. {left(x), left(y)} = {left(v) : v \in pair}
    BY <1>8
  <1>10. /\ left(x) \in 0..aig.maxvar /\ left(y) \in 0..aig.maxvar
         /\ push(x) = NonZero(left(x)) /\ push(y) = NonZero(left(y))
         /\ {left(x), left(y)} \ {0} = Fanin(e) \cap GateVars
    BY <1>5, <1>6, <1>8, <1>9
  <1>11. \E i \in 0..aig.maxvar : \E j \in 0..aig.maxvar :
            push(x) = NonZero(i) /\ push(y) = NonZero(j) /\ {i, j} \ {0} = Fanin(e) \cap GateVars
    BY <1>10
  <1> QED
    BY <1>11 DEF x, y, push, pair

\* Expand,
LEMMA ExpandStep ==
    ASSUME RecodePhase, Expand
    PROVE  at' = at /\ UNCHANGED aig /\ RecodePhase' /\ Finds
  <1> DEFINE e == Last(stack)
             pair == {Var(Gate(e).rhs0), Var(Gate(e).rhs1)}
             push(v) == IF \/ v = 0 \/ types[v].is \in {"input", "latch"}
                           \/ types[v].onstack \/ v = e
                        THEN <<>> ELSE <<v>>
  <1>1. /\ Sound /\ UNCHANGED <<aig, at, code, new, visit>> /\ stack \in Seq(0..aig.maxvar) /\ stack # <<>>
        /\ StackOfGates /\ visit \in 0..Len(Starts) /\ FromStart /\ StartsDone
        /\ e # 0 /\ code[e] = 0 /\ ~types[e].onstack
        /\ types' = [types EXCEPT ![e].onstack = TRUE]
        /\ Search(GateVars, Reads, stack, OnPath, CodedGates)
    BY DEF RecodePhase, Expand, Recoding
  <1>2. stack' = stack \o <<0>> \o push(Max(pair)) \o push(Min(pair))
    BY DEF Expand
  <1>3. PICK m \in Nat : Coded(m)
    BY DEF RecodePhase
  <1>4. GraphPhase /\ aig.maxvar \in Nat /\ types \in [0..aig.maxvar -> Types]
        /\ GateVars \in SUBSET (Nat \ {0}) /\ GateVars \in SUBSET (0..aig.maxvar)
    BY <1>1, GatesAre DEF Sound
  <1>5. e \in GateVars /\ e \in 0..aig.maxvar /\ e \notin OnPath \cup CodedGates
    <2>1. Len(stack) \in Nat \ {0} /\ Last(stack) = stack[Len(stack)]
      BY <1>1, LastFront
    <2>2. e \in GateVars
      BY <1>1, <2>1 DEF StackOfGates
    <2> QED
      BY <1>1, <1>4, <2>2 DEF OnPath, CodedGates
  <1>6. \A c \in Fanin(e) : c \notin OnPath /\ c # e
    <2>1. NoCycle(Reads, GateVars)
      BY <1>1, AcyclicMeans DEF Sound
    <2>2. Reads[e] = Fanin(e) /\ Fanin(e) = pair \ {0} /\ Var(Gate(e).rhs0) \in Nat /\ Var(Gate(e).rhs1) \in Nat
      BY <1>4, <1>5, GateReads DEF Reads, Fanin
    <2> DEFINE x == Var(Gate(e).rhs0)
               y == Var(Gate(e).rhs1)
    <2>3. Reads[Last(stack)] = {x, y} \ {0} /\ x \in Nat /\ y \in Nat
      BY <2>2
    <2>4. Last(stack) \in GateVars /\ Last(stack) \notin OnPath \cup CodedGates
      BY <1>5
    <2> HIDE DEF x, y
    <2>5. \A c \in Reads[Last(stack)] : c \notin OnPath /\ c # Last(stack)
      BY <1>1, <1>4, <2>1, <2>3, <2>4, ReadsFresh
    <2> QED
      BY <2>2, <2>5
  <1>7. PICK x \in 0..aig.maxvar, y \in 0..aig.maxvar :
          /\ push(Max(pair)) = NonZero(x) /\ push(Min(pair)) = NonZero(y)
          /\ {x, y} \ {0} = Fanin(e) \cap GateVars
    <2>1. \A c \in Fanin(e) : ~types[c].onstack \/ c \notin GateVars
      BY <1>6 DEF OnPath
    <2>2. e \notin Fanin(e)
      BY <1>6
    <2> QED
      BY <1>1, <1>5, <2>1, <2>2, GatesPushed
  <1> HIDE DEF pair, push, e
  <1>8. stack' \in Seq(0..aig.maxvar) /\ Pushes(stack, Fanin(e) \cap GateVars, stack')
    <2> DEFINE D == 0..aig.maxvar
    <2>1. stack \in Seq(D) /\ x \in D /\ y \in D /\ 0 \in D
      BY <1>1, <1>4
    <2>2. stack' = FaninsAbove(stack, x, y)
      BY <1>2, <1>7 DEF FaninsAbove
    <2> HIDE DEF D
    <2>3. stack' \in Seq(D) /\ Pushes(stack, {x, y} \ {0}, stack')
      BY <2>1, <2>2, FaninsPushed
    <2> QED
      BY <1>7, <2>3 DEF D
  <1>9. /\ types' \in [0..aig.maxvar -> Types]
        /\ \A v \in 0..aig.maxvar : types'[v].is = types[v].is /\ types'[v].idx = types[v].idx
        /\ \A v \in 0..aig.maxvar : v # e => types'[v] = types[v]
        /\ types'[e].onstack = TRUE
    <2> DEFINE D == 0..aig.maxvar
               t == types
               u == types'
               z == types[e].mark
    <2>1. t \in [D -> Types] /\ e \in D
      BY <1>4, <1>5
    <2>2. z \in BOOLEAN
      <3>1. t[e] \in Types
        BY <2>1
      <3> QED
        BY <3>1 DEF Types
    <2>3. MarksSet(t, e, z, TRUE, u)
      BY <1>1 DEF MarksSet, e
    <2> HIDE DEF D, t, u, z
    <2> DEFINE Kept == /\ u \in [D -> Types]
                       /\ \A v \in D : u[v].is = t[v].is /\ u[v].idx = t[v].idx
                       /\ \A v \in D : v # e => u[v] = t[v]
                       /\ u[e].onstack = TRUE
    <2>5. ASSUME z = TRUE PROVE Kept
      <3>1. MarksSet(t, e, TRUE, TRUE, u)
        BY <2>3, <2>5
      <3>2. /\ u \in [D -> Types]
            /\ \A v \in D : u[v].is = t[v].is /\ u[v].idx = t[v].idx
            /\ \A v \in D : v # e => u[v] = t[v]
            /\ u[e].mark = TRUE /\ u[e].onstack = TRUE
        BY <2>1, <3>1, MarkSet
      <3> QED
        BY <3>2
    <2>6. ASSUME z = FALSE PROVE Kept
      <3>1. MarksSet(t, e, FALSE, TRUE, u)
        BY <2>3, <2>6
      <3>2. /\ u \in [D -> Types]
            /\ \A v \in D : u[v].is = t[v].is /\ u[v].idx = t[v].idx
            /\ \A v \in D : v # e => u[v] = t[v]
            /\ u[e].mark = FALSE /\ u[e].onstack = TRUE
        BY <2>1, <3>1, MarkSet
      <3> QED
        BY <3>2
    <2>4. Kept
      BY <2>2, <2>5, <2>6
    <2> QED
      BY <2>4 DEF D, t, u
  <1>10. Sound' /\ GateVars' = GateVars /\ Reads' = Reads /\ Sources(aig)' = Sources(aig) /\ Starts' = Starts
    BY <1>1, <1>9, SoundStays
  <1>11. OnPath' = OnPath \cup {e}
    BY <1>4, <1>5, <1>9, <1>10 DEF OnPath
  <1>12. CodedGates' = CodedGates /\ Coded(m)'
    BY <1>1, <1>3, <1>10 DEF CodedGates, Coded
  <1>13. Search(GateVars, Reads, stack', OnPath \cup {e}, CodedGates)
    <2>1. stack' \in Seq(Nat) /\ Reads[e] = Fanin(e)
      BY <1>4, <1>5, <1>8, StackType DEF Reads
    <2> DEFINE t == stack'
               m0 == Len(stack)
               G == GateVars
               R == Reads
               on == OnPath
               left == CodedGates
    <2>2. /\ t \in Seq(Nat) /\ Len(t) > m0
          /\ \A i \in 1..m0 : t[i] = stack[i]
          /\ t[m0 + 1] = 0
          /\ \A j \in (m0 + 2)..Len(t) : t[j] # 0 /\ t[j] \in R[Last(stack)]
          /\ \A c \in R[Last(stack)] \cap G : c \in left \/ \E j \in (m0 + 2)..Len(t) : t[j] = c
      BY <1>8, <2>1 DEF Pushes, e
    <2>3. Search(G, R, stack, on, left) /\ stack # <<>> /\ G \in SUBSET (Nat \ {0})
          /\ Last(stack) \in G /\ Last(stack) \notin on \cup left
      BY <1>1, <1>4, <1>5 DEF e
    <2> HIDE DEF t, G, R, on, left
    <2>4. Search(G, R, t, on \cup {Last(stack)}, left)
      BY <2>2, <2>3, SearchEnters
    <2> QED
      BY <2>4 DEF t, G, R, on, left, e
  <1>14. stack' # <<>> /\ stack'[1] = stack[1]
    <2>1. stack \in Seq(Nat) /\ stack' \in Seq(Nat)
      BY <1>1, <1>4, <1>8, StackType
    <2> QED
      BY <1>1, <1>8, <2>1, BottomStays
  <1>15. StackOfGates'
    <2> DEFINE F == Fanin(e) \cap GateVars
    <2>1. /\ Len(stack) \in Nat /\ Len(stack') \in Nat
          /\ \A i \in 1..Len(stack) : stack'[i] = stack[i]
          /\ stack'[Len(stack) + 1] = 0
          /\ \A j \in (Len(stack) + 2)..Len(stack') : stack'[j] \in F
      BY <1>1, <1>8 DEF Pushes
    <2> SUFFICES ASSUME NEW i \in 1..Len(stack'), stack'[i] # 0 PROVE stack'[i] \in GateVars
      BY <1>10 DEF StackOfGates
    <2>2. CASE i \in 1..Len(stack)
      BY <1>1, <2>1, <2>2 DEF StackOfGates
    <2>3. CASE i \in (Len(stack) + 2)..Len(stack')
      BY <2>1, <2>3
    <2>4. i \in 1..Len(stack) \/ i = Len(stack) + 1 \/ i \in (Len(stack) + 2)..Len(stack')
      BY <2>1
    <2> QED
      BY <2>1, <2>2, <2>3, <2>4
  <1>16. FromStart' /\ StartsDone'
    <2>1. FromStart'
      BY <1>1, <1>10, <1>14 DEF FromStart
    <2>2. ASSUME NEW k \in 1..visit
          PROVE  /\ Var(Starts[k]) \in 0..aig.maxvar
                 /\ \/ Var(Starts[k]) = 0 \/ types'[Var(Starts[k])].is = "none" \/ code[Var(Starts[k])] # 0
                    \/ (k = visit /\ stack' # <<>>)
      BY <1>1, <1>9, <1>14 DEF StartsDone
    <2>3. StartsDone'
      BY <1>1, <1>10, <2>2 DEF StartsDone
    <2> QED
      BY <2>1, <2>3
  <1>17. \E j \in Nat : Coded(j)'
    BY <1>1, <1>3, <1>12
  <1>18. Finds
    <2> DEFINE F == Fanin(e) \cap GateVars
    <2>1. /\ Len(stack) \in Nat \ {0} /\ Len(stack') \in Nat
          /\ \A i \in 1..Len(stack) : stack'[i] = stack[i]
          /\ stack'[Len(stack) + 1] = 0
          /\ \A j \in (Len(stack) + 2)..Len(stack') : stack'[j] \in F
      BY <1>1, <1>8 DEF Pushes
    <2>2. e = stack[Len(stack)] /\ Len(stack) \in 1..Len(stack) /\ F = Reads[e] \cap GateVars
      <3>1. Last(stack) = stack[Len(stack)]
        BY <1>1, LastFront
      <3>2. Len(stack) \in 1..Len(stack)
        BY <2>1
      <3>3. F = Reads[e] \cap GateVars
        BY <1>5 DEF Reads
      <3> QED
        BY <3>1, <3>2, <3>3 DEF e
    <2>3. \A i \in 1..Len(stack') : i \in 1..Len(stack) \/ i = Len(stack) + 1 \/ i \in (Len(stack) + 2)..Len(stack')
      BY <2>1
    <2> HIDE DEF F
    <2>4. \A i \in 1..Len(stack') : stack'[i] # 0 => \/ \E j \in 1..Len(stack) : stack'[i] = stack[j]
                                                    \/ stack'[i] \in Reads[e] \cap GateVars
      BY <2>1, <2>2, <2>3
    <2>5. \A i \in 1..Len(stack') : stack'[i] # 0 =>
            \/ \E j \in 1..Len(stack) : stack'[i] = stack[j]
            \/ \E j \in 1..Len(stack) : stack[j] \in GateVars /\ stack'[i] \in Reads[stack[j]] \cap GateVars
      BY <1>5, <2>2, <2>4
    <2> QED
      BY <1>10, <1>12, <2>5 DEF Finds
  <1> QED
    BY <1>1, <1>8, <1>10, <1>11, <1>12, <1>13, <1>15, <1>16, <1>17, <1>18 DEF RecodePhase

\* Number.
LEMMA NumberStep ==
    ASSUME RecodePhase, Number
    PROVE  at' = at /\ UNCHANGED aig /\ RecodePhase' /\ Finds
  <1> DEFINE e == stack[Len(stack) - 1]
             rest == SubSeq(stack, 1, Len(stack) - 2)
  <1>1. /\ Sound /\ UNCHANGED <<aig, at, visit>> /\ stack \in Seq(0..aig.maxvar) /\ stack # <<>>
        /\ StackOfGates /\ visit \in 0..Len(Starts) /\ FromStart /\ StartsDone
        /\ Last(stack) = 0 /\ stack' = rest
        /\ types' = [types EXCEPT ![e].onstack = FALSE]
        /\ code' = [code EXCEPT ![e] = new] /\ new' = new + 2
        /\ Search(GateVars, Reads, stack, OnPath, CodedGates)
    BY DEF RecodePhase, Number, Recoding
  <1>2. PICK m \in Nat : Coded(m)
    BY DEF RecodePhase
  <1>3. GraphPhase /\ aig.maxvar \in Nat /\ types \in [0..aig.maxvar -> Types]
        /\ GateVars \in SUBSET (Nat \ {0}) /\ GateVars \in SUBSET (0..aig.maxvar)
    BY <1>1, GatesAre DEF Sound
  <1>4. /\ Len(stack) >= 2 /\ e \in OnPath /\ Reads[e] \cap GateVars \subseteq CodedGates
        /\ Search(GateVars, Reads, rest, OnPath \ {e}, CodedGates \cup {e})
    BY <1>1, <1>3, SearchLeaves
  <1>5. e \in GateVars /\ e \in 0..aig.maxvar /\ e \notin CodedGates /\ code[e] = 0
    BY <1>1, <1>3, <1>4 DEF Search, CodedGates
  <1>6. stack' \in Seq(0..aig.maxvar)
    <2>1. Len(stack) \in Nat /\ Len(stack) - 2 \in 0..Len(stack)
      BY <1>1, <1>4
    <2> QED
      BY <1>1, <2>1, LastFront
  <1>7. /\ rest # <<>> => rest[1] = stack[1]
        /\ rest = <<>> => Len(stack) = 2
        /\ \A i \in 1..Len(rest) : i \in 1..Len(stack) /\ rest[i] = stack[i]
    <2>1. stack \in Seq(Nat)
      BY <1>1, <1>3, StackType
    <2> QED
      BY <1>1, <1>4, <2>1, BottomStays
  <1>8. rest = <<>> => e = stack[1]
    <2>1. 2 - 1 = 1
      OBVIOUS
    <2> QED
      BY <1>7, <2>1
  <1> HIDE DEF e, rest
  <1>9. /\ types' \in [0..aig.maxvar -> Types]
        /\ \A v \in 0..aig.maxvar : types'[v].is = types[v].is /\ types'[v].idx = types[v].idx
        /\ \A v \in 0..aig.maxvar : v # e => types'[v] = types[v]
        /\ types'[e].onstack = FALSE
    <2> DEFINE D == 0..aig.maxvar
               t == types
               u == types'
               z == types[e].mark
    <2>1. t \in [D -> Types] /\ e \in D
      BY <1>3, <1>5
    <2>2. z \in BOOLEAN
      <3>1. t[e] \in Types
        BY <2>1
      <3> QED
        BY <3>1 DEF Types
    <2>3. MarksSet(t, e, z, FALSE, u)
      BY <1>1 DEF MarksSet
    <2> HIDE DEF D, t, u, z
    <2> DEFINE Kept == /\ u \in [D -> Types]
                       /\ \A v \in D : u[v].is = t[v].is /\ u[v].idx = t[v].idx
                       /\ \A v \in D : v # e => u[v] = t[v]
                       /\ u[e].onstack = FALSE
    <2>5. ASSUME z = TRUE PROVE Kept
      <3>1. MarksSet(t, e, TRUE, FALSE, u)
        BY <2>3, <2>5
      <3>2. /\ u \in [D -> Types]
            /\ \A v \in D : u[v].is = t[v].is /\ u[v].idx = t[v].idx
            /\ \A v \in D : v # e => u[v] = t[v]
            /\ u[e].mark = TRUE /\ u[e].onstack = FALSE
        BY <2>1, <3>1, MarkSet
      <3> QED
        BY <3>2
    <2>6. ASSUME z = FALSE PROVE Kept
      <3>1. MarksSet(t, e, FALSE, FALSE, u)
        BY <2>3, <2>6
      <3>2. /\ u \in [D -> Types]
            /\ \A v \in D : u[v].is = t[v].is /\ u[v].idx = t[v].idx
            /\ \A v \in D : v # e => u[v] = t[v]
            /\ u[e].mark = FALSE /\ u[e].onstack = FALSE
        BY <2>1, <3>1, MarkSet
      <3> QED
        BY <3>2
    <2>4. Kept
      BY <2>2, <2>5, <2>6
    <2> QED
      BY <2>4 DEF D, t, u
  <1>10. Sound' /\ GateVars' = GateVars /\ Reads' = Reads /\ Sources(aig)' = Sources(aig) /\ Starts' = Starts
    BY <1>1, <1>9, SoundStays
  <1>11. OnPath' = OnPath \ {e}
    BY <1>3, <1>5, <1>9, <1>10 DEF OnPath
  \* Everything the gate reads has a code.
  <1>12. \A d \in Reads[e] : code[d] # 0
    <2> SUFFICES ASSUME NEW d \in Reads[e], code[d] = 0 PROVE FALSE
      OBVIOUS
    <2>1. Reads[e] = Fanin(e) /\ Fanin(e) = {Var(Gate(e).rhs0), Var(Gate(e).rhs1)} \ {0}
          /\ types[e].idx \in 1..Len(aig.ands)
      BY <1>3, <1>5, GateReads DEF Reads, Fanin
    <2>2. LiteralDefined(Gate(e).rhs0) /\ LiteralDefined(Gate(e).rhs1)
      BY <1>1, <2>1 DEF Sound, AllDefined, Gate
    <2>3. types[d].is # "none"
      BY <2>1, <2>2 DEF LiteralDefined
    <2>4. d \in 1..aig.maxvar
      BY <1>3, <1>5, VariablesAre DEF Variables
    <2>5. d \in GateVars
      BY <1>1, <1>2, <2>3, <2>4, UncodedIsGate
    <2> QED
      BY <1>4, <2>5 DEF CodedGates
  <1>13. /\ Numbering(0..aig.maxvar, Sources(aig), GateVars, Reads, code', m + 1)
         /\ new' = 2 * (m + 1) + 2
         /\ code'[e] # 0 /\ \A v \in 0..aig.maxvar : v # e => code'[v] = code[v]
    <2>1. Numbered(code, e, m, code') /\ new' = (2 * m + 2) + 2
      BY <1>1, <1>2 DEF Coded, Numbered
    <2>2. Numbering(0..aig.maxvar, Sources(aig), GateVars, Reads, code, m)
          /\ Variables(aig.maxvar, Sources(aig), GateVars, Reads)
      BY <1>2, <1>3, VariablesAre DEF Coded
    <2>3. /\ Numbering(0..aig.maxvar, Sources(aig), GateVars, Reads, code', m + 1)
          /\ 2 * (m + 1) + 2 = (2 * m + 2) + 2
          /\ code'[e] # 0 /\ \A v \in 0..aig.maxvar : v # e => code'[v] = code[v]
      BY <1>5, <1>12, <2>1, <2>2, NumberingGoesOn
    <2> QED
      BY <2>1, <2>3
  <1>14. Coded(m + 1)'
    BY <1>1, <1>10, <1>13 DEF Coded
  <1>15. CodedGates' = CodedGates \cup {e}
    BY <1>3, <1>5, <1>10, <1>13 DEF CodedGates
  <1>16. StackOfGates'
    BY <1>1, <1>7, <1>10 DEF StackOfGates
  <1>17. FromStart'
    BY <1>1, <1>7, <1>10 DEF FromStart
  <1>18. StartsDone'
    <2> SUFFICES ASSUME NEW k \in 1..visit
                 PROVE  /\ Var(Starts[k]) \in 0..aig.maxvar
                        /\ \/ Var(Starts[k]) = 0 \/ types'[Var(Starts[k])].is = "none" \/ code'[Var(Starts[k])] # 0
                           \/ (k = visit /\ stack' # <<>>)
      BY <1>1, <1>10 DEF StartsDone
    <2>4. Var(Starts[k]) \in 0..aig.maxvar
      BY <1>1 DEF StartsDone
    <2>1. CASE k = visit /\ stack' = <<>>
      <3>1. e = Var(Starts[k])
        BY <1>1, <1>8, <2>1 DEF FromStart
      <3> QED
        BY <1>13, <2>4, <3>1
    <2>2. CASE k = visit /\ stack' # <<>>
      BY <2>2, <2>4
    <2>3. CASE k # visit
      BY <1>1, <1>9, <1>13, <2>3, <2>4 DEF StartsDone
    <2> QED
      BY <2>1, <2>2, <2>3
  <1>19. \E j \in Nat : Coded(j)'
    <2>1. m + 1 \in Nat
      OBVIOUS
    <2> QED
      BY <1>1, <1>14, <2>1
  <1>20. Finds
    <2>1. Len(stack) - 1 \in 1..Len(stack) /\ e = stack[Len(stack) - 1]
      <3>1. Len(stack) \in Nat
        BY <1>1
      <3> QED
        BY <1>4, <3>1 DEF e
    <2>2. \A i \in 1..Len(stack') : \E j \in 1..Len(stack) : stack'[i] = stack[j]
      BY <1>1, <1>7
    <2> QED
      BY <1>5, <1>10, <1>15, <2>1, <2>2 DEF Finds
  <1> QED
    BY <1>1, <1>4, <1>6, <1>10, <1>11, <1>15, <1>16, <1>17, <1>18, <1>19, <1>20 DEF RecodePhase

(***************************************************************************)
(* The new graph.                                                          *)
(***************************************************************************)
\* Elements in the order of their ranks.
LEMMA Ranked ==
    ASSUME NEW K, NEW n \in Nat, NEW r \in [K -> 1..n],
           \A g \in K : \A h \in K : r[g] = r[h] => g = h,
           \A j \in 1..n : \E g \in K : r[g] = j
    PROVE  Cardinality(K) = n /\ \A g \in K : Cardinality({h \in K : r[h] < r[g]}) = r[g] - 1
  <1>1. ASSUME NEW S, NEW j \in 0..n, NEW f \in [S -> 1..j],
               \A g \in S : \A h \in S : f[g] = f[h] => g = h,
               \A i \in 1..j : \E g \in S : f[g] = i
        PROVE  Cardinality(S) = j
    <2>1. f \in Injection(S, 1..j) /\ f \in Surjection(S, 1..j)
      BY <1>1 DEF Injection, IsInjective, Surjection
    <2>2. IsFiniteSet(1..j) /\ Cardinality(1..j) = j
      <3> SUFFICES ASSUME NEW i \in Nat PROVE IsFiniteSet(1..i) /\ Cardinality(1..i) = i
        OBVIOUS
      <3> QED
        BY FS_Interval
    <2> QED
      BY <2>1, <2>2, FS_Injection
  <1>2. Cardinality(K) = n
    BY <1>1
  <1>3. ASSUME NEW g \in K PROVE Cardinality({h \in K : r[h] < r[g]}) = r[g] - 1
    <2> DEFINE S == {h \in K : r[h] < r[g]}
               j == r[g] - 1
               f == [h \in S |-> r[h]]
    <2>1. r[g] \in 1..n /\ j \in 0..n
      OBVIOUS
    <2>2. f \in [S -> 1..j]
      <3> SUFFICES ASSUME NEW h \in S PROVE r[h] \in 1..j
        OBVIOUS
      <3>1. r[h] \in 1..n /\ r[h] < r[g]
        OBVIOUS
      <3> QED
        BY <2>1, <3>1
    <2>3. \A x \in S : \A y \in S : f[x] = f[y] => x = y
      OBVIOUS
    <2>4. \A i \in 1..j : \E x \in S : f[x] = i
      <3> SUFFICES ASSUME NEW i \in 1..j PROVE \E x \in S : f[x] = i
        OBVIOUS
      <3>1. i \in 1..n /\ i < r[g]
        BY <2>1
      <3>2. PICK x \in K : r[x] = i
        BY <3>1
      <3> QED
        BY <3>1, <3>2
    <2> HIDE DEF S, j, f
    <2>5. Cardinality(S) = j
      BY <1>1, <2>1, <2>2, <2>3, <2>4
    <2> QED
      BY <2>5 DEF S, j
  <1> QED
    BY <1>2, <1>3

\* The search is over.
Complete == RecodePhase /\ stack = <<>> /\ visit = Len(Starts)

\* A literal of the graph has a new one of the new graph.
LEMMA RecodedLits ==
    ASSUME Sound, NEW m \in Nat, Coded(m)
    PROVE  /\ m <= aig.maxvar /\ Var(new - 1) = m /\ Len(Sources(aig)) \in Nat /\ Len(Sources(aig)) <= m
           /\ \A lit \in LitsOf(aig) : Recode(lit) \in 0..(2 * m + 1)
           /\ \A v \in 1..aig.maxvar : Recode(2 * v) = code[v]
           /\ \A v \in 0..aig.maxvar : code[v] \in Nat /\ code[v] <= 2 * m /\ \E h \in 0..m : code[v] = 2 * h
  <1>1. GraphPhase /\ aig.maxvar \in Nat
    BY GatesAre DEF Sound
  <1>2. Variables(aig.maxvar, Sources(aig), GateVars, Reads)
        /\ Numbering(0..aig.maxvar, Sources(aig), GateVars, Reads, code, m) /\ new = 2 * m + 2
    BY <1>1, VariablesAre DEF Coded
  <1>3. m <= aig.maxvar /\ \A v \in 0..aig.maxvar : code[v] <= 2 * m /\ \E h \in 0..m : code[v] = 2 * h
    BY <1>2, CodesBounded
  <1>4. \A v \in 0..aig.maxvar : code[v] \in Nat
    BY <1>2 DEF Numbering
  <1>5. Var(new - 1) = m
    <2>1. \A i \in Nat : ((2 * i + 2) - 1) \div 2 = i
      OBVIOUS
    <2> QED
      BY <1>2, <2>1 DEF Var
  <1>6. ASSUME NEW lit \in LitsOf(aig) PROVE Recode(lit) \in 0..(2 * m + 1)
    <2>1. lit \in Nat /\ Var(lit) \in 0..aig.maxvar /\ lit % 2 \in {0, 1}
      BY <1>1, LitVar, Literals
    <2> DEFINE c == code[Var(lit)]
               r == lit % 2
    <2>2. c \in Nat /\ c <= 2 * m /\ r \in {0, 1}
      BY <1>3, <1>4, <2>1
    <2>3. Recode(lit) = IF lit < 2 THEN lit ELSE IF c = 0 THEN 0 ELSE c + r
      BY DEF Recode
    <2> HIDE DEF c, r
    <2> QED
      BY <2>1, <2>2, <2>3
  <1>7. ASSUME NEW v \in 1..aig.maxvar PROVE Recode(2 * v) = code[v]
    <2>1. v \in Nat /\ v # 0 /\ v \in 0..aig.maxvar
      BY <1>1
    <2>2. Var(2 * v) = v /\ (2 * v) % 2 = 0 /\ ~(2 * v < 2)
      <3>1. \A i \in Nat \ {0} : (2 * i) % 2 = 0 /\ ~(2 * i < 2)
        OBVIOUS
      <3> QED
        BY <2>1, <3>1, Doubled
    <2>3. code[v] \in Nat
      BY <1>4, <2>1
    <2> QED
      BY <2>2, <2>3 DEF Recode
  <1>8. Len(Sources(aig)) \in Nat /\ Len(Sources(aig)) <= m
    BY <1>2 DEF Variables, Numbering
  <1> QED
    BY <1>3, <1>4, <1>5, <1>6, <1>7, <1>8

\* What has been searched for has a code, or nothing defines it.
LEMMA StartsCoded ==
    ASSUME Complete
    PROVE  \A k \in 1..Len(Starts) :
             Var(Starts[k]) = 0 \/ types[Var(Starts[k])].is = "none" \/ code[Var(Starts[k])] # 0
  BY DEF Complete, RecodePhase, StartsDone

\* The reset values of the graph are literals of the graph.
ResetsWithin == \A k \in 1..Len(aig.latches) : aig.latches[k].reset \in LitsOf(aig)

\* They are when the search is over: it has looked up the code of each.
LEMMA CompleteWithin ==
    ASSUME Complete
    PROVE  ResetsWithin
  <1>1. Sound /\ aig.maxvar \in Nat
    BY GatesAre DEF Complete, RecodePhase, Sound
  <1> SUFFICES ASSUME NEW l \in 1..Len(aig.latches) PROVE aig.latches[l].reset \in LitsOf(aig)
    BY DEF ResetsWithin
  <1> DEFINE lit == aig.latches[l].reset
  <1>2. PICK k \in 1..Len(Starts) : lit = Starts[k]
    BY <1>1, StartsAre
  <1>3. lit \in Nat /\ Var(lit) \in 0..aig.maxvar
    BY <1>1, <1>2, StartsAre DEF Complete, RecodePhase, StartsDone
  <1>4. lit \in 0..(2 * aig.maxvar + 1) <=> Var(lit) <= aig.maxvar
    BY <1>1, <1>3, Literals
  <1> DEFINE w == Var(lit)
  <1>5. w <= aig.maxvar
    <2>1. w \in 0..aig.maxvar
      BY <1>3
    <2> HIDE DEF w
    <2> QED
      BY <1>1, <2>1
  <1> QED
    BY <1>4, <1>5 DEF LitsOf

\* A literal of the graph that has no code, because nothing defines it, stays.
LEMMA ResetRecoded ==
    ASSUME Sound, NEW m \in Nat, Coded(m), NEW lit \in LitsOf(aig), lit \in 0..(Word - 1)
    PROVE  RecodeReset(lit) \in 0..(Word - 1)
  <1>1. GraphOK(aig) /\ aig.maxvar \in Nat /\ Word \in Nat
    BY GatesAre, WordIs DEF Sound, GraphPhase
  <1>2. m <= aig.maxvar /\ Recode(lit) \in 0..(2 * m + 1)
    BY RecodedLits
  <1>3. 2 * aig.maxvar + 1 < Word
    BY <1>1 DEF GraphOK
  <1> DEFINE r == Recode(lit)
  <1>4. r \in 0..(Word - 1)
    <2> HIDE DEF r
    <2> QED
      BY <1>1, <1>2, <1>3 DEF r
  <1> QED
    BY <1>4 DEF RecodeReset

\* The ands that have a code, in their order.
LEMMA AndsInOrder ==
    ASSUME Sound, NEW m \in Nat, Coded(m)
    PROVE  LET ands == RecodedAnds(aig)  n == Len(Sources(aig)) IN
           /\ Len(ands) = m - n /\ ands = [k \in 1..(m - n) |-> ands[k]]
           /\ \A k \in 1..(m - n) :
                /\ ands[k].lhs = 2 * (n + k)
                /\ \E i \in 1..Len(aig.ands) : ands[k] = RecodedAnd(aig.ands[i]) /\ code[Var(aig.ands[i].lhs)] # 0
  <1> DEFINE n == Len(Sources(aig))
             N == m - n
             kept == {RecodedAnd(g) : g \in {h \in ToSet(aig.ands) : code[Var(h.lhs)] # 0}}
             ands == RecodedAnds(aig)
  <1>1. GraphPhase /\ aig.maxvar \in Nat /\ IsGraph(aig) /\ Corresponds(aig, types)
    BY GatesAre DEF Sound, GraphPhase, GraphOK
  <1>2. /\ n \in Nat /\ n <= m /\ m <= aig.maxvar
        /\ \A v \in 1..aig.maxvar : Recode(2 * v) = code[v]
    BY RecodedLits
  <1>3. Variables(aig.maxvar, Sources(aig), GateVars, Reads)
        /\ Numbering(0..aig.maxvar, Sources(aig), GateVars, Reads, code, m)
    BY <1>1, VariablesAre DEF Coded
  <1>4. aig.ands \in Seq(AndRecords(aig)) /\ ToSet(aig.ands) = {aig.ands[i] : i \in 1..Len(aig.ands)} /\ Len(aig.ands) \in Nat
    BY <1>1, GraphParts, SetOfSeq
  \* Gates and the ands that define them.
  <1>5. \A i \in 1..Len(aig.ands) : Var(aig.ands[i].lhs) \in GateVars /\ aig.ands[i].lhs = 2 * Var(aig.ands[i].lhs)
                                    /\ types[Var(aig.ands[i].lhs)].idx = i
    <2> SUFFICES ASSUME NEW i \in 1..Len(aig.ands)
                 PROVE  Var(aig.ands[i].lhs) \in GateVars /\ aig.ands[i].lhs = 2 * Var(aig.ands[i].lhs)
                        /\ types[Var(aig.ands[i].lhs)].idx = i
      OBVIOUS
    <2>1. Placed(aig, types, "and", i) /\ Defined(aig, "and", i) = aig.ands[i].lhs
      BY <1>1 DEF Corresponds, Whats, Count, Defined
    <2> QED
      BY <2>1 DEF Placed, GateVars
  <1>6. \A v \in GateVars : types[v].idx \in 1..Len(aig.ands) /\ aig.ands[types[v].idx].lhs = 2 * v /\ v \in 1..aig.maxvar
    BY <1>1, GateReads DEF Gate
  <1>7. \A x : x \in kept <=> \E i \in 1..Len(aig.ands) : code[Var(aig.ands[i].lhs)] # 0 /\ x = RecodedAnd(aig.ands[i])
    BY <1>4
  <1>8. \A g : RecodedAnd(g).lhs = Recode(g.lhs)
    BY DEF RecodedAnd
  <1> HIDE DEF kept, N, n
  <1>9. \A j \in (n + 1)..m : j - n \in 1..N /\ j = n + (j - n)
    BY <1>2 DEF N
  <1>10. N \in Nat /\ \A k \in 1..N : n + k \in (n + 1)..m
    BY <1>2 DEF N
  <1>11. \A g \in kept : \E k \in 1..N : g.lhs = 2 * (n + k)
    <2> SUFFICES ASSUME NEW g \in kept PROVE \E k \in 1..N : g.lhs = 2 * (n + k)
      OBVIOUS
    <2>1. PICK i \in 1..Len(aig.ands) : code[Var(aig.ands[i].lhs)] # 0 /\ g = RecodedAnd(aig.ands[i])
      BY <1>7
    <2> DEFINE v == Var(aig.ands[i].lhs)
    <2>2. v \in GateVars /\ aig.ands[i].lhs = 2 * v /\ v \in 1..aig.maxvar /\ v \in 0..aig.maxvar
      BY <1>1, <1>5, <1>6
    <2> HIDE DEF v
    <2>3. g.lhs = code[v]
      BY <1>2, <1>8, <2>1, <2>2
    <2>4. ~ \E k \in 1..Len(Sources(aig)) : Sources(aig)[k] = 2 * v
      <3>1. \A k \in 1..Len(Sources(aig)) : Sources(aig)[k] = 2 * v => Var(Sources(aig)[k]) = v
        <4>1. v \in Nat
          BY <1>1, <2>2
        <4> QED
          BY <4>1, Doubled
      <3> QED
        BY <1>3, <2>2, <3>1 DEF Variables
    <2>5. PICK j \in (n + 1)..m : code[v] = 2 * j
      BY <1>3, <2>1, <2>2, <2>4 DEF Numbering, n, v
    <2> QED
      BY <1>9, <2>3, <2>5
  <1> DEFINE r == [g \in kept |-> CHOOSE k \in 1..N : g.lhs = 2 * (n + k)]
  <1>12. r \in [kept -> 1..N] /\ \A g \in kept : g.lhs = 2 * (n + r[g])
    BY <1>11
  <1> HIDE DEF r
  <1>13. \A g \in kept : \A h \in kept : g.lhs = h.lhs => g = h
    <2> SUFFICES ASSUME NEW g \in kept, NEW h \in kept, g.lhs = h.lhs PROVE g = h
      OBVIOUS
    <2>1. PICK i \in 1..Len(aig.ands) : code[Var(aig.ands[i].lhs)] # 0 /\ g = RecodedAnd(aig.ands[i])
      BY <1>7
    <2>2. PICK j \in 1..Len(aig.ands) : code[Var(aig.ands[j].lhs)] # 0 /\ h = RecodedAnd(aig.ands[j])
      BY <1>7
    <2> DEFINE v == Var(aig.ands[i].lhs)
               w == Var(aig.ands[j].lhs)
    <2>3. /\ v \in GateVars /\ aig.ands[i].lhs = 2 * v /\ v \in 1..aig.maxvar /\ types[v].idx = i
          /\ w \in GateVars /\ aig.ands[j].lhs = 2 * w /\ w \in 1..aig.maxvar /\ types[w].idx = j
          /\ code[v] # 0
      BY <1>5, <1>6, <2>1, <2>2
    <2> HIDE DEF v, w
    <2>4. code[v] = code[w]
      BY <1>2, <1>8, <2>1, <2>2, <2>3
    <2>5. v = w
      BY <1>3, <2>3, <2>4 DEF Numbering
    <2> QED
      BY <2>1, <2>2, <2>3, <2>5
  <1>14. \A g \in kept : \A h \in kept : r[g] = r[h] => g = h
    BY <1>12, <1>13
  <1>15. \A j \in 1..N : \E g \in kept : r[g] = j
    <2> SUFFICES ASSUME NEW j \in 1..N PROVE \E g \in kept : r[g] = j
      OBVIOUS
    <2>1. n + j \in (n + 1)..m
      BY <1>10
    <2>2. PICK v \in GateVars : code[v] = 2 * (n + j)
      BY <1>3, <2>1 DEF Numbering, n
    <2> DEFINE i == types[v].idx
               g == RecodedAnd(aig.ands[i])
    <2>3. i \in 1..Len(aig.ands) /\ aig.ands[i].lhs = 2 * v /\ v \in 1..aig.maxvar /\ v \in Nat
      BY <1>1, <1>6
    <2>4. Var(aig.ands[i].lhs) = v
      BY <2>3, Doubled
    <2>5. 2 * (n + j) # 0
      BY <1>2, <1>10, <2>1
    <2> HIDE DEF i
    <2>6. g \in kept
      BY <1>7, <2>2, <2>3, <2>4, <2>5
    <2>7. g.lhs = 2 * (n + j)
      BY <1>2, <1>8, <2>2, <2>3
    <2> HIDE DEF g
    <2>8. 2 * (n + r[g]) = 2 * (n + j) /\ r[g] \in 1..N
      BY <1>12, <2>6, <2>7
    <2>9. r[g] = j
      BY <1>2, <2>8
    <2> QED
      BY <2>6, <2>9
  <1>16. Cardinality(kept) = N /\ \A g \in kept : Cardinality({h \in kept : r[h] < r[g]}) = r[g] - 1
    BY <1>10, <1>12, <1>14, <1>15, Ranked
  <1>17. \A g \in kept : Cardinality({h \in kept : h.lhs < g.lhs}) = r[g] - 1
    <2> SUFFICES ASSUME NEW g \in kept PROVE {h \in kept : h.lhs < g.lhs} = {h \in kept : r[h] < r[g]}
      BY <1>16
    <2>1. \A h \in kept : r[h] \in Nat /\ h.lhs = 2 * (n + r[h])
      BY <1>10, <1>12
    <2>2. \A h \in kept : h.lhs < g.lhs <=> r[h] < r[g]
      BY <1>2, <2>1
    <2> QED
      BY <2>2
  <1>18. ands = [k \in 1..N |-> CHOOSE g \in kept : Cardinality({h \in kept : h.lhs < g.lhs}) = k - 1]
    BY <1>16 DEF RecodedAnds, kept
  <1> HIDE DEF ands
  <1>19. ASSUME NEW k \in 1..N PROVE ands[k] \in kept /\ r[ands[k]] = k
    <2>1. PICK g \in kept : r[g] = k
      BY <1>15
    <2>2. Cardinality({h \in kept : h.lhs < g.lhs}) = k - 1
      BY <1>17, <2>1
    <2>3. ands[k] = CHOOSE x \in kept : Cardinality({h \in kept : h.lhs < x.lhs}) = k - 1
      BY <1>18
    <2>4. ands[k] \in kept /\ Cardinality({h \in kept : h.lhs < ands[k].lhs}) = k - 1
      BY <2>2, <2>3
    <2>5. r[ands[k]] - 1 = k - 1 /\ r[ands[k]] \in 1..N
      BY <1>12, <1>17, <2>4
    <2> QED
      BY <2>4, <2>5
  <1>20. Len(ands) = N
    BY <1>10, <1>18
  <1>21. ASSUME NEW k \in 1..N
         PROVE  /\ ands[k].lhs = 2 * (n + k)
                /\ \E i \in 1..Len(aig.ands) : ands[k] = RecodedAnd(aig.ands[i]) /\ code[Var(aig.ands[i].lhs)] # 0
    <2>1. ands[k].lhs = 2 * (n + k)
      BY <1>12, <1>19
    <2> QED
      BY <1>7, <1>19, <2>1
  <1>22. ands = [k \in 1..N |-> ands[k]]
    <2> DEFINE f(k) == CHOOSE g \in kept : Cardinality({h \in kept : h.lhs < g.lhs}) = k - 1
    <2>1. ands = [k \in 1..N |-> f(k)]
      BY <1>18
    <2> HIDE DEF f
    <2> QED
      BY <2>1
  <1> QED
    BY <1>20, <1>21, <1>22 DEF N, n, ands

\* An and comes after what it reads.
LEMMA ReadsSmaller ==
    ASSUME Sound, NEW m \in Nat, Coded(m), NEW i \in 1..Len(aig.ands), code[Var(aig.ands[i].lhs)] # 0
    PROVE  LET g == RecodedAnd(aig.ands[i]) IN
           /\ g.lhs \in 0..(2 * m + 1) /\ g.rhs0 \in 0..(2 * m + 1) /\ g.rhs1 \in 0..(2 * m + 1)
           /\ g.lhs >= g.rhs0 /\ g.rhs0 >= g.rhs1
  <1> DEFINE h == aig.ands[i]
             v == Var(h.lhs)
             x == Recode(h.rhs0)
             y == Recode(h.rhs1)
             pair == {x, y}
             B == 0..(2 * m + 1)
  <1>1. GraphPhase /\ aig.maxvar \in Nat /\ IsGraph(aig) /\ Corresponds(aig, types)
    BY GatesAre DEF Sound, GraphPhase, GraphOK
  <1>2. h.lhs \in LitsOf(aig) /\ h.rhs0 \in LitsOf(aig) /\ h.rhs1 \in LitsOf(aig)
    BY <1>1, GraphEntries
  <1>3. Recode(h.lhs) \in B /\ x \in B /\ y \in B
    BY <1>2, RecodedLits
  <1>4. v \in GateVars /\ h.lhs = 2 * v /\ v \in 1..aig.maxvar /\ v \in 0..aig.maxvar /\ Gate(v) = h
    <2>1. Placed(aig, types, "and", i) /\ Defined(aig, "and", i) = h.lhs
      BY <1>1 DEF Corresponds, Whats, Count, Defined
    <2> QED
      BY <1>1, <2>1 DEF Placed, GateVars, Gate
  <1>5. Recode(h.lhs) = code[v] /\ code[v] # 0
    BY <1>4, RecodedLits
  <1>6. PICK k \in 0..m : code[v] = 2 * k
    BY <1>4, RecodedLits
  <1>7. ASSUME NEW lit \in {h.rhs0, h.rhs1} PROVE Recode(lit) <= code[v]
    <2>1. lit \in LitsOf(aig) /\ lit \in Nat /\ Var(lit) \in 0..aig.maxvar /\ lit = 2 * Var(lit) + (lit % 2)
          /\ lit % 2 \in {0, 1}
      BY <1>1, <1>2, LitVar, Literals
    <2> DEFINE w == Var(lit)
               s == lit % 2
    <2> HIDE DEF w, s
    <2>2. k \in Nat /\ k >= 1 /\ code[v] = 2 * k
      BY <1>5, <1>6
    <2>3. CASE lit < 2
      <3>1. Recode(lit) = lit
        BY <2>3 DEF Recode
      <3> DEFINE c == code[v]
      <3>2. c = 2 * k
        BY <2>2
      <3> HIDE DEF c
      <3>3. lit <= c
        BY <2>1, <2>2, <2>3, <3>2
      <3> QED
        BY <3>1, <3>3 DEF c
    <2>4. CASE ~(lit < 2)
      <3>1. w # 0
        BY <2>1, <2>4 DEF w, s
      <3>2. w \in Reads[v]
        BY <1>4, <3>1 DEF Reads, Fanin, w
      <3>3. code[w] # 0 /\ code[w] < code[v]
        BY <1>4, <3>2 DEF Coded, Numbering
      <3>4. PICK j \in 0..m : code[w] = 2 * j
        BY <2>1, RecodedLits DEF w
      <3>5. j \in Nat /\ s \in {0, 1}
        BY <2>1 DEF s
      <3>6. Recode(lit) = code[w] + s
        BY <2>4, <3>3 DEF Recode, w, s
      <3>7. 2 * j + s <= 2 * k
        BY <2>2, <3>3, <3>4, <3>5
      <3> QED
        BY <2>2, <3>4, <3>6, <3>7
    <2> QED
      BY <2>3, <2>4
  <1>8. x <= code[v] /\ y <= code[v]
    BY <1>7
  <1> HIDE DEF x, y, h, v
  <1>9. pair \in SUBSET Nat /\ pair # {} /\ IsFiniteSet(pair)
    <2>1. IsFiniteSet({x}) /\ IsFiniteSet({y})
      BY FS_Singleton
    <2>2. IsFiniteSet({x} \cup {y}) /\ pair = {x} \cup {y}
      BY <2>1, FS_Union
    <2>3. x \in Nat /\ y \in Nat
      BY <1>3
    <2> QED
      BY <2>2, <2>3
  <1>10. Max(pair) \in pair /\ Min(pair) \in pair /\ \A e \in pair : Min(pair) <= e
    BY <1>9, MaxOf, MinOf
  <1>11. /\ RecodedAnd(h).lhs = Recode(h.lhs) /\ RecodedAnd(h).rhs0 = Max(pair)
         /\ RecodedAnd(h).rhs1 = Min(pair)
    BY DEF RecodedAnd, x, y
  <1> DEFINE p == Max(pair)
             q == Min(pair)
  <1>12. p \in {x, y} /\ q \in {x, y} /\ q <= p
    BY <1>10
  <1> HIDE DEF p, q, B
  <1>13. p \in B /\ q \in B /\ p <= code[v]
    BY <1>3, <1>8, <1>12
  <1>14. code[v] \in Nat /\ p \in Nat /\ q \in Nat /\ code[v] >= p /\ p >= q
    <2>1. code[v] \in Nat
      BY <1>4, RecodedLits
    <2>2. p \in Nat /\ q \in Nat
      BY <1>13 DEF B
    <2> QED
      BY <1>12, <1>13, <2>1, <2>2
  <1>15. /\ RecodedAnd(h).lhs = code[v] /\ RecodedAnd(h).rhs0 = p /\ RecodedAnd(h).rhs1 = q
    BY <1>5, <1>11 DEF p, q
  <1> QED
    BY <1>3, <1>5, <1>13, <1>14, <1>15 DEF B, h

\* The new graph, part by part.
LEMMA RecodedIsGraph ==
    ASSUME Sound, ResetsWithin, NEW m \in Nat, Coded(m)
    PROVE  LET b == RecodedGraph(aig) IN
           /\ b.maxvar = m /\ IsGraph(b) /\ b.names = aig.names /\ b.ands = RecodedAnds(aig)
           /\ Len(b.inputs) = Len(aig.inputs) /\ Len(b.latches) = Len(aig.latches)
           /\ \A k \in 1..Len(b.inputs) : b.inputs[k] = Recode(aig.inputs[k])
           /\ \A k \in 1..Len(b.latches) : /\ b.latches[k].lit = Recode(aig.latches[k].lit)
                                           /\ b.latches[k].next = Recode(aig.latches[k].next)
                                           /\ b.latches[k].reset = RecodeReset(aig.latches[k].reset)
  <1> DEFINE b == RecodedGraph(aig)
             B == 0..(2 * m + 1)
             inputs == [k \in 1..Len(aig.inputs) |-> Recode(aig.inputs[k])]
             latch(k) == [lit |-> Recode(aig.latches[k].lit), next |-> Recode(aig.latches[k].next),
                          reset |-> RecodeReset(aig.latches[k].reset)]
             R == 0..(Word - 1)
             latches == [k \in 1..Len(aig.latches) |-> latch(k)]
             entry(kind, k) == [i \in 1..Len(aig.symbols[kind][k]) |-> Recode(aig.symbols[kind][k][i])]
             section(kind) == [k \in 1..Len(aig.symbols[kind]) |-> entry(kind, k)]
             symbols == [kind \in ToSet(Kinds) |-> section(kind)]
             ands == RecodedAnds(aig)
  <1>1. GraphPhase /\ IsGraph(aig)
    BY DEF Sound, GraphPhase, GraphOK
  <1>2. Var(new - 1) = m /\ \A lit \in LitsOf(aig) : Recode(lit) \in B
    BY RecodedLits
  <1>3. b = [maxvar |-> m, inputs |-> inputs, latches |-> latches, symbols |-> symbols,
             ands |-> ands, names |-> aig.names]
    BY <1>2 DEF RecodedGraph
  <1>4. inputs \in Seq(B) /\ Len(inputs) = Len(aig.inputs)
    <2>1. Len(aig.inputs) \in Nat /\ \A k \in 1..Len(aig.inputs) : Recode(aig.inputs[k]) \in B
      BY <1>1, <1>2, GraphEntries
    <2> HIDE DEF B
    <2> QED
      BY <2>1
  <1>5. latches \in Seq([lit : B, next : B, reset : R]) /\ Len(latches) = Len(aig.latches)
    <2>1. Len(aig.latches) \in Nat
      BY <1>1, GraphEntries
    <2>2. \A k \in 1..Len(aig.latches) : latch(k) \in [lit : B, next : B, reset : R]
      <3> SUFFICES ASSUME NEW k \in 1..Len(aig.latches) PROVE latch(k) \in [lit : B, next : B, reset : R]
        OBVIOUS
      <3>1. Recode(aig.latches[k].lit) \in B /\ Recode(aig.latches[k].next) \in B
        BY <1>1, <1>2, GraphEntries
      <3>2. RecodeReset(aig.latches[k].reset) \in R
        <4>1. aig.latches[k].reset \in LitsOf(aig) /\ aig.latches[k].reset \in 0..(Word - 1)
          BY <1>1, GraphEntries DEF ResetsWithin
        <4> QED
          BY <4>1, ResetRecoded
      <3> HIDE DEF B, R
      <3> QED
        BY <3>1, <3>2
    <2> DEFINE Q == [lit : B, next : B, reset : R]
    <2> HIDE DEF latch, Q
    <2>3. latches \in Seq(Q) /\ Len(latches) = Len(aig.latches)
      BY <2>1, <2>2 DEF Q
    <2> QED
      BY <2>3 DEF Q
  <1>6. symbols \in [ToSet(Kinds) -> Seq(Seq(B))]
    <2> SUFFICES ASSUME NEW kind \in ToSet(Kinds) PROVE section(kind) \in Seq(Seq(B))
      OBVIOUS
    <2>1. Len(aig.symbols[kind]) \in Nat
      BY <1>1, GraphEntries
    <2>2. ASSUME NEW k \in 1..Len(aig.symbols[kind]) PROVE entry(kind, k) \in Seq(B)
      <3>1. Len(aig.symbols[kind][k]) \in Nat
            /\ \A i \in 1..Len(aig.symbols[kind][k]) : Recode(aig.symbols[kind][k][i]) \in B
        BY <1>1, <1>2, GraphEntries
      <3> HIDE DEF B
      <3> QED
        BY <3>1
    <2> DEFINE Q == Seq(B)
    <2>3. \A k \in 1..Len(aig.symbols[kind]) : entry(kind, k) \in Q
      BY <2>2
    <2> HIDE DEF entry, Q
    <2>4. section(kind) \in Seq(Q)
      BY <2>1, <2>3
    <2> QED
      BY <2>4 DEF Q
  <1>7. ands \in Seq([lhs : B, rhs0 : B, rhs1 : B])
    <2> DEFINE n == Len(Sources(aig))
               Q == [lhs : B, rhs0 : B, rhs1 : B]
    <2>1. n \in Nat /\ n <= m
      BY RecodedLits
    <2>2. /\ Len(ands) = m - n
          /\ \A k \in 1..(m - n) :
               \E i \in 1..Len(aig.ands) : ands[k] = RecodedAnd(aig.ands[i]) /\ code[Var(aig.ands[i].lhs)] # 0
      BY AndsInOrder
    <2>3. ASSUME NEW k \in 1..(m - n) PROVE ands[k] \in Q
      <3>1. PICK i \in 1..Len(aig.ands) : ands[k] = RecodedAnd(aig.ands[i]) /\ code[Var(aig.ands[i].lhs)] # 0
        BY <2>2
      <3> DEFINE g == RecodedAnd(aig.ands[i])
      <3>2. g.lhs \in B /\ g.rhs0 \in B /\ g.rhs1 \in B
        BY <3>1, ReadsSmaller
      <3>3. g = [lhs |-> g.lhs, rhs0 |-> g.rhs0, rhs1 |-> g.rhs1]
        BY DEF RecodedAnd
      <3> HIDE DEF g, B
      <3>4. g \in Q
        BY <3>2, <3>3
      <3> QED
        BY <3>1, <3>4 DEF g
    <2>5. ands = [k \in 1..(m - n) |-> ands[k]]
      BY AndsInOrder
    <2> HIDE DEF ands, Q, n
    <2>6. m - n \in Nat
      BY <2>1
    <2>7. ands \in Seq(Q)
      BY <2>3, <2>5, <2>6
    <2> QED
      BY <2>7 DEF Q
  <1>8. aig.names \in SUBSET Names
    BY <1>1, GraphParts
  <1> HIDE DEF inputs, symbols, latches, ands
  <1>9. b.maxvar = m /\ b.inputs = inputs /\ b.latches = latches /\ b.symbols = symbols /\ b.ands = ands /\ b.names = aig.names
    BY <1>3
  <1>10. LitsOf(b) = B
    BY <1>9 DEF LitsOf
  <1>11. IsGraph(b)
    <2> DEFINE J == Seq([lit : B, next : B, reset : R])  K == Seq([lhs : B, rhs0 : B, rhs1 : B])
               X == [ToSet(Kinds) -> Seq(Seq(B))]  I == Seq(B)  M == SUBSET Names
               Graphs == [maxvar : Nat, inputs : I, latches : J, symbols : X, ands : K, names : M]
    <2>1. inputs \in I /\ latches \in J /\ symbols \in X /\ ands \in K /\ aig.names \in M /\ m \in Nat
      BY <1>4, <1>5, <1>6, <1>7, <1>8
    <2>2. b \in Graphs
      <3> HIDE DEF I, J, K, X, M, b
      <3> QED
        BY <1>3, <2>1
    <2> QED
      BY <1>10, <2>2 DEF IsGraph
  <1>12. \A k \in 1..Len(aig.inputs) : inputs[k] = Recode(aig.inputs[k])
    BY DEF inputs
  <1>13. \A k \in 1..Len(aig.latches) : latches[k] = latch(k)
    BY DEF latches
  <1> HIDE DEF b
  <1>14. /\ Len(b.inputs) = Len(aig.inputs) /\ Len(b.latches) = Len(aig.latches)
         /\ \A k \in 1..Len(b.inputs) : b.inputs[k] = Recode(aig.inputs[k])
    BY <1>4, <1>5, <1>9, <1>12
  <1>15. \A k \in 1..Len(b.latches) : /\ b.latches[k].lit = Recode(aig.latches[k].lit)
                                       /\ b.latches[k].next = Recode(aig.latches[k].next)
                                       /\ b.latches[k].reset = RecodeReset(aig.latches[k].reset)
    <2> SUFFICES ASSUME NEW k \in 1..Len(b.latches)
                 PROVE  /\ b.latches[k].lit = Recode(aig.latches[k].lit)
                        /\ b.latches[k].next = Recode(aig.latches[k].next)
                        /\ b.latches[k].reset = RecodeReset(aig.latches[k].reset)
      OBVIOUS
    <2>1. b.latches[k] = latch(k)
      BY <1>5, <1>9, <1>13
    <2> QED
      BY <2>1
  <1>16. b.maxvar = m /\ b.names = aig.names /\ b.ands = RecodedAnds(aig)
    BY <1>9 DEF ands
  <1> QED
    BY <1>11, <1>14, <1>15, <1>16 DEF b

(***************************************************************************)
(* Types and entries, for any graph.                                       *)
(***************************************************************************)
\* TypesAgree, for a graph and types.
Agree(a, t) ==
    \A v \in 1..a.maxvar :
      /\ t[v].is \in {"none", "input", "latch", "and"}
      /\ t[v].is = "input" => a.inputs[t[v].idx] = 2 * v
      /\ t[v].is = "latch" => a.latches[t[v].idx].lit = 2 * v
      /\ t[v].is = "and" => a.ands[t[v].idx].lhs = 2 * v
      /\ t[v].is = "none" => 2 * v \notin ToSet(Sources(a)) \cup {g.lhs : g \in ToSet(a.ands)}

\* TypesAgree is that.
LEMMA AgreeMeans ==
    ASSUME Agree(aig, types)
    PROVE  TypesAgree
  <1> SUFFICES ASSUME NEW v \in 1..aig.maxvar
               PROVE  LET t == types[v] IN
                      CASE t.is = "input" -> aig.inputs[t.idx] = 2 * v
                        [] t.is = "latch" -> aig.latches[t.idx].lit = 2 * v
                        [] t.is = "and"   -> aig.ands[t.idx].lhs = 2 * v
                        [] t.is = "none"  -> 2 * v \notin ToSet(Sources(aig)) \cup {g.lhs : g \in ToSet(aig.ands)}
    BY DEF TypesAgree
  <1> QED
    BY DEF Agree

\* The literals the ands define.
LEMMA AndLits ==
    ASSUME NEW a, IsGraph(a)
    PROVE  {g.lhs : g \in ToSet(a.ands)} = {a.ands[k].lhs : k \in 1..Len(a.ands)}
  <1>1. ToSet(a.ands) = {a.ands[k] : k \in 1..Len(a.ands)}
    BY GraphParts, SetOfSeq
  <1> QED
    BY <1>1

\* It follows from the correspondence of the reader.
LEMMA CorrespondsAgree ==
    ASSUME NEW a, NEW t, IsGraph(a), Corresponds(a, t)
    PROVE  Agree(a, t)
  <1>1. a.maxvar \in Nat /\ t \in [0..a.maxvar -> Types]
    BY GraphParts DEF Corresponds
  <1> SUFFICES ASSUME NEW v \in 1..a.maxvar
               PROVE  /\ t[v].is \in {"none", "input", "latch", "and"}
                      /\ t[v].is = "input" => a.inputs[t[v].idx] = 2 * v
                      /\ t[v].is = "latch" => a.latches[t[v].idx].lit = 2 * v
                      /\ t[v].is = "and" => a.ands[t[v].idx].lhs = 2 * v
                      /\ t[v].is = "none" => 2 * v \notin ToSet(Sources(a)) \cup {g.lhs : g \in ToSet(a.ands)}
    BY DEF Agree
  <1>2. v \in 0..a.maxvar /\ v \in Nat
    BY <1>1
  <1>3. t[v].is \in {"none", "input", "latch", "and"}
    BY <1>1, <1>2 DEF Types
  <1>4. Leads(a, t, v)
    BY <1>2 DEF Corresponds
  <1>5. ASSUME t[v].is = "none", NEW what \in Whats, NEW k \in 1..Count(a, what) PROVE Defined(a, what, k) # 2 * v
    <2>1. Var(Defined(a, what, k)) # v
      BY <1>5 DEF Corresponds, Placed, Whats
    <2> QED
      BY <1>2, <2>1, Doubled
  <1>6. ASSUME t[v].is = "none" PROVE 2 * v \notin ToSet(Sources(a)) \cup {g.lhs : g \in ToSet(a.ands)}
    <2>1. \A k \in 1..Len(a.ands) : a.ands[k].lhs # 2 * v
      BY <1>5, <1>6 DEF Whats, Count, Defined
    <2>2. \A k \in 1..Len(a.inputs) : a.inputs[k] # 2 * v
      BY <1>5, <1>6 DEF Whats, Count, Defined
    <2>3. \A k \in 1..Len(a.latches) : a.latches[k].lit # 2 * v
      BY <1>5, <1>6 DEF Whats, Count, Defined
    <2>4. 2 * v \notin {g.lhs : g \in ToSet(a.ands)}
      BY <2>1, AndLits
    <2>5. 2 * v \notin ToSet(Sources(a))
      BY <2>2, <2>3, DefinedOnce
    <2> QED
      BY <2>4, <2>5
  <1> QED
    BY <1>3, <1>4, <1>6 DEF Leads, Whats, Count, Defined

\* The literals of the inputs and the latches.
LEMMA SourcesOf ==
    ASSUME NEW a, IsGraph(a)
    PROVE  ToSet(Sources(a)) = {a.inputs[k] : k \in 1..Len(a.inputs)} \cup {a.latches[k].lit : k \in 1..Len(a.latches)}
  <1> DEFINE A == LitsOf(a)
             s == LatchLits(a)
  <1>1. a.inputs \in Seq(A) /\ Len(a.latches) \in Nat /\ \A k \in 1..Len(a.latches) : a.latches[k].lit \in A
    BY GraphParts, GraphEntries
  <1> HIDE DEF A
  <1>2. s \in Seq(A) /\ Len(s) = Len(a.latches) /\ \A k \in 1..Len(s) : s[k] = a.latches[k].lit
    BY <1>1 DEF LatchLits
  <1> HIDE DEF s
  <1>3. ToSet(a.inputs \o s) = ToSet(a.inputs) \cup ToSet(s)
    BY <1>1, <1>2, SetOfConcat
  <1>4. ToSet(a.inputs) = {a.inputs[k] : k \in 1..Len(a.inputs)} /\ ToSet(s) = {s[k] : k \in 1..Len(s)}
    BY <1>1, <1>2, SetOfSeq
  <1>5. {s[k] : k \in 1..Len(s)} = {a.latches[k].lit : k \in 1..Len(a.latches)}
    BY <1>2
  <1> QED
    BY <1>3, <1>4, <1>5 DEF Sources, s

\* The place of a literal.
LEMMA PlaceIn ==
    ASSUME NEW s, Len(s) \in Nat, NEW v
    PROVE  LET place == SelectInSeq(s, LAMBDA lit : lit = 2 * v) IN
           /\ place \in 0..Len(s)
           /\ place # 0 => s[place] = 2 * v
           /\ place = 0 => \A k \in 1..Len(s) : s[k] # 2 * v
  <1> DEFINE w == 2 * v
  <1> HIDE DEF w
  <1>1. /\ SelectInSeq(s, LAMBDA lit : lit = w) \in 0..Len(s)
        /\ SelectInSeq(s, LAMBDA lit : lit = w) # 0 => s[SelectInSeq(s, LAMBDA lit : lit = w)] = w
        /\ SelectInSeq(s, LAMBDA lit : lit = w) = 0 => \A k \in 1..Len(s) : s[k] # w
    BY PlaceOf
  <1> QED
    BY <1>1 DEF w

Retyped(t, p, j) == [t EXCEPT !.is = p, !.idx = j]
VariableIs == {"none", "input", "latch", "and"}
\* A type with another kind and place.
LEMMA RetypedIs ==
    ASSUME NEW t \in Types, NEW p \in VariableIs, NEW j \in Nat
    PROVE  Retyped(t, p, j) \in Types /\ Retyped(t, p, j).is = p /\ Retyped(t, p, j).idx = j
  <1>1. t \in [is : {"none", "input", "latch", "and"}, idx : Nat, mark : BOOLEAN, onstack : BOOLEAN]
    BY DEF Types
  <1>2. Retyped(t, p, j) \in [is : {"none", "input", "latch", "and"}, idx : Nat, mark : BOOLEAN, onstack : BOOLEAN]
    BY <1>1 DEF Retyped, VariableIs
  <1>3. Retyped(t, p, j).is = p /\ Retyped(t, p, j).idx = j
    BY <1>1 DEF Retyped
  <1> QED
    BY <1>2, <1>3 DEF Types

\* The types that Rebuild sets agree with every graph, whatever they were before.
LEMMA TypesOfAgree ==
    ASSUME NEW b, IsGraph(b), NEW D, NEW old \in [D -> Types], 0..b.maxvar \subseteq D
    PROVE  TypesOf(b, old) \in [D -> Types] /\ Agree(b, TypesOf(b, old))
  <1> DEFINE u == TypesOf(b, old)
             place(lits, v) == SelectInSeq(lits, LAMBDA lit : lit = 2 * v)
             lhs == [k \in 1..Len(b.ands) |-> b.ands[k].lhs]
             i(v) == place(b.inputs, v)
             l(v) == place(LatchLits(b), v)
             g(v) == place(lhs, v)
             Typed(v, p, j) == [old[v] EXCEPT !.is = p, !.idx = j]
             body(v) == IF v = 0 \/ v > b.maxvar THEN old[v]
                        ELSE IF i(v) # 0 THEN Typed(v, "input", i(v))
                        ELSE IF l(v) # 0 THEN Typed(v, "latch", l(v))
                        ELSE IF g(v) # 0 THEN Typed(v, "and", g(v))
                        ELSE Typed(v, "none", 0)
  <1>1. b.maxvar \in Nat /\ Len(b.inputs) \in Nat /\ Len(b.latches) \in Nat /\ Len(b.ands) \in Nat
    BY GraphParts, GraphEntries
  <1>2. Len(LatchLits(b)) = Len(b.latches) /\ \A k \in 1..Len(b.latches) : LatchLits(b)[k] = b.latches[k].lit
    BY <1>1 DEF LatchLits
  <1>3. Len(lhs) = Len(b.ands) /\ \A k \in 1..Len(b.ands) : lhs[k] = b.ands[k].lhs
    BY <1>1
  <1>4. u = [v \in D |-> body(v)]
    BY DEF TypesOf
  <1> HIDE DEF lhs, u
  <1>5. \A v : /\ i(v) \in 0..Len(b.inputs)
               /\ i(v) # 0 => b.inputs[i(v)] = 2 * v
               /\ i(v) = 0 => \A k \in 1..Len(b.inputs) : b.inputs[k] # 2 * v
    BY <1>1, PlaceIn
  <1>6. \A v : /\ l(v) \in 0..Len(b.latches)
               /\ l(v) # 0 => LatchLits(b)[l(v)] = 2 * v
               /\ l(v) = 0 => \A k \in 1..Len(b.latches) : LatchLits(b)[k] # 2 * v
    BY <1>1, <1>2, PlaceIn
  <1>7. \A v : /\ g(v) \in 0..Len(b.ands)
               /\ g(v) # 0 => lhs[g(v)] = 2 * v
               /\ g(v) = 0 => \A k \in 1..Len(b.ands) : lhs[k] # 2 * v
    BY <1>1, <1>3, PlaceIn
  <1> HIDE DEF place, i, l, g
  <1>8. ASSUME NEW v \in D, NEW p \in VariableIs, NEW j \in Nat
        PROVE  Typed(v, p, j) \in Types /\ Typed(v, p, j).is = p /\ Typed(v, p, j).idx = j
    <2> DEFINE t == old[v]
    <2>1. t \in Types
      OBVIOUS
    <2> HIDE DEF t
    <2>2. Retyped(t, p, j) \in Types /\ Retyped(t, p, j).is = p /\ Retyped(t, p, j).idx = j
      BY <2>1, RetypedIs
    <2> QED
      BY <2>2 DEF Retyped, t
  <1> HIDE DEF Typed
  <1>9. \A v : i(v) \in Nat /\ l(v) \in Nat /\ g(v) \in Nat
    BY <1>1, <1>5, <1>6, <1>7
  <1>10. \A v \in D : body(v) \in Types
    BY <1>8, <1>9 DEF VariableIs
  <1>11. u \in [D -> Types]
    BY <1>4, <1>10
  <1>12. ASSUME NEW v \in 1..b.maxvar
         PROVE  /\ u[v].is \in {"none", "input", "latch", "and"}
                /\ u[v].is = "input" => b.inputs[u[v].idx] = 2 * v
                /\ u[v].is = "latch" => b.latches[u[v].idx].lit = 2 * v
                /\ u[v].is = "and" => b.ands[u[v].idx].lhs = 2 * v
                /\ u[v].is = "none" => 2 * v \notin ToSet(Sources(b)) \cup {e.lhs : e \in ToSet(b.ands)}
    <2>1. v \in D /\ ~(v = 0 \/ v > b.maxvar)
      BY <1>1
    <2>2. u[v] = IF i(v) # 0 THEN Typed(v, "input", i(v))
                 ELSE IF l(v) # 0 THEN Typed(v, "latch", l(v))
                 ELSE IF g(v) # 0 THEN Typed(v, "and", g(v))
                 ELSE Typed(v, "none", 0)
      BY <1>4, <2>1
    <2>3. i(v) # 0 => b.inputs[i(v)] = 2 * v
      BY <1>5
    <2>4. l(v) # 0 => b.latches[l(v)].lit = 2 * v
      <3>1. l(v) # 0 => l(v) \in 1..Len(b.latches)
        BY <1>1, <1>6
      <3> QED
        BY <1>2, <1>6, <3>1
    <2>5. g(v) # 0 => b.ands[g(v)].lhs = 2 * v
      <3>1. g(v) # 0 => g(v) \in 1..Len(b.ands)
        BY <1>1, <1>7
      <3> QED
        BY <1>3, <1>7, <3>1
    <2>6. ASSUME i(v) = 0, l(v) = 0, g(v) = 0
          PROVE  2 * v \notin ToSet(Sources(b)) \cup {e.lhs : e \in ToSet(b.ands)}
      <3>1. \A k \in 1..Len(b.inputs) : b.inputs[k] # 2 * v
        BY <1>5, <2>6
      <3>2. \A k \in 1..Len(b.latches) : b.latches[k].lit # 2 * v
        BY <1>2, <1>6, <2>6
      <3>3. \A k \in 1..Len(b.ands) : b.ands[k].lhs # 2 * v
        BY <1>3, <1>7, <2>6
      <3> DEFINE w == 2 * v
      <3> HIDE DEF w
      <3>4. w \notin ToSet(Sources(b))
        BY <3>1, <3>2, SourcesOf DEF w
      <3>5. w \notin {e.lhs : e \in ToSet(b.ands)}
        <4>1. {e.lhs : e \in ToSet(b.ands)} = {b.ands[k].lhs : k \in 1..Len(b.ands)}
          BY AndLits
        <4>2. \A k \in 1..Len(b.ands) : b.ands[k].lhs # w
          BY <3>3 DEF w
        <4> QED
          BY <4>1, <4>2
      <3>6. w \notin ToSet(Sources(b)) \cup {e.lhs : e \in ToSet(b.ands)}
        BY <3>4, <3>5
      <3> QED
        BY <3>6 DEF w
    <2>7. CASE i(v) # 0
      BY <1>8, <1>9, <2>1, <2>2, <2>3, <2>7 DEF VariableIs
    <2>8. CASE i(v) = 0 /\ l(v) # 0
      BY <1>8, <1>9, <2>1, <2>2, <2>4, <2>8 DEF VariableIs
    <2>9. CASE i(v) = 0 /\ l(v) = 0 /\ g(v) # 0
      BY <1>8, <1>9, <2>1, <2>2, <2>5, <2>9 DEF VariableIs
    <2>10. CASE i(v) = 0 /\ l(v) = 0 /\ g(v) = 0
      <3>1. u[v].is = "none"
        BY <1>8, <2>1, <2>2, <2>10 DEF VariableIs
      <3> QED
        BY <2>6, <2>10, <3>1
    <2> QED
      BY <2>7, <2>8, <2>9, <2>10
  <1> QED
    BY <1>11, <1>12 DEF Agree, u

ReencodedPhase ==
    /\ GraphOK(aig) /\ IsReencoded(aig) /\ stack = <<>>
    /\ 0..aig.maxvar \subseteq DOMAIN types /\ types \in [DOMAIN types -> Types]
    /\ Agree(aig, types)

\* The sources are numbered in their order.
LEMMA SourcesRecoded ==
    ASSUME Sound, NEW m \in Nat, Coded(m), NEW k \in 1..Len(Sources(aig))
    PROVE  Recode(Sources(aig)[k]) = 2 * k
  <1>1. Variables(aig.maxvar, Sources(aig), GateVars, Reads)
    BY VariablesAre DEF Sound
  <1>2. Numbering(0..aig.maxvar, Sources(aig), GateVars, Reads, code, m)
    BY DEF Coded
  <1> DEFINE v == Var(Sources(aig)[k])
  <1>3. v \in 1..aig.maxvar /\ Sources(aig)[k] = 2 * v
    BY <1>1 DEF Variables
  <1>4. code[v] = 2 * k
    BY <1>2 DEF Numbering
  <1> HIDE DEF v
  <1>5. Recode(2 * v) = code[v]
    BY <1>3, RecodedLits
  <1> QED
    BY <1>3, <1>4, <1>5

\* The graph that Rebuild makes is re-encoded.
LEMMA RecodedForm ==
    ASSUME Sound, ResetsWithin, NEW m \in Nat, Coded(m)
    PROVE  IsReencoded(RecodedGraph(aig))
  <1> DEFINE b == RecodedGraph(aig)
             I == Len(aig.inputs)
             L == Len(aig.latches)
             n == Len(Sources(aig))
  <1>1. /\ b.maxvar = m /\ IsGraph(b) /\ b.ands = RecodedAnds(aig)
        /\ Len(b.inputs) = I /\ Len(b.latches) = L
        /\ \A k \in 1..Len(b.inputs) : b.inputs[k] = Recode(aig.inputs[k])
        /\ \A k \in 1..Len(b.latches) : b.latches[k].lit = Recode(aig.latches[k].lit)
    BY RecodedIsGraph
  <1>2. IsGraph(aig) /\ I \in Nat /\ L \in Nat
    BY GraphParts, GraphEntries DEF Sound, GraphPhase, GraphOK
  <1>3. /\ n = I + L /\ \A k \in 1..I : Sources(aig)[k] = aig.inputs[k]
        /\ \A k \in 1..L : Sources(aig)[I + k] = aig.latches[k].lit
    BY <1>2, DefinedInTurn
  <1> HIDE DEF b
  <1>4. /\ \A k \in 1..Len(b.inputs) : Sources(b)[k] = b.inputs[k]
        /\ \A k \in 1..Len(b.latches) : Sources(b)[Len(b.inputs) + k] = b.latches[k].lit
    BY <1>1, DefinedInTurn
  <1>5. \A k \in 1..n : Recode(Sources(aig)[k]) = 2 * k
    BY SourcesRecoded
  <1> HIDE DEF n, I, L
  <1>6. ASSUME NEW k \in 1..(I + L) PROVE Sources(b)[k] = 2 * k
    <2>1. CASE k \in 1..I
      <3>1. Sources(b)[k] = Recode(aig.inputs[k])
        BY <1>1, <1>4, <2>1
      <3>2. Sources(aig)[k] = aig.inputs[k]
        BY <1>3, <2>1
      <3> QED
        BY <1>3, <1>5, <3>1, <3>2
    <2>2. CASE k \notin 1..I
      <3> DEFINE j == k - I
      <3>1. j \in 1..L /\ k = I + j
        BY <1>2, <2>2
      <3> HIDE DEF j
      <3>2. Sources(b)[I + j] = b.latches[j].lit
        BY <1>1, <1>4, <3>1
      <3>3. Sources(b)[I + j] = Recode(aig.latches[j].lit)
        BY <1>1, <3>1, <3>2
      <3>4. Sources(aig)[I + j] = aig.latches[j].lit
        BY <1>3, <3>1
      <3>5. Sources(b)[k] = Recode(Sources(aig)[k])
        BY <3>1, <3>3, <3>4
      <3> QED
        BY <1>3, <1>5, <3>5
    <2> QED
      BY <2>1, <2>2
  <1> DEFINE ands == RecodedAnds(aig)
  <1>7. /\ Len(ands) = m - n
        /\ \A k \in 1..(m - n) :
             /\ ands[k].lhs = 2 * (n + k)
             /\ \E i \in 1..Len(aig.ands) : ands[k] = RecodedAnd(aig.ands[i]) /\ code[Var(aig.ands[i].lhs)] # 0
    BY AndsInOrder DEF n
  <1> HIDE DEF ands
  <1>8. ASSUME NEW k \in 1..(m - n)
        PROVE  ands[k].lhs = 2 * (n + k) /\ ands[k].lhs >= ands[k].rhs0 /\ ands[k].rhs0 >= ands[k].rhs1
    <2>1. PICK i \in 1..Len(aig.ands) : ands[k] = RecodedAnd(aig.ands[i]) /\ code[Var(aig.ands[i].lhs)] # 0
      BY <1>7
    <2>2. LET g == RecodedAnd(aig.ands[i]) IN g.lhs >= g.rhs0 /\ g.rhs0 >= g.rhs1
      BY <2>1, ReadsSmaller
    <2> QED
      BY <1>7, <2>1, <2>2
  <1>9. b.ands = ands
    BY <1>1 DEF ands
  <1>10. Len(b.inputs) + Len(b.latches) = I + L /\ Len(b.ands) = m - n /\ n = I + L
    BY <1>1, <1>3, <1>7, <1>9
  <1>11. IsReencoded(b)
    BY <1>6, <1>8, <1>9, <1>10 DEF IsReencoded
  <1> QED
    BY <1>11 DEF b

\* Rebuild: the new graph has no variables but those it needs, and types agrees.
LEMMA RebuildStep ==
    ASSUME RecodePhase, Rebuild
    PROVE  /\ at' = "reencoded" /\ ReencodedPhase'
           /\ aig'.maxvar = Len(aig'.inputs) + Len(aig'.latches) + Len(aig'.ands)
           /\ \E m \in Nat : Coded(m) /\ Len(aig'.ands) = m - Len(Sources(aig))
  <1>1. PICK m \in Nat : Coded(m)
    BY DEF RecodePhase
  <1>2. Sound /\ GraphOK(aig) /\ Corresponds(aig, types) /\ IsGraph(aig)
    BY DEF RecodePhase, Sound, GraphPhase, GraphOK
  <1>10. ResetsWithin
    BY CompleteWithin DEF Complete, Rebuild
  <1> DEFINE b == RecodedGraph(aig)
             n == Len(Sources(aig))
  <1>3. /\ b.maxvar = m /\ IsGraph(b) /\ b.names = aig.names /\ b.ands = RecodedAnds(aig)
        /\ Len(b.inputs) = Len(aig.inputs) /\ Len(b.latches) = Len(aig.latches)
    BY <1>1, <1>2, <1>10, RecodedIsGraph
  <1>4. IsReencoded(b)
    BY <1>1, <1>2, <1>10, RecodedForm
  <1>5. m <= aig.maxvar /\ aig.maxvar \in Nat /\ n \in Nat /\ n <= m
    BY <1>1, <1>2, RecodedLits, GraphParts
  <1>6. Len(RecodedAnds(aig)) = m - n
    BY <1>1, <1>2, AndsInOrder
  <1>7. n = Len(aig.inputs) + Len(aig.latches) /\ Len(aig.inputs) \in Nat /\ Len(aig.latches) \in Nat
    BY <1>2, DefinedInTurn, GraphEntries
  <1>8. at' = "reencoded" /\ aig' = b /\ types' = TypesOf(aig', types) /\ stack' = <<>>
    BY DEF Rebuild
  <1>9. 2 * aig.maxvar + 1 < Word /\ IsFiniteSet(aig.names) /\ Word \in Nat
    BY <1>2, WordIs DEF GraphOK
  <1> HIDE DEF b, n
  <1>11. 2 * b.maxvar + 1 < Word
    BY <1>3, <1>5, <1>9
  <1>12. GraphOK(b)
    BY <1>3, <1>9, <1>11 DEF GraphOK
  <1>13. types \in [0..aig.maxvar -> Types] /\ 0..b.maxvar \subseteq 0..aig.maxvar
    <2>1. types \in [0..aig.maxvar -> Types]
      BY <1>2 DEF Corresponds
    <2> QED
      BY <1>3, <1>5, <2>1
  <1>14. types' \in [0..aig.maxvar -> Types] /\ Agree(b, types')
    BY <1>3, <1>8, <1>13, TypesOfAgree
  <1>15. DOMAIN types' = 0..aig.maxvar
    BY <1>14
  <1>16. ReencodedPhase'
    BY <1>4, <1>8, <1>12, <1>13, <1>14, <1>15 DEF ReencodedPhase, GraphOK, IsReencoded, Sources, LatchLits, Agree
  <1>17. aig'.maxvar = Len(aig'.inputs) + Len(aig'.latches) + Len(aig'.ands)
    <2>1. Len(b.ands) = m - n
      BY <1>3, <1>6
    <2>3. \A i, l, k, x \in Nat : k = i + l => x = i + l + (x - k)
      OBVIOUS
    <2>4. b.maxvar = m /\ Len(b.inputs) = Len(aig.inputs) /\ Len(b.latches) = Len(aig.latches)
      BY <1>3
    <2>5. m = Len(aig.inputs) + Len(aig.latches) + (m - n)
      <3> DEFINE i == Len(aig.inputs)
                 l == Len(aig.latches)
      <3>1. i \in Nat /\ l \in Nat /\ n \in Nat /\ n = i + l /\ m \in Nat
        BY <1>5, <1>7
      <3> HIDE DEF i, l
      <3>2. m = i + l + (m - n)
        BY <2>3, <3>1
      <3> QED
        BY <3>2 DEF i, l
    <2>2. b.maxvar = Len(b.inputs) + Len(b.latches) + Len(b.ands)
      BY <2>1, <2>4, <2>5
    <2> QED
      BY <1>8, <2>2
  <1>18. Len(aig'.ands) = m - n
    BY <1>3, <1>6, <1>8
  <1> QED
    BY <1>1, <1>8, <1>16, <1>17, <1>18 DEF n

\* A graph that has the form already is left as it is.
LEMMA AlreadyReencoded ==
    ASSUME GraphPhase, stack = <<>>, IsReencoded(aig)
    PROVE  ReencodedPhase
  <1>1. GraphOK(aig) /\ IsGraph(aig) /\ Corresponds(aig, types)
    BY DEF GraphPhase, GraphOK
  <1>2. types \in [0..aig.maxvar -> Types]
    BY <1>1 DEF Corresponds
  <1>3. Agree(aig, types)
    BY <1>1, CorrespondsAgree
  <1> QED
    BY <1>1, <1>2, <1>3 DEF ReencodedPhase

(***************************************************************************)
(* Handing on, and writing.                                                *)
(***************************************************************************)
\* Graph b is a but for its bad states, which are a's outputs, and for its names.
OutputsAreBad(a, b, s, t) ==
    /\ s = [a.symbols EXCEPT !["bad"] = a.symbols["output"]]
    /\ t = a.names \cup {[n EXCEPT !.kind = "bad"] : n \in {m \in a.names : m.kind = "output"}}
    /\ b = [a EXCEPT !.symbols = s, !.names = t]

\* The two graphs differ in what they call bad at most.
SameBody(a, b) ==
    /\ a.inputs = b.inputs /\ a.latches = b.latches /\ a.ands = b.ands
    /\ ToSet(SymbolLits(a)) = ToSet(SymbolLits(b))

\* The names that the outputs take along.
LEMMA BadNames ==
    ASSUME NEW S \in SUBSET Names, IsFiniteSet(S)
    PROVE  LET T == S \cup {[n EXCEPT !.kind = "bad"] : n \in {m \in S : m.kind = "output"}} IN
           T \in SUBSET Names /\ IsFiniteSet(T)
  <1> DEFINE O == {m \in S : m.kind = "output"}
             f == [n \in O |-> [n EXCEPT !.kind = "bad"]]
             B == {f[n] : n \in O}
  <1>1. \A n \in Names : [n EXCEPT !.kind = "bad"] \in Names
    <2> DEFINE K == {"input", "latch", "and"} \cup ToSet(Kinds)
               N == Nat \ {0}
    <2>1. "bad" \in K
      BY KindNames
    <2> HIDE DEF K, N
    <2>2. ASSUME NEW n \in [kind : K, place : N]
          PROVE  [n EXCEPT !.kind = "bad"] = [kind |-> "bad", place |-> n.place] /\ n.place \in N
      OBVIOUS
    <2>3. \A p \in N : [kind |-> "bad", place |-> p] \in [kind : K, place : N]
      BY <2>1
    <2>4. Names = [kind : K, place : N]
      BY DEF Names, K, N
    <2> QED
      BY <2>2, <2>3, <2>4
  <1>2. IsFiniteSet(O)
    BY FS_Subset
  <1>3. B \in SUBSET Names
    BY <1>1
  <1>4. {[n EXCEPT !.kind = "bad"] : n \in O} = B
    OBVIOUS
  <1> HIDE DEF O
  <1>5. f \in [O -> B] /\ \A x \in B : \E n \in O : f[n] = x
    OBVIOUS
  <1> HIDE DEF f, B
  <1>6. f \in Surjection(O, B)
    BY <1>5 DEF Surjection
  <1>7. IsFiniteSet(B)
    BY <1>2, <1>6, FS_Surjection
  <1>8. IsFiniteSet(S \cup B)
    BY <1>7, FS_Union
  <1>9. S \cup B \in SUBSET Names
    BY <1>3
  <1> QED
    BY <1>4, <1>8, <1>9 DEF O

\* The outputs of a graph become its bad states.
LEMMA BadGraph ==
    ASSUME NEW a, NEW b, NEW s, NEW t, GraphOK(a), OutputsAreBad(a, b, s, t)
    PROVE  /\ GraphOK(b) /\ b.maxvar = a.maxvar /\ b.inputs = a.inputs /\ b.latches = a.latches
           /\ b.ands = a.ands /\ ToSet(SymbolLits(b)) \subseteq ToSet(SymbolLits(a))
           /\ a.symbols["bad"] = <<>> => ToSet(SymbolLits(b)) = ToSet(SymbolLits(a))
  <1>1. IsGraph(a) /\ IsFiniteSet(a.names) /\ 2 * a.maxvar + 1 < Word
    BY DEF GraphOK
  <1>2. a.symbols \in [ToSet(Kinds) -> Seq(Seq(LitsOf(a)))] /\ a.names \in SUBSET Names
        /\ a = [maxvar |-> a.maxvar, inputs |-> a.inputs, latches |-> a.latches,
                symbols |-> a.symbols, ands |-> a.ands, names |-> a.names]
    BY <1>1, GraphParts
  <1>3. "bad" \in ToSet(Kinds) /\ "output" \in ToSet(Kinds)
    BY KindNames
  <1> DEFINE Q == Seq(Seq(LitsOf(a)))
  <1> HIDE DEF Q
  <1>4. s \in [ToSet(Kinds) -> Q] /\ s["bad"] = a.symbols["output"]
        /\ \A kind \in ToSet(Kinds) : kind # "bad" => s[kind] = a.symbols[kind]
    BY <1>2, <1>3 DEF OutputsAreBad, Q
  <1>5. t \in SUBSET Names /\ IsFiniteSet(t)
    BY <1>1, <1>2, BadNames DEF OutputsAreBad
  <1> DEFINE c == [a EXCEPT !.symbols = s]
  <1>6. IsGraph(c)
    BY <1>1, <1>4, GraphWith DEF Q
  <1>7. b = [maxvar |-> a.maxvar, inputs |-> a.inputs, latches |-> a.latches,
             symbols |-> s, ands |-> a.ands, names |-> t]
    BY <1>2 DEF OutputsAreBad
  <1>8. [c EXCEPT !.names = t] = [maxvar |-> a.maxvar, inputs |-> a.inputs, latches |-> a.latches,
                                  symbols |-> s, ands |-> a.ands, names |-> t]
    <2>1. c = [maxvar |-> a.maxvar, inputs |-> a.inputs, latches |-> a.latches,
               symbols |-> s, ands |-> a.ands, names |-> a.names]
      BY <1>2
    <2> HIDE DEF c
    <2> QED
      BY <2>1
  <1> HIDE DEF c
  <1>9. IsGraph(b)
    BY <1>5, <1>6, <1>7, <1>8, GraphWith
  <1>10. b.maxvar = a.maxvar /\ b.inputs = a.inputs /\ b.latches = a.latches /\ b.ands = a.ands
         /\ b.symbols = s /\ b.names = t
    BY <1>7
  <1>11. GraphOK(b)
    BY <1>1, <1>5, <1>9, <1>10 DEF GraphOK
  <1>12. /\ ToSet(SymbolLits(b)) \subseteq ToSet(SymbolLits(a))
         /\ a.symbols["bad"] = <<>> => ToSet(SymbolLits(b)) = ToSet(SymbolLits(a))
    <2> DEFINE of(g, kind) == UNION {ToSet(g.symbols[kind][k]) : k \in 1..Len(g.symbols[kind])}
    <2>1. ToSet(SymbolLits(a)) = UNION {of(a, kind) : kind \in ToSet(Kinds)}
      BY <1>1, SymbolLitsAre
    <2>2. ToSet(SymbolLits(b)) = UNION {of(b, kind) : kind \in ToSet(Kinds)}
      BY <1>9, SymbolLitsAre
    <2>3. of(b, "bad") = of(a, "output")
      BY <1>4, <1>10
    <2>4. \A kind \in ToSet(Kinds) : kind # "bad" => of(b, kind) = of(a, kind)
      BY <1>4, <1>10
    <2>5. a.symbols["bad"] = <<>> => of(a, "bad") = {}
      OBVIOUS
    <2> HIDE DEF of
    <2> DEFINE all == ToSet(Kinds)
               old == UNION {of(a, kind) : kind \in all}
               now == UNION {of(b, kind) : kind \in all}
    <2>6. now \subseteq old
      BY <1>3, <2>3, <2>4
    <2>7. ASSUME of(a, "bad") = {}, NEW lit \in old PROVE lit \in now
      <3>1. PICK kind \in all : lit \in of(a, kind)
        OBVIOUS
      <3>2. kind # "bad"
        BY <2>7, <3>1
      <3> QED
        BY <2>4, <3>1, <3>2
    <2>8. of(a, "bad") = {} => now = old
      BY <2>6, <2>7
    <2> QED
      BY <2>1, <2>2, <2>5, <2>6, <2>8
  <1> QED
    BY <1>10, <1>11, <1>12

\* What the check has found holds of every graph with the same gates and no other literals.
LEMMA StillChecked ==
    ASSUME CheckedPhase, UNCHANGED <<types, stack>>, GraphOK(aig'),
           aig'.maxvar = aig.maxvar, aig'.inputs = aig.inputs, aig'.latches = aig.latches, aig'.ands = aig.ands,
           ToSet(SymbolLits(aig')) \subseteq ToSet(SymbolLits(aig))
    PROVE  CheckedPhase'
  <1>1. GraphPhase /\ AllDefined /\ Acyclic /\ stack = <<>> /\ \A v \in 0..aig.maxvar : ~types[v].onstack
    BY DEF CheckedPhase
  <1>2. Corresponds(aig', types')
    BY <1>1 DEF GraphPhase, Corresponds, Placed, Leads, Count, Defined
  <1>3. GraphPhase'
    BY <1>2 DEF GraphPhase, GraphOK, Corresponds, Placed, Leads, Count, Defined, IsGraph, LitsOf
  <1>4. AllDefined'
    <2>1. \A lit : LiteralDefined(lit)' <=> LiteralDefined(lit)
      BY DEF LiteralDefined
    <2>2. \A lit \in ToSet(SymbolLits(aig')) : LiteralDefined(lit)
      BY <1>1 DEF AllDefined
    <2>3. /\ \A k \in 1..Len(aig'.latches) : LiteralDefined(aig'.latches[k].next)
          /\ \A k \in 1..Len(aig'.ands) : LiteralDefined(aig'.ands[k].rhs0) /\ LiteralDefined(aig'.ands[k].rhs1)
      BY <1>1 DEF AllDefined
    <2> HIDE DEF LiteralDefined
    <2>4. SymbolLits(aig)' = SymbolLits(aig')
      BY DEF SymbolLits
    <2>5. \A lit \in ToSet(SymbolLits(aig))' : LiteralDefined(lit)'
      BY <2>1, <2>2, <2>4
    <2> QED
      BY <2>1, <2>3, <2>5 DEF AllDefined, LiteralDefined
  <1>5. Acyclic'
    <2>1. GateVars' = GateVars
      BY DEF GateVars
    <2>2. \A v : Fanin(v)' = Fanin(v)
      BY DEF Fanin, Gate
    <2> HIDE DEF GateVars, Fanin
    <2> QED
      BY <1>1, <2>1, <2>2 DEF Acyclic
  <1>6. (stack = <<>> /\ \A v \in 0..aig.maxvar : ~types[v].onstack)'
    BY <1>1
  <1> QED
    BY <1>3, <1>4, <1>5, <1>6 DEF CheckedPhase

\* MoveOutputs.
LEMMA MoveOutputsStep ==
    ASSUME CheckedPhase, MoveOutputs
    PROVE  at' = "reencode" /\ CheckedPhase' /\ given' = aig /\ SameBody(aig, aig')
  <1>1. at' = "reencode" /\ given' = aig /\ UNCHANGED <<types, stack>> /\ GraphOK(aig)
    BY DEF MoveOutputs, Keep, CheckedPhase, GraphPhase
  <1>2. CASE aig.symbols["bad"] # <<>>
    <2>1. aig' = aig
      BY <1>2 DEF MoveOutputs
    <2> QED
      BY <1>1, <2>1, StillChecked DEF SameBody
  <1>3. CASE ~(aig.symbols["bad"] # <<>>)
    <2> DEFINE s == [aig.symbols EXCEPT !["bad"] = aig.symbols["output"]]
               t == aig.names \cup {[n EXCEPT !.kind = "bad"] : n \in {m \in aig.names : m.kind = "output"}}
    <2>1. aig' = [aig EXCEPT !.symbols["bad"] = aig.symbols["output"], !.names = t]
      BY <1>3 DEF MoveOutputs
    <2>2. [aig EXCEPT !.symbols["bad"] = aig.symbols["output"], !.names = t] = [aig EXCEPT !.symbols = s, !.names = t]
      OBVIOUS
    <2>3. OutputsAreBad(aig, aig', s, t)
      BY <2>1, <2>2 DEF OutputsAreBad
    <2> HIDE DEF s, t
    <2>4. /\ GraphOK(aig') /\ aig'.maxvar = aig.maxvar /\ aig'.inputs = aig.inputs /\ aig'.latches = aig.latches
          /\ aig'.ands = aig.ands /\ ToSet(SymbolLits(aig')) = ToSet(SymbolLits(aig))
      BY <1>1, <1>3, <2>3, BadGraph
    <2>5. CheckedPhase'
      BY <1>1, <2>4, StillChecked
    <2> QED
      BY <1>1, <2>4, <2>5 DEF SameBody
  <1> QED
    BY <1>1, <1>2, <1>3

\* PrepareBinary.
LEMMA PrepareBinaryStep ==
    ASSUME CheckedPhase, PrepareBinary
    PROVE  at' = "reencode" /\ CheckedPhase' /\ given' = aig
  <1>1. at' = "reencode" /\ given' = aig /\ UNCHANGED <<aig, types, stack>> /\ GraphOK(aig)
    BY DEF PrepareBinary, Keep, CheckedPhase, GraphPhase
  <1> QED
    BY <1>1, StillChecked

\* The names of a graph as a sequence.
LEMMA NamesInTurn ==
    ASSUME NEW S, IsFiniteSet(S)
    PROVE  SetToSeq(S) \in Seq(S)
  <1> DEFINE n == Cardinality(S)
  <1>1. n \in Nat /\ ExistsBijection(1..n, S)
    BY FS_CardinalityType
  <1> HIDE DEF n
  <1>2. PICK f \in [1..n -> S] : f \in Bijection(1..n, S)
    BY <1>1 DEF ExistsBijection, Bijection, Injection
  <1>3. \A i, j \in 1..n : f[i] = f[j] => i = j
    BY <1>2 DEF Bijection, Injection, IsInjective
  <1>4. DOMAIN f = 1..n
    OBVIOUS
  <1>5. IsInjective(f)
    BY <1>3, <1>4 DEF IsInjective
  <1>6. \E g \in [1..n -> S] : IsInjective(g)
    BY <1>5
  <1>7. (CHOOSE g \in [1..n -> S] : IsInjective(g)) \in [1..n -> S]
    BY <1>6
  <1>8. SetToSeq(S) \in [1..n -> S]
    BY <1>7 DEF SetToSeq, n
  <1> QED
    BY <1>1, <1>8

\* The line of a latch.
LEMMA LatchLineIs ==
    ASSUME NEW latch, latch.lit \in Nat, latch.next \in Nat, latch.reset \in Nat, NEW compact \in BOOLEAN
    PROVE  LET s == LatchLine(latch, compact)  d == IF compact THEN 0 ELSE 1 IN
           /\ s \in Seq(Nat)
           /\ Len(s) = d + 2 => s[d + 2] = latch.reset
           /\ ~compact => s[1] = latch.lit
  <1>1. CASE latch.reset = 0
    BY <1>1 DEF LatchLine
  <1>2. CASE latch.reset # 0
    BY <1>2 DEF LatchLine
  <1> QED
    BY <1>1, <1>2

\* Literals are numbers.
LEMMA NumberSeqs ==
    ASSUME NEW m \in Nat
    PROVE  /\ \A s \in Seq(0..m) : s \in Seq(Nat)
           /\ \A s \in Seq(Seq(0..m)) : s \in Seq(Seq(Nat))
  <1>1. ASSUME NEW s \in Seq(0..m) PROVE s \in Seq(Nat)
    BY StackType
  <1>2. ASSUME NEW s \in Seq(Seq(0..m)) PROVE s \in Seq(Seq(Nat))
    <2> DEFINE A == Seq(0..m)
               B == Seq(Nat)
    <2>1. \A x \in A : x \in B
      BY <1>1
    <2>2. s \in Seq(A)
      OBVIOUS
    <2> HIDE DEF A, B
    <2>3. Len(s) \in Nat /\ s = [k \in 1..Len(s) |-> s[k]] /\ \A k \in 1..Len(s) : s[k] \in A
      BY <2>2
    <2>4. s \in [1..Len(s) -> B]
      BY <2>1, <2>3
    <2>5. s \in Seq(B)
      <3> DEFINE n == Len(s)
      <3>1. n \in Nat /\ s \in [1..n -> B]
        BY <2>3, <2>4
      <3> HIDE DEF n
      <3> QED
        BY <3>1
    <2> QED
      BY <2>5 DEF B
  <1> QED
    BY <1>1, <1>2

\* The lines of the symbols.
LEMMA SymbolLines ==
    ASSUME NEW a, IsGraph(a)
    PROVE  FlattenSeq([n \in 1..Len(Kinds) |-> a.symbols[Kinds[n]]]) \in Seq(Seq(Nat))
  <1> DEFINE s == [n \in 1..Len(Kinds) |-> a.symbols[Kinds[n]]]
             A == Seq(Nat)
  <1>1. Len(Kinds) \in Nat /\ \A n \in 1..Len(Kinds) : Kinds[n] \in ToSet(Kinds)
    BY KindNames
  <1>2. 2 * a.maxvar + 1 \in Nat /\ \A kind \in ToSet(Kinds) : a.symbols[kind] \in Seq(Seq(0..(2 * a.maxvar + 1)))
    BY GraphParts, GraphEntries DEF LitsOf
  <1>3. \A kind \in ToSet(Kinds) : a.symbols[kind] \in Seq(A)
    BY <1>2, NumberSeqs
  <1> HIDE DEF A
  <1>4. \A n \in 1..Len(Kinds) : a.symbols[Kinds[n]] \in Seq(A)
    BY <1>1, <1>3
  <1>5. s \in Seq(Seq(A))
    BY <1>1, <1>4
  <1> HIDE DEF s
  <1>6. FlattenSeq(s) \in Seq(A)
    BY <1>5, Flattened
  <1> QED
    BY <1>6 DEF s, A

\* The lines that both formats have, and those of the latches among them.
LEMMA LinesAre ==
    ASSUME NEW a, IsGraph(a), NEW compact \in BOOLEAN
    PROVE  LET d == IF compact THEN 0 ELSE Len(a.inputs) IN
           /\ Lines(a, compact) \in Seq(Seq(Nat))
           /\ \A k \in 1..Len(a.latches) :
                d + k \in 1..Len(Lines(a, compact)) /\ Lines(a, compact)[d + k] = LatchLine(a.latches[k], compact)
  <1> DEFINE A == Seq(Nat)
             d == IF compact THEN 0 ELSE Len(a.inputs)
             s == IF compact THEN <<>> ELSE [k \in 1..Len(a.inputs) |-> <<a.inputs[k]>>]
             t == [k \in 1..Len(a.latches) |-> LatchLine(a.latches[k], compact)]
             u == FlattenSeq([n \in 1..Len(Kinds) |-> a.symbols[Kinds[n]]])
  <1>1. /\ Len(a.inputs) \in Nat /\ Len(a.latches) \in Nat /\ a.maxvar \in Nat
        /\ \A k \in 1..Len(a.inputs) : a.inputs[k] \in LitsOf(a)
        /\ (\A k \in 1..Len(a.latches) : /\ a.latches[k].lit \in LitsOf(a) /\ a.latches[k].next \in LitsOf(a)
                                       /\ a.latches[k].reset \in 0..(Word - 1))
        /\ Word \in Nat
    BY GraphParts, GraphEntries, WordIs
  <1>2. (\A x \in LitsOf(a) : x \in Nat) /\ \A x \in 0..(Word - 1) : x \in Nat
    BY <1>1 DEF LitsOf
  <1>3. \A k \in 1..Len(a.inputs) : <<a.inputs[k]>> \in A
    BY <1>1, <1>2
  <1>4. \A k \in 1..Len(a.latches) : LatchLine(a.latches[k], compact) \in A
    BY <1>1, <1>2, LatchLineIs
  <1>5. u \in Seq(A)
    BY SymbolLines
  <1> HIDE DEF A, u
  <1>6. s \in Seq(A) /\ Len(s) = d
    <2>1. CASE compact
      BY <2>1
    <2>2. CASE ~compact
      BY <1>1, <1>3, <2>2
    <2> QED
      BY <2>1, <2>2
  <1>7. t \in Seq(A) /\ Len(t) = Len(a.latches) /\ \A k \in 1..Len(a.latches) : t[k] = LatchLine(a.latches[k], compact)
    BY <1>1, <1>4
  <1>8. Lines(a, compact) = s \o t \o u
    BY DEF Lines, u
  <1> HIDE DEF s, t, d
  <1>9. s \o t \o u \in Seq(A)
    BY <1>5, <1>6, <1>7
  <1>10. ASSUME NEW k \in 1..Len(a.latches)
         PROVE  d + k \in 1..Len(s \o t \o u) /\ (s \o t \o u)[d + k] = t[k]
    <2>1. Len(s) \in Nat /\ Len(t) \in Nat /\ Len(u) \in Nat /\ k \in 1..Len(t)
      BY <1>5, <1>6, <1>7
    <2>2. Len(s \o t \o u) = Len(s) + Len(t) + Len(u)
      <3>1. s \o t \in Seq(A) /\ Len(s \o t) = Len(s) + Len(t)
        BY <1>6, <1>7
      <3> QED
        BY <1>5, <3>1
    <2>3. (s \o t \o u)[Len(s) + k] = t[k]
      BY <1>5, <1>6, <1>7, <2>1
    <2> QED
      BY <1>6, <2>1, <2>2, <2>3
  <1> QED
    BY <1>7, <1>8, <1>9, <1>10 DEF A, d

\* The header of a graph.
LEMMA HeaderIs ==
    ASSUME NEW a, IsGraph(a)
    PROVE  HeaderOf(a) \in [ maxvar : Nat, inputs : Nat, latches : Nat, ands : Nat, symbols : [ToSet(Kinds) -> Nat] ]
  <1>1. /\ a.maxvar \in Nat /\ Len(a.inputs) \in Nat /\ Len(a.latches) \in Nat /\ Len(a.ands) \in Nat
        /\ \A kind \in ToSet(Kinds) : Len(a.symbols[kind]) \in Nat
    BY GraphParts, GraphEntries
  <1>2. [k \in ToSet(Kinds) |-> Len(a.symbols[k])] \in [ToSet(Kinds) -> Nat]
    BY <1>1
  <1> QED
    BY <1>1, <1>2 DEF HeaderOf

\* The numbers of the entries.
LEMMA EntryNumbers ==
    ASSUME NEW a, IsGraph(a)
    PROVE  /\ \A k \in 1..Len(a.latches) : a.latches[k].lit \in Nat /\ a.latches[k].next \in Nat /\ a.latches[k].reset \in Nat
           /\ \A k \in 1..Len(a.ands) : a.ands[k].lhs \in Nat /\ a.ands[k].rhs0 \in Nat /\ a.ands[k].rhs1 \in Nat
  <1>1. a.maxvar \in Nat /\ Word \in Nat
    BY GraphParts, WordIs
  <1>2. (\A x \in LitsOf(a) : x \in Nat) /\ \A x \in 0..(Word - 1) : x \in Nat
    BY <1>1 DEF LitsOf
  <1> QED
    BY <1>2, GraphEntries

\* A number within a word is read as it is, and none is read as a larger one.
LEMMA WrappedIs ==
    ASSUME NEW n \in Nat
    PROVE  Wrapped(n) \in Nat /\ Wrapped(n) < Word /\ Wrapped(n) <= n /\ (n < Word => Wrapped(n) = n)
  <1> DEFINE w == Word
  <1>1. w \in Nat \ {0}
    BY WordIs
  <1> HIDE DEF w
  <1>2. n % w \in Nat /\ n % w < w /\ (n < w => n % w = n)
    BY <1>1
  <1>3. n % w <= n
    BY <1>1, <1>2
  <1> QED
    BY <1>2, <1>3 DEF Wrapped, w

\* What is written in ASCII is a file.
LEMMA AsciiFileIsFile ==
    ASSUME NEW a, GraphOK(a)
    PROVE  IsFile(AsciiFile(a))
  <1> DEFINE f == AsciiFile(a)
             ands == [k \in 1..Len(a.ands) |-> <<a.ands[k].lhs, a.ands[k].rhs0, a.ands[k].rhs1>>]
             ls == Lines(a, FALSE)
             A == Seq(Nat)
             I == Len(a.inputs)
  <1>1. IsGraph(a) /\ IsFiniteSet(a.names) /\ 2 * a.maxvar + 1 < Word
    BY DEF GraphOK
  <1>2. /\ f.mode = "ascii" /\ f.cut = FALSE /\ f.codes = <<>> /\ f.header = HeaderOf(a)
        /\ f.lines = ls \o ands /\ f.names = SetToSeq(a.names)
        /\ f.header.maxvar = a.maxvar /\ f.header.inputs = I /\ f.header.latches = Len(a.latches)
    BY DEF AsciiFile, HeaderOf
  <1>3. f.header \in [ maxvar : Nat, inputs : Nat, latches : Nat, ands : Nat, symbols : [ToSet(Kinds) -> Nat] ]
    BY <1>1, <1>2, HeaderIs
  <1>4. f.names \in Seq(Names)
    <2>1. a.names \in SUBSET Names
      BY <1>1, GraphParts
    <2>2. f.names \in Seq(a.names)
      BY <1>1, <1>2, NamesInTurn
    <2> DEFINE X == a.names
               Y == Names
               s == f.names
    <2>3. X \in SUBSET Y /\ s \in Seq(X)
      BY <2>1, <2>2
    <2> HIDE DEF X, Y, s
    <2>4. s \in Seq(Y)
      BY <2>3
    <2> QED
      BY <2>4 DEF s, Y
  <1>5. ls \in Seq(A) /\ \A k \in 1..Len(a.latches) : I + k \in 1..Len(ls) /\ ls[I + k] = LatchLine(a.latches[k], FALSE)
    BY <1>1, LinesAre
  <1>6. /\ I \in Nat /\ Len(a.latches) \in Nat /\ Len(a.ands) \in Nat
        /\ \A k \in 1..Len(a.ands) : a.ands[k].lhs \in Nat /\ a.ands[k].rhs0 \in Nat /\ a.ands[k].rhs1 \in Nat
    BY <1>1, GraphEntries, EntryNumbers
  <1>7. ands \in Seq(A)
    <2>1. \A k \in 1..Len(a.ands) : <<a.ands[k].lhs, a.ands[k].rhs0, a.ands[k].rhs1>> \in A
      BY <1>6
    <2> HIDE DEF A
    <2> QED
      BY <1>6, <2>1
  <1> HIDE DEF ls, ands
  <1>8. f.lines \in Seq(A)
    <2> HIDE DEF A, f
    <2> QED
      BY <1>2, <1>5, <1>7
  <1> HIDE DEF f, I
  <1>10. 2 * Wrapped(f.header.maxvar) + 1 < Word
    <2>1. a.maxvar \in Nat /\ Word \in Nat
      BY <1>1, GraphParts, WordIs
    <2>2. Wrapped(a.maxvar) \in Nat /\ Wrapped(a.maxvar) <= a.maxvar
      BY <2>1, WrappedIs
    <2> QED
      BY <1>1, <1>2, <2>1, <2>2
  <1>11. f.codes \in Seq(A)
    BY <1>2
  <1> HIDE DEF A
  <1>12. IsFile(f)
    BY <1>1, <1>2, <1>3, <1>4, <1>8, <1>10, <1>11 DEF IsFile, A
  <1> QED
    BY <1>12 DEF f

\* What the order of the variables says of the literals.
LEMMA OrderedLits ==
    ASSUME NEW a, GraphOK(a), IsReencoded(a)
    PROVE  LET n == Len(a.inputs) + Len(a.latches) IN
           /\ n \in Nat /\ n + Len(a.ands) < Word
           /\ MaxInputOrLatch(a) = 2 * n
           /\ \A k \in 1..Len(a.latches) : a.latches[k].lit = 2 * (Len(a.inputs) + k)
           /\ \A k \in 1..Len(a.ands) :
                /\ 2 * n + 2 * k - a.ands[k].rhs0 \in Nat
                /\ a.ands[k].rhs0 - a.ands[k].rhs1 \in Nat
  <1> DEFINE I == Len(a.inputs)
             L == Len(a.latches)
             A == Len(a.ands)
             n == I + L
  <1>1. IsGraph(a) /\ 2 * a.maxvar + 1 < Word
    BY DEF GraphOK
  <1>2. /\ I \in Nat /\ L \in Nat /\ A \in Nat /\ a.maxvar \in Nat /\ Word \in Nat
        /\ \A k \in 1..A : a.ands[k].lhs \in LitsOf(a) /\ a.ands[k].rhs0 \in LitsOf(a) /\ a.ands[k].rhs1 \in LitsOf(a)
    BY <1>1, GraphParts, GraphEntries, WordIs
  <1>3. /\ Sources(a) \in Seq(LitsOf(a)) /\ Len(Sources(a)) = n
        /\ \A k \in 1..I : Sources(a)[k] = a.inputs[k]
        /\ \A k \in 1..L : Sources(a)[I + k] = a.latches[k].lit
    BY <1>1, DefinedInTurn
  <1>4. /\ \A k \in 1..n : Sources(a)[k] = 2 * k
        /\ \A k \in 1..A : a.ands[k].lhs = 2 * (n + k) /\ a.ands[k].lhs >= a.ands[k].rhs0 /\ a.ands[k].rhs0 >= a.ands[k].rhs1
    BY DEF IsReencoded
  <1>5. \A x \in LitsOf(a) : x \in Nat /\ x <= 2 * a.maxvar + 1
    BY <1>2 DEF LitsOf
  <1> HIDE DEF I, L, A
  <1>6. n \in Nat
    BY <1>2
  <1>7. n + A <= a.maxvar
    <2> HIDE DEF n
    <2>1. \A x \in Nat : \A y \in Nat : 2 * x <= 2 * y + 1 => x <= y
      OBVIOUS
    <2>2. CASE A # 0
      <3>1. A \in 1..A
        BY <1>2, <2>2
      <3>2. 2 * (n + A) <= 2 * a.maxvar + 1
        BY <1>2, <1>4, <1>5, <3>1
      <3> QED
        BY <1>2, <1>6, <2>1, <3>2
    <2>3. CASE A = 0 /\ n # 0
      <3>1. n \in 1..n
        BY <1>6, <2>3
      <3>2. Sources(a)[n] \in LitsOf(a)
        BY <1>3, <1>6, <3>1, ElementOfSeq
      <3>3. 2 * n <= 2 * a.maxvar + 1
        BY <1>4, <1>5, <3>1, <3>2
      <3> QED
        BY <1>2, <1>6, <2>1, <2>3, <3>3
    <2> QED
      BY <1>2, <1>6, <2>2, <2>3
  <1>8. n + A < Word
    BY <1>1, <1>2, <1>6, <1>7
  <1>9. \A k \in 1..L : a.latches[k].lit = 2 * (I + k)
    <2> SUFFICES ASSUME NEW k \in 1..L PROVE a.latches[k].lit = 2 * (I + k)
      OBVIOUS
    <2>1. I + k \in 1..n
      BY <1>2
    <2> QED
      BY <1>3, <1>4, <2>1
  <1>10. \A k \in 1..I : a.inputs[k] = 2 * k
    <2> SUFFICES ASSUME NEW k \in 1..I PROVE a.inputs[k] = 2 * k
      OBVIOUS
    <2>1. k \in 1..n
      BY <1>2
    <2> QED
      BY <1>3, <1>4, <2>1
  <1>11. MaxInputOrLatch(a) = 2 * n
    <2> DEFINE ins == ToSet(a.inputs)
               lats == ToSet(LatchLits(a))
               S == {0} \cup ins \cup lats
    <2>1. ins = {a.inputs[k] : k \in 1..I} /\ IsFiniteSet(ins)
      BY <1>1, GraphParts, SetOfSeq DEF I
    <2>2. lats = {a.latches[k].lit : k \in 1..L} /\ IsFiniteSet(lats)
      <3>1. LatchLits(a) \in Seq(LitsOf(a)) /\ Len(LatchLits(a)) = L /\ \A k \in 1..L : LatchLits(a)[k] = a.latches[k].lit
        BY <1>1, <1>2, GraphEntries DEF LatchLits, L
      <3>2. lats = {LatchLits(a)[k] : k \in 1..Len(LatchLits(a))} /\ IsFiniteSet(lats)
        BY <3>1, SetOfSeq
      <3> QED
        BY <3>1, <3>2
    <2>3. MaxInputOrLatch(a) = Max(S)
      BY DEF MaxInputOrLatch
    <2> HIDE DEF ins, lats
    <2>4. \A x \in S : x \in Nat /\ x <= 2 * n
      <3>1. \A k \in 1..I : 2 * k \in Nat /\ 2 * k <= 2 * n
        BY <1>2
      <3>2. \A k \in 1..L : 2 * (I + k) \in Nat /\ 2 * (I + k) <= 2 * n
        BY <1>2
      <3>3. 0 \in Nat /\ 0 <= 2 * n
        BY <1>6
      <3> HIDE DEF n
      <3> QED
        BY <1>9, <1>10, <2>1, <2>2, <3>1, <3>2, <3>3
    <2>5. 2 * n \in S
      <3>1. CASE n = 0
        BY <3>1
      <3>2. CASE L # 0
        <4>1. L \in 1..L
          BY <1>2, <3>2
        <4>2. a.latches[L].lit = 2 * n
          BY <1>9, <4>1
        <4> HIDE DEF n
        <4> QED
          BY <2>2, <4>1, <4>2
      <3>3. CASE L = 0 /\ I # 0
        <4>1. I \in 1..I /\ n = I
          BY <1>2, <3>3
        <4>2. a.inputs[I] = 2 * n
          BY <1>10, <4>1
        <4> HIDE DEF n
        <4> QED
          BY <2>1, <4>1, <4>2
      <3> QED
        BY <1>2, <3>1, <3>2, <3>3
    <2>6. IsFiniteSet(S)
      <3>1. IsFiniteSet({0})
        BY FS_Singleton
      <3> QED
        BY <2>1, <2>2, <3>1, FS_Union
    <2> HIDE DEF S, n
    <2>7. Max(S) \in S /\ \A k \in S : k <= Max(S)
      <3>1. S \in SUBSET Nat /\ S # {}
        BY <2>4, <2>5
      <3> QED
        BY <2>6, <3>1, MaxOf
    <2> DEFINE w == 2 * n
               m == Max(S)
    <2>8. m \in Nat /\ w \in Nat /\ m <= w /\ w <= m
      BY <1>6, <2>4, <2>5, <2>7
    <2> HIDE DEF w, m
    <2>9. m = w
      BY <2>8
    <2> QED
      BY <2>3, <2>9 DEF w, m
  <1>12. ASSUME NEW k \in 1..A
         PROVE  2 * n + 2 * k - a.ands[k].rhs0 \in Nat /\ a.ands[k].rhs0 - a.ands[k].rhs1 \in Nat
    <2> HIDE DEF n
    <2>1. a.ands[k].rhs0 \in Nat /\ a.ands[k].rhs1 \in Nat
      BY <1>2, <1>5
    <2>2. a.ands[k].lhs = 2 * (n + k) /\ a.ands[k].lhs >= a.ands[k].rhs0 /\ a.ands[k].rhs0 >= a.ands[k].rhs1
      BY <1>4
    <2>3. \A x \in Nat : \A y \in Nat : \A z \in Nat : \A j \in Nat : 2 * (z + j) >= x /\ x >= y => 2 * z + 2 * j - x \in Nat /\ x - y \in Nat
      OBVIOUS
    <2>4. k \in Nat
      BY <1>2
    <2> QED
      BY <1>6, <2>1, <2>2, <2>3, <2>4
  <1> QED
    BY <1>6, <1>8, <1>9, <1>11, <1>12 DEF I, L, A

\* The binary file, written out.
LEMMA BinaryFileParts ==
    ASSUME NEW a
    PROVE  LET lhs(k) == MaxInputOrLatch(a) + 2 * k
               pairs == [k \in 1..Len(a.ands) |-> <<WriteDelta(lhs(k) - a.ands[k].rhs0),
                                                   WriteDelta(a.ands[k].rhs0 - a.ands[k].rhs1)>>] IN
           BinaryFile(a) = [ mode |-> "binary", header |-> HeaderOf(a), lines |-> Lines(a, TRUE), cut |-> FALSE,
                             codes |-> FlattenSeq(pairs), names |-> SetToSeq(a.names) ]
  BY Zenon DEF BinaryFile

\* What is written in binary can be read: the deltas are no negative numbers.
LEMMA BinaryFileIsFile ==
    ASSUME NEW a, GraphOK(a), IsReencoded(a)
    PROVE  IsFile(BinaryFile(a))
  <1> DEFINE f == BinaryFile(a)
             m == MaxInputOrLatch(a)
             lhs(k) == MaxInputOrLatch(a) + 2 * k
             pair(k) == <<WriteDelta(lhs(k) - a.ands[k].rhs0), WriteDelta(a.ands[k].rhs0 - a.ands[k].rhs1)>>
             pairs == [k \in 1..Len(a.ands) |-> <<WriteDelta(lhs(k) - a.ands[k].rhs0),
                                                 WriteDelta(a.ands[k].rhs0 - a.ands[k].rhs1)>>]
             ls == Lines(a, TRUE)
             A == Seq(Nat)
             I == Len(a.inputs)
             n == I + Len(a.latches)
  <1>1. IsGraph(a) /\ IsFiniteSet(a.names) /\ 2 * a.maxvar + 1 < Word
    BY DEF GraphOK
  <1>2. /\ f.mode = "binary" /\ f.cut = FALSE /\ f.codes = FlattenSeq(pairs) /\ f.header = HeaderOf(a)
        /\ f.lines = ls /\ f.names = SetToSeq(a.names)
        /\ f.header.maxvar = a.maxvar /\ f.header.inputs = I /\ f.header.latches = Len(a.latches)
        /\ f.header.ands = Len(a.ands)
    <2>1. f = [ mode |-> "binary", header |-> HeaderOf(a), lines |-> ls, cut |-> FALSE,
                codes |-> FlattenSeq(pairs), names |-> SetToSeq(a.names) ]
      BY BinaryFileParts
    <2> HIDE DEF f, ls, pairs
    <2> QED
      BY <2>1 DEF HeaderOf
  <1>3. f.header \in [ maxvar : Nat, inputs : Nat, latches : Nat, ands : Nat, symbols : [ToSet(Kinds) -> Nat] ]
    BY <1>1, <1>2, HeaderIs
  <1>4. f.names \in Seq(Names)
    <2>1. a.names \in SUBSET Names
      BY <1>1, GraphParts
    <2>2. f.names \in Seq(a.names)
      BY <1>1, <1>2, NamesInTurn
    <2> DEFINE X == a.names
               Y == Names
               s == f.names
    <2>3. X \in SUBSET Y /\ s \in Seq(X)
      BY <2>1, <2>2
    <2> HIDE DEF X, Y, s
    <2>4. s \in Seq(Y)
      BY <2>3
    <2> QED
      BY <2>4 DEF s, Y
  <1>5. ls \in Seq(A) /\ \A k \in 1..Len(a.latches) : k \in 1..Len(ls) /\ ls[k] = LatchLine(a.latches[k], TRUE)
    <2>1. ls \in Seq(A) /\ \A k \in 1..Len(a.latches) : 0 + k \in 1..Len(ls) /\ ls[0 + k] = LatchLine(a.latches[k], TRUE)
      BY <1>1, LinesAre
    <2>2. Len(a.latches) \in Nat
      BY <1>1, GraphEntries
    <2>3. \A k \in 1..Len(a.latches) : 0 + k = k
      BY <2>2
    <2> QED
      BY <2>1, <2>3
  <1>6. I \in Nat /\ Len(a.latches) \in Nat /\ Len(a.ands) \in Nat
    BY <1>1, GraphEntries
  <1>7. /\ n \in Nat /\ n + Len(a.ands) < Word /\ m = 2 * n
        /\ \A k \in 1..Len(a.latches) : a.latches[k].lit = 2 * (I + k)
        /\ \A k \in 1..Len(a.ands) : 2 * n + 2 * k - a.ands[k].rhs0 \in Nat /\ a.ands[k].rhs0 - a.ands[k].rhs1 \in Nat
    BY OrderedLits
  <1> HIDE DEF m
  <1>8. \A k \in 1..Len(a.ands) : pair(k) \in Seq(A)
    <2> SUFFICES ASSUME NEW k \in 1..Len(a.ands) PROVE pair(k) \in Seq(A)
      OBVIOUS
    <2> HIDE DEF n
    <2> DEFINE d == lhs(k) - a.ands[k].rhs0
               e == a.ands[k].rhs0 - a.ands[k].rhs1
    <2>0. MaxInputOrLatch(a) = 2 * n
      BY <1>7 DEF m
    <2>3. lhs(k) = 2 * n + 2 * k
      BY <2>0
    <2>4. 2 * n + 2 * k - a.ands[k].rhs0 \in Nat /\ e \in Nat
      BY <1>7
    <2>6. a.ands[k].rhs0 \in Nat /\ k \in Nat
      BY <1>1, <1>6, GraphParts, GraphEntries DEF LitsOf
    <2> HIDE DEF lhs
    <2>1. d \in Nat /\ e \in Nat
      <3> DEFINE x == lhs(k)
                 r == a.ands[k].rhs0
      <3>1. x = 2 * n + 2 * k /\ 2 * n + 2 * k - r \in Nat /\ r \in Nat /\ k \in Nat /\ n \in Nat
        BY <1>7, <2>3, <2>4, <2>6
      <3> HIDE DEF x, r
      <3>2. x - r \in Nat
        BY <3>1
      <3> QED
        BY <2>4, <3>2 DEF x, r
    <2> HIDE DEF d, e
    <2>2. WriteDelta(d) \in A /\ WriteDelta(e) \in A
      BY <2>1, WriteDeltaType
    <2> HIDE DEF A
    <2>5. <<WriteDelta(d), WriteDelta(e)>> \in Seq(A)
      BY <2>2
    <2> QED
      BY <2>5 DEF d, e, lhs
  <1>9. f.codes \in Seq(A)
    <2> DEFINE B == Seq(A)
    <2>3. \A k \in 1..Len(a.ands) : pair(k) \in B
      BY <1>8
    <2>4. pairs = [k \in 1..Len(a.ands) |-> pair(k)]
      OBVIOUS
    <2> HIDE DEF A, B, pair, pairs
    <2>5. pairs \in Seq(B)
      BY <1>6, <2>3, <2>4
    <2>1. pairs \in Seq(Seq(A))
      BY <2>5 DEF B
    <2> HIDE DEF pairs
    <2> QED
      BY <1>2, <2>1, Flattened
  <1> HIDE DEF ls, f, n, I, pairs
  <1>10. f.lines \in Seq(A)
    BY <1>2, <1>5
  <1>11. 2 * Wrapped(f.header.maxvar) + 1 < Word
    <2>1. a.maxvar \in Nat /\ Word \in Nat
      BY <1>1, GraphParts, WordIs
    <2>2. Wrapped(a.maxvar) \in Nat /\ Wrapped(a.maxvar) <= a.maxvar
      BY <2>1, WrappedIs
    <2> QED
      BY <1>1, <1>2, <2>1, <2>2
  <1>13. Wrapped(f.header.inputs) + Wrapped(f.header.latches) + Wrapped(f.header.ands) < Word
    <2> DEFINE l == Len(a.latches)
               g == Len(a.ands)
    <2>1. I \in Nat /\ l \in Nat /\ g \in Nat /\ I + l + g < Word /\ Word \in Nat
      BY <1>6, <1>7, WordIs DEF n
    <2> HIDE DEF l, g
    <2>2. /\ Wrapped(I) \in Nat /\ Wrapped(I) <= I /\ Wrapped(l) \in Nat /\ Wrapped(l) <= l
          /\ Wrapped(g) \in Nat /\ Wrapped(g) <= g
      BY <2>1, WrappedIs
    <2>3. Wrapped(I) + Wrapped(l) + Wrapped(g) < Word
      BY <2>1, <2>2
    <2> QED
      BY <1>2, <2>3 DEF l, g
  <1> HIDE DEF A
  <1>14. IsFile(f)
    BY <1>1, <1>2, <1>3, <1>4, <1>9, <1>10, <1>11, <1>13 DEF IsFile, A
  <1> QED
    BY <1>14 DEF f

\* The state the library is in before it reads.
OpenPhase == aig = EmptyGraph /\ types = NoTypes /\ stack = <<>> /\ line = 1

\* WriteAscii.
LEMMA WriteAsciiStep ==
    ASSUME CheckedPhase, WriteAscii
    PROVE  at' = "open" /\ OpenPhase' /\ IsFile(file') /\ given' = aig
  <1>1. GraphOK(aig) /\ stack = <<>>
    BY DEF CheckedPhase, GraphPhase
  <1>2. at' = "open" /\ OpenPhase' /\ given' = aig /\ file' = AsciiFile(aig)
    BY <1>1 DEF WriteAscii, Write, Keep, OpenPhase
  <1> QED
    BY <1>1, <1>2, AsciiFileIsFile

\* WriteBinary.
LEMMA WriteBinaryStep ==
    ASSUME ReencodedPhase, WriteBinary
    PROVE  at' = "open" /\ OpenPhase' /\ IsFile(file') /\ given' = given
  <1>1. GraphOK(aig) /\ IsReencoded(aig) /\ stack = <<>>
    BY DEF ReencodedPhase
  <1>2. at' = "open" /\ OpenPhase' /\ given' = given /\ file' = BinaryFile(aig)
    BY <1>1 DEF WriteBinary, Write, OpenPhase
  <1> QED
    BY <1>1, <1>2, BinaryFileIsFile

(***************************************************************************)
(* The invariant.                                                          *)
(***************************************************************************)
FailedPhase == /\ IsGraph(aig) /\ 0..aig.maxvar \subseteq DOMAIN types
               /\ types \in [DOMAIN types -> Types] /\ stack \in Seq(0..aig.maxvar)
\* Re-encoding has left the arrays of the library.
BeyondPhase == FailedPhase /\ stack = <<>> /\ \E l \in 1..Len(aig.latches) : Var(aig.latches[l].reset) > aig.maxvar
Calls == {"open", "read", "check", "cycles", "checked", "reencode", "recode", "reencoded", "failed", "undefined"}
Phases ==
    /\ at \in Calls
    /\ at = "open" => OpenPhase
    /\ at = "read" => ReadPhase
    /\ at = "check" => CheckStart /\ AcceptedAsAnnounced
    /\ at = "cycles" => CyclePhase
    /\ at \in {"checked", "reencode"} => CheckedPhase
    /\ at = "recode" => RecodePhase
    /\ at = "reencoded" => ReencodedPhase
    /\ at = "failed" => FailedPhase
    /\ at = "undefined" => BeyondPhase
ToolsInv ==
    /\ tool \in Tools /\ pass \in {1, 2} /\ IsGraph(given) /\ IsFile(file)
    /\ root \in Nat /\ line \in Nat
    /\ Phases

\* The phases do not depend on other variables.
LEMMA NothingHappens ==
    ASSUME Phases, UNCHANGED <<aig, types, stack, at, file, line, root, code, new, visit>>
    PROVE  Phases'
  <1>1. CASE at = "open"
    BY <1>1 DEF Phases, OpenPhase
  <1>2. CASE at = "read"
    <2>1. GraphPhase' <=> GraphPhase
      BY DEF GraphPhase
    <2>4. Sections' <=> Sections
      BY DEF Sections, InputsRead, LatchesRead, SymbolsRead, KindsRead, Header
    <2>5. Maximum' <=> Maximum
      BY DEF Maximum, Header
    <2>2. Consecutive' <=> Consecutive
      BY DEF Consecutive, Header, Ascii
    <2>3. ReadPhase'
      BY <1>2, <2>1, <2>2, <2>4, <2>5 DEF ReadPhase, Phases
    <2> QED
      BY <1>2, <2>3 DEF Phases
  <1>3. CASE at = "check"
    <2>1. CheckStart' /\ AcceptedAsAnnounced'
      BY <1>3 DEF Phases, CheckStart, GraphPhase, AcceptedAsAnnounced, Header
    <2> QED
      BY <1>3, <2>1 DEF Phases
  <1>4. ASSUME GraphPhase, AllDefined
        PROVE  /\ GraphPhase' /\ AllDefined' /\ GateVars' = GateVars /\ Reads' = Reads
               /\ Sources(aig)' = Sources(aig) /\ Starts' = Starts /\ (Acyclic => Acyclic')
    <2>1. types \in [0..aig.maxvar -> Types]
      BY <1>4 DEF GraphPhase, Corresponds
    <2>2. GraphPhase' /\ AllDefined' /\ GateVars' = GateVars /\ Reads' = Reads
      BY <1>4, <2>1, MarksOnlySearch
    <2>3. Sources(aig)' = Sources(aig) /\ Starts' = Starts
      BY DEF Sources, Starts, SymbolLits, LatchLits
    <2>4. Acyclic <=> NoCycle(Reads, GateVars)
      BY AcyclicMeans
    <2>5. Acyclic' <=> NoCycle(Reads', GateVars')
      <3>1. Acyclic => Acyclic'
        BY DEF Acyclic, GateVars, Fanin, Gate
      <3>2. Acyclic' => Acyclic
        BY DEF Acyclic, GateVars, Fanin, Gate
      <3> QED
        BY <2>2, <2>4, <3>1, <3>2
    <2> QED
      BY <2>2, <2>3, <2>4, <2>5
  <1>5. CASE at = "cycles"
    <2>1. CyclePhase
      BY <1>5 DEF Phases
    <2>2. GraphPhase' /\ AllDefined' /\ GateVars' = GateVars /\ Reads' = Reads
      BY <1>4, <2>1 DEF CyclePhase
    <2>3. OnPath' = OnPath /\ LeftGates' = LeftGates
      BY <2>2 DEF OnPath, LeftGates
    <2>4. Scanned' /\ PathMarked'
      BY <2>1, <2>2 DEF CyclePhase, Scanned, PathMarked
    <2>5. CyclePhase'
      BY <2>1, <2>2, <2>3, <2>4 DEF CyclePhase
    <2> QED
      BY <1>5, <2>5 DEF Phases
  <1>6. CASE at \in {"checked", "reencode"}
    <2>1. CheckedPhase
      BY <1>6 DEF Phases
    <2>2. CheckedPhase'
      BY <1>4, <2>1 DEF CheckedPhase
    <2> QED
      BY <1>6, <2>2 DEF Phases
  <1>7. CASE at = "recode"
    <2>1. RecodePhase /\ Sound
      BY <1>7 DEF Phases, RecodePhase
    <2>2. /\ Sound' /\ GateVars' = GateVars /\ Reads' = Reads
          /\ Sources(aig)' = Sources(aig) /\ Starts' = Starts
      BY <1>4, <2>1 DEF Sound
    <2>3. OnPath' = OnPath /\ CodedGates' = CodedGates
      BY <2>2 DEF OnPath, CodedGates
    <2>4. StackOfGates' /\ FromStart' /\ StartsDone'
      BY <2>1, <2>2 DEF RecodePhase, StackOfGates, FromStart, StartsDone
    <2>5. \A m : Coded(m)' <=> Coded(m)
      BY <2>2 DEF Coded
    <2>6. RecodePhase'
      BY <2>1, <2>2, <2>3, <2>4, <2>5 DEF RecodePhase
    <2> QED
      BY <1>7, <2>6 DEF Phases
  <1>8. CASE at = "reencoded"
    BY <1>8 DEF Phases, ReencodedPhase, GraphOK, Agree, IsReencoded, Sources, LatchLits
  <1>9. CASE at = "failed"
    BY <1>9 DEF Phases, FailedPhase
  <1>10. CASE at = "undefined"
    BY <1>10 DEF Phases, FailedPhase, BeyondPhase
  <1> QED
    BY <1>1, <1>2, <1>3, <1>5, <1>6, <1>7, <1>8, <1>9, <1>10 DEF Phases, Calls

\* The state of the library before it reads.
LEMMA EmptyIs == IsGraph(EmptyGraph) /\ EmptyGraph.maxvar = 0 /\ NoTypes \in [{0} -> Types] /\ DOMAIN NoTypes = {0}
  <1>1. EmptyGraph.maxvar = 0
    BY DEF EmptyGraph
  <1>2. Untyped \in Types
    BY DEF Untyped, Types
  <1>3. NoTypes \in [{0} -> Types] /\ DOMAIN NoTypes = {0}
    BY <1>2 DEF NoTypes
  <1>4. IsGraph(EmptyGraph)
    <2> DEFINE X == [ToSet(Kinds) -> Seq(Seq(LitsOf(EmptyGraph)))]
               s == [k \in ToSet(Kinds) |-> <<>>]
               I == Seq(LitsOf(EmptyGraph))
               L == Seq([lit : LitsOf(EmptyGraph), next : LitsOf(EmptyGraph), reset : 0..(Word - 1)])
               A == Seq([lhs : LitsOf(EmptyGraph), rhs0 : LitsOf(EmptyGraph), rhs1 : LitsOf(EmptyGraph)])
               N == SUBSET Names
    <2>1. s \in X /\ <<>> \in I /\ <<>> \in L /\ <<>> \in A /\ {} \in N
      OBVIOUS
    <2>2. EmptyGraph = [maxvar |-> 0, inputs |-> <<>>, latches |-> <<>>, ands |-> <<>>, symbols |-> s, names |-> {}]
      BY DEF EmptyGraph
    <2>3. IsGraph(EmptyGraph) <=> EmptyGraph \in [maxvar : Nat, inputs : I, latches : L, symbols : X, ands : A, names : N]
      BY DEF IsGraph
    <2> HIDE DEF X, s, I, L, A, N
    <2>4. EmptyGraph \in [maxvar : Nat, inputs : I, latches : L, symbols : X, ands : A, names : N]
      BY <2>1, <2>2
    <2> QED
      BY <2>3, <2>4
  <1> QED
    BY <1>1, <1>3, <1>4

\* A call may fail in any phase: then the graph has still its type,
LEMMA GraphFails ==
    ASSUME GraphPhase, stack \in Seq(0..aig.maxvar)
    PROVE  FailedPhase
  <1>1. IsGraph(aig) /\ types \in [0..aig.maxvar -> Types]
    BY DEF GraphPhase, GraphOK, Corresponds
  <1>2. DOMAIN types = 0..aig.maxvar
    BY <1>1
  <1> QED
    BY <1>1, <1>2 DEF FailedPhase

\* also when nothing has been read,
LEMMA OpenFails ==
    ASSUME OpenPhase
    PROVE  FailedPhase
  <1>1. IsGraph(aig) /\ aig.maxvar = 0 /\ types \in [{0} -> Types] /\ DOMAIN types = {0} /\ stack = <<>>
    BY EmptyIs DEF OpenPhase
  <1>2. 0..aig.maxvar = {0}
    BY <1>1
  <1> QED
    BY <1>1, <1>2 DEF FailedPhase

\* and keeps it.
LEMMA FailedStays ==
    ASSUME FailedPhase, UNCHANGED <<aig, types>>, stack' = stack \/ stack' = <<>>
    PROVE  FailedPhase'
  <1>1. CASE stack' = stack
    BY <1>1 DEF FailedPhase
  <1>2. CASE stack' = <<>>
    <2>1. stack' \in Seq(0..aig'.maxvar)
      BY <1>2
    <2> QED
      BY <2>1 DEF FailedPhase
  <1> QED
    BY <1>1, <1>2

\* The invariant holds after a step of the reader,
LEMMA ReadingKeeps ==
    ASSUME ToolsInv, Reading
    PROVE  ToolsInv'
  <1>1. /\ tool \in Tools /\ pass \in {1, 2} /\ IsGraph(given) /\ IsFile(file) /\ root \in Nat /\ line \in Nat /\ Phases
        /\ ReadStep /\ UNCHANGED <<searchVars, tool, pass, given>>
    BY DEF ToolsInv, Reading
  <1>2. at \in {"open", "read"} /\ line' \in Nat
    <2>1. at \in {"open", "read"}
      BY <1>1 DEF ReadStep, ReadHeader, ReadInput, ReadLatch, ReadSymbol, ReadAsciiAnd, ReadBinaryAnd, ReadNames
    <2>2. line' \in {1, line, line + 1}
      <3>1. CASE ReadHeader
        BY <3>1 DEF ReadHeader
      <3>2. CASE ReadInput
        BY <3>2 DEF ReadInput
      <3>3. CASE ReadLatch
        BY <3>3 DEF ReadLatch
      <3>4. CASE ReadSymbol
        BY <3>4 DEF ReadSymbol
      <3>5. CASE ReadAsciiAnd
        BY <3>5 DEF ReadAsciiAnd
      <3>6. CASE ReadBinaryAnd
        BY <3>6 DEF ReadBinaryAnd
      <3>7. CASE ReadNames
        BY <3>7 DEF ReadNames
      <3> QED
        BY <1>1, <3>1, <3>2, <3>3, <3>4, <3>5, <3>6, <3>7 DEF ReadStep
    <2> QED
      BY <1>1, <2>1, <2>2
  <1>3. at = "open" => OpenPhase
    BY <1>1 DEF Phases
  <1>4. at = "read" => ReadPhase
    BY <1>1 DEF Phases
  <1>5. /\ file' = file
        /\ \/ Failed
           \/ at' = "read" /\ ReadPhase'
           \/ at' = "check" /\ CheckStart' /\ AcceptedAsAnnounced'
    BY <1>1, <1>3, <1>4, ReadStepKeeps DEF OpenPhase
  <1>6. FailedPhase
    <2>1. CASE at = "open"
      BY <1>3, <2>1, OpenFails
    <2>2. CASE at = "read"
      <3>1. GraphPhase /\ stack \in Seq(0..aig.maxvar)
        BY <1>4, <2>2 DEF ReadPhase
      <3> QED
        BY <3>1, GraphFails
    <2> QED
      BY <1>2, <2>1, <2>2
  <1>7. Phases'
    <2>1. CASE Failed
      <3>1. at' = "failed" /\ FailedPhase'
        BY <1>6, <2>1, FailedStays DEF Failed
      <3> QED
        BY <3>1 DEF Phases, Calls
    <2>2. CASE at' = "read" /\ ReadPhase'
      BY <2>2 DEF Phases, Calls
    <2>3. CASE at' = "check" /\ CheckStart' /\ AcceptedAsAnnounced'
      BY <2>3 DEF Phases, Calls
    <2> QED
      BY <1>5, <2>1, <2>2, <2>3
  <1>8. IsFile(file)' /\ IsGraph(given)' /\ tool' \in Tools /\ pass' \in {1, 2} /\ root' \in Nat
    BY <1>1, <1>5 DEF searchVars
  <1> QED
    BY <1>2, <1>7, <1>8 DEF ToolsInv

\* of the check, which gives the right verdict,
LEMMA CheckingKeeps ==
    ASSUME ToolsInv, Checking
    PROVE  ToolsInv' /\ Verdict
  <1>1. /\ tool \in Tools /\ pass \in {1, 2} /\ IsGraph(given) /\ IsFile(file) /\ root \in Nat /\ line \in Nat /\ Phases
        /\ CheckStep /\ UNCHANGED <<file, line, code, new, visit, tool, pass, given>>
    BY DEF ToolsInv, Checking
  <1>2. root' \in Nat
    <2>1. root' \in {0, root, root + 1}
      BY <1>1 DEF CheckStep, CheckDefined, NextRoot, CycleFound, PopVisited, Enter, Leave, CheckPassed
    <2> QED
      BY <1>1, <2>1
  <1>3. Phases' /\ Verdict
    <2>1. CASE CheckDefined
      <3>1. at = "check" /\ UNCHANGED <<aig, types, stack>>
        BY <2>1 DEF CheckDefined
      <3>2. CheckStart
        BY <1>1, <3>1 DEF Phases
      <3>3. Verdict /\ (at' = "failed" \/ (at' = "cycles" /\ CyclePhase'))
        BY <2>1, <3>2, CheckDefinedStep
      <3>4. FailedPhase
        <4>1. GraphPhase /\ stack \in Seq(0..aig.maxvar)
          BY <3>2 DEF CheckStart
        <4> QED
          BY <4>1, GraphFails
      <3>5. FailedPhase'
        BY <3>1, <3>4, FailedStays
      <3> QED
        BY <3>3, <3>5 DEF Phases, Calls
    <2>2. CASE ~CheckDefined
      <3>1. at = "cycles"
        BY <1>1, <2>2 DEF CheckStep, NextRoot, CycleFound, PopVisited, Enter, Leave, CheckPassed, Searching
      <3>2. CyclePhase
        BY <1>1, <3>1 DEF Phases
      <3>3. CASE CycleFound
        <4>1. GraphPhase /\ stack \in Seq(0..aig.maxvar)
          BY <3>2 DEF CyclePhase
        <4>2. FailedPhase'
          BY <3>3, <4>1, GraphFails, FailedStays DEF CycleFound
        <4> QED
          BY <3>2, <3>3, <4>2, CycleFoundStep DEF Phases, Calls
      <3>4. CASE CheckPassed
        <4>1. Verdict /\ at' = "checked" /\ CheckedPhase'
          BY <3>2, <3>4, CheckPassedStep
        <4> QED
          BY <4>1 DEF Phases, Calls
      <3>5. CASE NextRoot \/ PopVisited \/ Enter \/ Leave
        <4>1. Verdict /\ at' = "cycles" /\ CyclePhase'
          BY <3>2, <3>5, NextRootStep, PopVisitedStep, EnterStep, LeaveStep
        <4> QED
          BY <4>1 DEF Phases, Calls
      <3> QED
        BY <1>1, <2>2, <3>3, <3>4, <3>5 DEF CheckStep
    <2> QED
      BY <2>1, <2>2
  <1>4. IsFile(file)' /\ IsGraph(given)' /\ tool' \in Tools /\ pass' \in {1, 2} /\ line' \in Nat
    BY <1>1
  <1> QED
    BY <1>2, <1>3, <1>4 DEF ToolsInv

\* A re-encoded graph that is not touched.
LEMMA ReencodedStays ==
    ASSUME ReencodedPhase, UNCHANGED <<aig, types, stack>>
    PROVE  ReencodedPhase'
  BY DEF ReencodedPhase, GraphOK, Agree, IsReencoded, Sources, LatchLits

\* of the re-encoding,
LEMMA RecodingKeeps ==
    ASSUME ToolsInv, Recoded
    PROVE  ToolsInv'
  <1>1. /\ tool \in Tools /\ pass \in {1, 2} /\ IsGraph(given) /\ IsFile(file) /\ root \in Nat /\ line \in Nat /\ Phases
        /\ ReencodeStep /\ UNCHANGED <<file, line, root, tool, pass, given>>
    BY DEF ToolsInv, Recoded
  <1>2. Phases'
    <2>1. CASE StartReencode
      <3>1. CheckedPhase
        BY <1>1, <2>1 DEF StartReencode, Phases
      <3>2. GraphPhase /\ Sound /\ stack = <<>> /\ \A v \in 0..aig.maxvar : ~types[v].onstack
        BY <3>1 DEF CheckedPhase, Sound
      <3>3. /\ UNCHANGED <<aig, types, stack>>
            /\ \/ at' = "reencoded" /\ IsReencoded(aig)
               \/ at' = "recode" /\ RecodePhase'
        BY <2>1, <3>2, StartReencodeStep
      <3>4. CASE at' = "reencoded" /\ IsReencoded(aig)
        <4>1. ReencodedPhase'
          BY <3>2, <3>3, <3>4, AlreadyReencoded, ReencodedStays
        <4> QED
          BY <3>4, <4>1 DEF Phases, Calls
      <3>5. CASE at' = "recode" /\ RecodePhase'
        BY <3>5 DEF Phases, Calls
      <3> QED
        BY <3>3, <3>4, <3>5
    <2>2. CASE ~StartReencode
      <3>1. at = "recode"
        BY <1>1, <2>2 DEF ReencodeStep, NextStart, PopCoded, Expand, Number, Rebuild, Recoding
      <3>2. RecodePhase
        BY <1>1, <3>1 DEF Phases
      <3>3. CASE Rebuild
        <4>1. at' = "reencoded" /\ ReencodedPhase'
          BY <3>2, <3>3, RebuildStep
        <4> QED
          BY <4>1 DEF Phases, Calls
      <3> DEFINE beyond == ~(Var(Starts[visit + 1]) <= aig.maxvar)
      <3>4. CASE (NextStart /\ ~beyond) \/ PopCoded \/ Expand \/ Number
        <4>1. at' = "recode" /\ RecodePhase'
          BY <3>1, <3>2, <3>4, NextStartStep, PopCodedStep, ExpandStep, NumberStep
        <4> QED
          BY <4>1 DEF Phases, Calls
      <3>5. CASE NextStart /\ beyond
        <4>1. /\ at' = "undefined" /\ UNCHANGED <<aig, types>> /\ stack' = <<>> /\ Sound
              /\ \E l \in 1..Len(aig.latches) : Var(aig.latches[l].reset) > aig.maxvar
          BY <3>2, <3>5, StartBeyond
        <4>2. GraphPhase /\ stack = <<>>
          BY <3>5, <4>1 DEF Sound, NextStart
        <4>3. FailedPhase
          <5>1. stack \in Seq(0..aig.maxvar)
            BY <4>2
          <5> QED
            BY <4>2, <5>1, GraphFails
        <4>4. FailedPhase'
          BY <4>1, <4>3, FailedStays
        <4>5. BeyondPhase'
          BY <4>1, <4>4 DEF BeyondPhase
        <4> QED
          BY <4>1, <4>5 DEF Phases, Calls
      <3> QED
        BY <1>1, <2>2, <3>3, <3>4, <3>5 DEF ReencodeStep
    <2> QED
      BY <2>1, <2>2
  <1>3. IsFile(file)' /\ IsGraph(given)' /\ tool' \in Tools /\ pass' \in {1, 2} /\ line' \in Nat /\ root' \in Nat
    BY <1>1
  <1> QED
    BY <1>2, <1>3 DEF ToolsInv

\* when the graph is handed on to it,
LEMMA HandingOnKeeps ==
    ASSUME ToolsInv, MoveOutputs \/ PrepareBinary
    PROVE  ToolsInv'
  <1>1. /\ tool \in Tools /\ pass \in {1, 2} /\ IsGraph(given) /\ IsFile(file) /\ root \in Nat /\ line \in Nat /\ Phases
    BY DEF ToolsInv
  <1>2. at = "checked" /\ UNCHANGED <<file, line, root, tool, pass>>
    BY DEF MoveOutputs, PrepareBinary, Keep, searchVars
  <1>3. CheckedPhase
    BY <1>1, <1>2 DEF Phases
  <1>4. at' = "reencode" /\ CheckedPhase' /\ given' = aig
    BY <1>3, MoveOutputsStep, PrepareBinaryStep
  <1>5. IsGraph(aig)
    BY <1>3 DEF CheckedPhase, GraphPhase, GraphOK
  <1>6. Phases'
    BY <1>4 DEF Phases, Calls
  <1>7. IsFile(file)' /\ IsGraph(given)' /\ tool' \in Tools /\ pass' \in {1, 2} /\ line' \in Nat /\ root' \in Nat
    BY <1>1, <1>2, <1>4, <1>5
  <1> QED
    BY <1>6, <1>7 DEF ToolsInv

\* and when it has been written.
LEMMA WritingKeeps ==
    ASSUME ToolsInv, WriteAscii \/ WriteBinary
    PROVE  ToolsInv'
  <1>1. /\ tool \in Tools /\ pass \in {1, 2} /\ IsGraph(given) /\ IsFile(file) /\ root \in Nat /\ line \in Nat /\ Phases
    BY DEF ToolsInv
  <1>2. pass' = 2 /\ tool' = tool /\ root' = root /\ line' = 1
    BY DEF WriteAscii, WriteBinary, Write, searchVars
  <1>3. at' = "open" /\ OpenPhase' /\ IsFile(file') /\ IsGraph(given')
    <2>1. CASE WriteAscii
      <3>1. CheckedPhase
        BY <1>1, <2>1 DEF WriteAscii, Keep, Phases
      <3>2. IsGraph(aig)
        BY <3>1 DEF CheckedPhase, GraphPhase, GraphOK
      <3> QED
        BY <2>1, <3>1, <3>2, WriteAsciiStep
    <2>2. CASE WriteBinary
      <3>1. ReencodedPhase
        BY <1>1, <2>2 DEF WriteBinary, Phases
      <3> QED
        BY <1>1, <2>2, <3>1, WriteBinaryStep
    <2> QED
      BY <2>1, <2>2
  <1>4. Phases'
    BY <1>3 DEF Phases, Calls
  <1> QED
    BY <1>1, <1>2, <1>3, <1>4 DEF ToolsInv

\* It holds initially.
LEMMA InitHolds ==
    ASSUME ToolsInit
    PROVE  ToolsInv
  <1>1. IsFile(file) /\ tool \in Tools
    BY FilesAssumption DEF ToolsInit
  <1>2. IsGraph(given)
    BY EmptyIs DEF ToolsInit
  <1>3. OpenPhase /\ at = "open"
    BY DEF ToolsInit, OpenPhase
  <1>4. Phases
    BY <1>3 DEF Phases, Calls
  <1> QED
    BY <1>1, <1>2, <1>4 DEF ToolsInit, ToolsInv

\* It is inductive.
LEMMA StepKeeps ==
    ASSUME ToolsInv, [ToolsNext]_toolVars
    PROVE  ToolsInv'
  <1>1. CASE UNCHANGED toolVars
    <2>1. UNCHANGED <<aig, types, stack, at, file, line, root, code, new, visit>> /\ UNCHANGED <<tool, pass, given>>
      BY <1>1 DEF toolVars, graphVars, searchVars
    <2>2. Phases'
      BY <2>1, NothingHappens DEF ToolsInv
    <2> QED
      BY <2>1, <2>2 DEF ToolsInv
  <1>2. CASE ToolStep
    BY <1>2, ReadingKeeps, CheckingKeeps, RecodingKeeps, HandingOnKeeps, WritingKeeps DEF ToolStep
  <1> QED
    BY <1>1, <1>2 DEF ToolsNext

\* The invariant of every program on the library, phase by phase.
THEOREM ToolsInvHolds == ToolsSpec => []ToolsInv
  BY InitHolds, StepKeeps, PTL DEF ToolsSpec

\* It implies that types agrees with the graph,
LEMMA InvAgrees ==
    ASSUME ToolsInv
    PROVE  TypesAgree
  <1>1. Phases
    BY DEF ToolsInv
  <1>2. CASE at = "open"
    <2>1. aig.maxvar = 0
      BY <1>1, <1>2, EmptyIs DEF Phases, OpenPhase
    <2>2. Agree(aig, types)
      BY <2>1 DEF Agree
    <2> QED
      BY <2>2, AgreeMeans
  <1>3. CASE at \in {"read", "check", "cycles", "checked", "reencode"}
    <2>1. GraphPhase
      BY <1>1, <1>3 DEF Phases, ReadPhase, CheckStart, CyclePhase, CheckedPhase
    <2>2. Agree(aig, types)
      BY <2>1, CorrespondsAgree DEF GraphPhase, GraphOK
    <2> QED
      BY <2>2, AgreeMeans
  <1>4. CASE at = "reencoded"
    BY <1>1, <1>4, AgreeMeans DEF Phases, ReencodedPhase
  <1>5. CASE at \in {"failed", "recode", "undefined"}
    BY <1>5 DEF TypesAgree
  <1> QED
    BY <1>1, <1>2, <1>3, <1>4, <1>5 DEF Phases, Calls

\* types[v].idx leads to the entry that defines v, for every file and between any
\* two calls, also after Rebuild has sorted the ands (aiger.c, aiger_reencode).
THEOREM TypesAlwaysAgree == ToolsSpec => []TypesAgree
  BY ToolsInvHolds, InvAgrees, PTL

\* that codes are literals of the graph,
LEMMA CodesTyped ==
    ASSUME RecodePhase
    PROVE  code \in [0..aig.maxvar -> LitsOf(aig)] /\ new \in 2..(2 * aig.maxvar + 2)
  <1>1. PICK m \in Nat : Coded(m)
    BY DEF RecodePhase
  <1>2. Sound /\ aig.maxvar \in Nat
    BY GraphParts DEF RecodePhase, Sound, GraphPhase, GraphOK
  <1>3. m <= aig.maxvar /\ \A v \in 0..aig.maxvar : code[v] \in Nat /\ code[v] <= 2 * m
    BY <1>1, <1>2, RecodedLits
  <1>4. new = 2 * m + 2 /\ code \in [0..aig.maxvar -> Nat]
    BY <1>1 DEF Coded, Numbering
  <1>5. \A v \in 0..aig.maxvar : code[v] \in LitsOf(aig)
    BY <1>2, <1>3 DEF LitsOf
  <1>6. code \in [0..aig.maxvar -> LitsOf(aig)]
    <2> HIDE DEF LitsOf
    <2> QED
      BY <1>4, <1>5
  <1>7. new \in 2..(2 * aig.maxvar + 2)
    BY <1>2, <1>3, <1>4
  <1> QED
    BY <1>6, <1>7

\* and that everything has its type.
LEMMA InvTyped ==
    ASSUME ToolsInv
    PROVE  ToolsTypeOK
  <1>1. Phases /\ IsGraph(given) /\ root \in Nat /\ line \in Nat /\ tool \in Tools /\ pass \in {1, 2}
    BY DEF ToolsInv
  <1>2. at = "recode" => code \in [0..aig.maxvar -> LitsOf(aig)] /\ new \in 2..(2 * aig.maxvar + 2)
    BY <1>1, CodesTyped DEF Phases
  <1>3. FailedPhase
    <2>1. CASE at = "open"
      BY <1>1, <2>1, OpenFails DEF Phases
    <2>2. CASE at \in {"read", "check", "cycles", "checked", "reencode", "recode"}
      <3>1. GraphPhase /\ stack \in Seq(0..aig.maxvar)
        <4>1. CASE at = "read"
          BY <1>1, <4>1 DEF Phases, ReadPhase
        <4>2. CASE at = "check"
          BY <1>1, <4>2 DEF Phases, CheckStart
        <4>3. CASE at = "cycles"
          BY <1>1, <4>3 DEF Phases, CyclePhase
        <4>4. CASE at \in {"checked", "reencode"}
          <5>1. CheckedPhase
            BY <1>1, <4>4 DEF Phases
          <5> QED
            BY <5>1 DEF CheckedPhase
        <4>5. CASE at = "recode"
          BY <1>1, <4>5 DEF Phases, RecodePhase, Sound
        <4> QED
          BY <2>2, <4>1, <4>2, <4>3, <4>4, <4>5
      <3> QED
        BY <3>1, GraphFails
    <2>3. CASE at = "reencoded"
      <3>1. ReencodedPhase
        BY <1>1, <2>3 DEF Phases
      <3> QED
        BY <3>1 DEF ReencodedPhase, GraphOK, FailedPhase
    <2>4. CASE at \in {"failed", "undefined"}
      BY <1>1, <2>4 DEF Phases, BeyondPhase
    <2> QED
      BY <1>1, <2>1, <2>2, <2>3, <2>4 DEF Phases, Calls
  <1>4. ASSUME at = "undefined" PROVE \E l \in ToSet(aig.latches) : Var(l.reset) > aig.maxvar
    <2>1. PICK l \in 1..Len(aig.latches) : Var(aig.latches[l].reset) > aig.maxvar
      BY <1>1, <1>4 DEF Phases, BeyondPhase
    <2>2. aig.latches[l] \in ToSet(aig.latches)
      BY <2>1 DEF ToSet
    <2> QED
      BY <2>1, <2>2
  <1> QED
    BY <1>1, <1>2, <1>3, <1>4 DEF ToolsTypeOK, FailedPhase

\* Whatever the file, every variable of the library has its type in every
\* reachable state: no lookup in types, code or the arrays leaves them, but that
\* of a reset value beyond the literals of the graph while it is re-encoded
\* (aiger.c:1377), behind which nothing more is said.
THEOREM ToolsTyped == ToolsSpec => []ToolsTypeOK
  BY ToolsInvHolds, InvTyped, PTL

\* A graph that aiger_read_generic accepts has the entries that its header
\* announces, all numbers taken modulo 2^32 as aiger_read_number does, and no
\* variable is defined twice or beyond the maximum.
THEOREM AcceptedGraphsAreAnnounced == ToolsSpec => []AcceptedAsAnnounced
  <1>1. ToolsInv => AcceptedAsAnnounced
    <2>1. CASE at = "check"
      BY <2>1 DEF ToolsInv, Phases
    <2>2. CASE at # "check"
      BY <2>2 DEF AcceptedAsAnnounced
    <2> QED
      BY <2>1, <2>2
  <1> QED
    BY <1>1, ToolsInvHolds, PTL

\* aiger_check fails exactly if a used literal is undefined or the ands depend on
\* each other in a cycle, for every graph that the reader accepts.
THEOREM VerdictIsRight == ToolsSpec => CheckVerdict
  <1>1. ToolsInv /\ [ToolsNext]_toolVars => [(at \in {"check", "cycles"}) => Verdict]_toolVars
    <2> SUFFICES ASSUME ToolsInv, ToolsNext, at \in {"check", "cycles"}, ~UNCHANGED toolVars
                 PROVE  Verdict
      OBVIOUS
    <2>1. Checking
      BY DEF ToolsNext, ToolStep, Stopped, Reading, ReadStep, ReadHeader, ReadInput, ReadLatch, ReadSymbol,
             ReadAsciiAnd, ReadBinaryAnd, ReadNames, Recoded, ReencodeStep, StartReencode, NextStart, PopCoded,
             Recoding, Expand, Number, Rebuild, MoveOutputs, PrepareBinary, WriteAscii, WriteBinary, Keep
    <2> QED
      BY <2>1, CheckingKeeps
  <1> QED
    BY <1>1, ToolsInvHolds, PTL DEF ToolsSpec, CheckVerdict

(***************************************************************************)
(* The form that re-encoding leaves: the gates of the cones, and no        *)
(* others.                                                                 *)
(***************************************************************************)
\* The variables that latches and symbols read.
Targets(a) == (UNION {{Var(l.next), Var(l.reset)} : l \in ToSet(a.latches)})
                \cup {Var(lit) : lit \in ToSet(SymbolLits(a))}
\* A set that holds the gates among them, and with a gate those it reads.
HoldsCones(K) ==
    /\ K \in SUBSET GateVars
    /\ Targets(aig) \cap GateVars \subseteq K
    /\ \A v \in K : Reads[v] \cap GateVars \subseteq K
\* The search stays within the cones.
WithinCones ==
    \A K : HoldsCones(K) => /\ CodedGates \subseteq K
                            /\ \A i \in 1..Len(stack) : stack[i] # 0 => stack[i] \in K

\* A gate the search starts from is read by a latch or a symbol.
LEMMA StartsAreTargets ==
    ASSUME Sound, NEW k \in 1..Len(Starts), Var(Starts[k]) \in GateVars
    PROVE  Var(Starts[k]) \in Targets(aig)
  <1>1. IsGraph(aig)
    BY DEF Sound, GraphPhase, GraphOK
  <1>2. \/ Starts[k] \in ToSet(SymbolLits(aig))
        \/ \E l \in 1..Len(aig.latches) : Starts[k] = aig.latches[l].next \/ Starts[k] = aig.latches[l].reset
    BY StartsAre
  <1>3. CASE Starts[k] \in ToSet(SymbolLits(aig))
    <2>1. Var(Starts[k]) \in {Var(lit) : lit \in ToSet(SymbolLits(aig))}
      BY <1>3
    <2> QED
      BY <2>1 DEF Targets
  <1>4. ASSUME NEW l \in 1..Len(aig.latches),
               Starts[k] = aig.latches[l].next \/ Starts[k] = aig.latches[l].reset
        PROVE  Var(Starts[k]) \in Targets(aig)
    <2>1. aig.latches[l] \in ToSet(aig.latches)
      <3>1. ToSet(aig.latches) = {aig.latches[i] : i \in 1..Len(aig.latches)}
        BY <1>1, GraphParts, SetOfSeq
      <3> QED
        BY <3>1
    <2>2. Var(Starts[k]) \in {Var(aig.latches[l].next), Var(aig.latches[l].reset)}
      BY <1>4
    <2> QED
      BY <2>1, <2>2 DEF Targets
  <1> QED
    BY <1>2, <1>3, <1>4

\* A step that stacks only starts and what stacked gates read, and codes only stacked gates, stays in the cones.
LEMMA ConesKept ==
    ASSUME Sound, Finds, WithinCones, UNCHANGED aig
    PROVE  WithinCones'
  <1>1. GateVars' = GateVars /\ Reads' = Reads
    BY DEF Finds
  <1> SUFFICES ASSUME NEW K, HoldsCones(K)
               PROVE  /\ CodedGates' \subseteq K
                      /\ \A i \in 1..Len(stack') : stack'[i] # 0 => stack'[i] \in K
    BY <1>1 DEF WithinCones, HoldsCones
  <1>2. /\ K \in SUBSET GateVars /\ Targets(aig) \cap GateVars \subseteq K
        /\ (\A v \in K : Reads[v] \cap GateVars \subseteq K)
        /\ CodedGates \subseteq K /\ \A i \in 1..Len(stack) : stack[i] # 0 => stack[i] \in K
    BY DEF HoldsCones, WithinCones
  <1>3. 0 \notin GateVars
    BY GatesAre DEF Sound
  <1>4. \A v \in CodedGates' : v \in K
    <2>1. \A v \in CodedGates' : v \in CodedGates \/ (v \in GateVars /\ \E j \in 1..Len(stack) : v = stack[j])
      BY DEF Finds
    <2> QED
      BY <1>2, <1>3, <2>1
  <1>5. ASSUME NEW i \in 1..Len(stack'), stack'[i] # 0 PROVE stack'[i] \in K
    <2>1. \/ \E j \in 1..Len(stack) : stack'[i] = stack[j]
          \/ \E j \in 1..Len(stack) : stack[j] \in GateVars /\ stack'[i] \in Reads[stack[j]] \cap GateVars
          \/ stack'[i] \in GateVars /\ \E k \in 1..Len(Starts) : stack'[i] = Var(Starts[k])
      BY <1>5 DEF Finds
    <2>2. ASSUME NEW j \in 1..Len(stack), stack'[i] = stack[j] PROVE stack'[i] \in K
      BY <1>2, <1>5, <2>2
    <2>3. ASSUME NEW j \in 1..Len(stack), stack[j] \in GateVars, stack'[i] \in Reads[stack[j]] \cap GateVars
          PROVE  stack'[i] \in K
      <3>1. stack[j] \in K
        BY <1>2, <1>3, <2>3
      <3> QED
        BY <1>2, <2>3, <3>1
    <2>4. ASSUME NEW k \in 1..Len(Starts), stack'[i] = Var(Starts[k]), stack'[i] \in GateVars
          PROVE  stack'[i] \in K
      <3>1. Var(Starts[k]) \in Targets(aig)
        BY <2>4, StartsAreTargets
      <3> QED
        BY <1>2, <2>4, <3>1
    <2> QED
      BY <2>1, <2>2, <2>3, <2>4
  <1> QED
    BY <1>4, <1>5

\* The steps of the numbering keep to the cones.
LEMMA NumberingWithinCones ==
    ASSUME RecodePhase, WithinCones,
           \/ NextStart /\ Var(Starts[visit + 1]) <= aig.maxvar
           \/ PopCoded \/ Expand \/ Number
    PROVE  WithinCones' /\ UNCHANGED aig /\ at' = at
  <1>1. Sound
    BY DEF RecodePhase
  <1>2. Finds /\ UNCHANGED aig /\ at' = at
    BY NextStartStep, PopCodedStep, ExpandStep, NumberStep
  <1> QED
    BY <1>1, <1>2, ConesKept

\* What gates read whose variables are in S.
ReadBy(gates, S) == {Var(g.rhs0) : g \in {h \in gates : Var(h.lhs) \in S}}
                      \cup {Var(g.rhs1) : g \in {h \in gates : Var(h.lhs) \in S}}
\* h[n] is what can be reached from the targets in n steps.
Reaches(a, h) ==
    /\ h[0] = Targets(a)
    /\ \A n \in 1..Len(a.ands) : h[n] = h[n - 1] \cup ReadBy(ToSet(a.ands), h[n - 1])

\* The recursion of Cones has a solution, and its value is one.
LEMMA ConesAre ==
    ASSUME NEW a, Len(a.ands) \in Nat
    PROVE  \E h : /\ Reaches(a, h)
                  /\ Cones(a) = {g \in ToSet(a.ands) : Var(g.lhs) \in h[Len(a.ands)]}
  <1> DEFINE gates == ToSet(a.ands)
             N == Len(a.ands)
             start == Targets(a)
             reads(S) == {Var(g.rhs0) : g \in {h \in gates : Var(h.lhs) \in S}}
                           \cup {Var(g.rhs1) : g \in {h \in gates : Var(h.lhs) \in S}}
             Body(f, n) == IF n = 0 THEN start ELSE f[n - 1] \cup reads(f[n - 1])
             reach == CHOOSE f : f = [n \in 0..N |-> Body(f, n)]
             D == start \cup {Var(g.rhs0) : g \in gates} \cup {Var(g.rhs1) : g \in gates}
             A == SUBSET D
             op == [e \in (0..N) \X A |-> e[2] \cup reads(e[2])]
  <1>1. Cones(a) = {g \in gates : Var(g.lhs) \in reach[N]}
    BY DEF Cones, Targets
  <1>2. \A S : reads(S) = ReadBy(gates, S)
    BY DEF ReadBy
  <1>3. start \in A /\ \A S \in A : S \cup reads(S) \in A
    OBVIOUS
  <1> HIDE DEF reads, D, gates, start, N
  <1>4. op \in [(0..N) \X A -> A] /\ \A n \in 0..N : \A S \in A : op[<<n, S>>] = S \cup reads(S)
    BY <1>3
  <1> HIDE DEF op, A
  <1>5. N \in Nat
    BY DEF N
  <1>6. PICK h \in [0..N -> A] : Counts(h, N, start, op)
    BY <1>3, <1>4, <1>5, CountingRecursion
  <1>7. h = [n \in 0..N |-> Body(h, n)]
    <2>1. ASSUME NEW n \in 0..N PROVE h[n] = Body(h, n)
      <3>1. CASE n = 0
        BY <1>6, <3>1 DEF Counts
      <3>2. CASE n # 0
        <4>1. n \in 1..N /\ n - 1 \in 0..N
          BY <1>5, <3>2
        <4>2. h[n - 1] \in A
          BY <1>6, <4>1
        <4>3. h[n] = op[<<n, h[n - 1]>>]
          BY <1>6, <4>1 DEF Counts
        <4>4. h[n] = h[n - 1] \cup reads(h[n - 1])
          BY <1>4, <4>2, <4>3
        <4> QED
          BY <3>2, <4>4
      <3> QED
        BY <3>1, <3>2
    <2> HIDE DEF Body
    <2> QED
      BY <1>6, <2>1
  <1>8. reach = [n \in 0..N |-> Body(reach, n)]
    <2> HIDE DEF Body
    <2> QED
      BY <1>7
  <1> HIDE DEF reach
  <1>9. \A n \in 0..N : reach[n] = Body(reach, n)
    BY <1>8
  <1>10. reach[0] = start
    <2>1. 0 \in 0..N
      BY <1>5
    <2>2. reach[0] = Body(reach, 0)
      BY <1>9, <2>1
    <2>3. Body(reach, 0) = start
      OBVIOUS
    <2> QED
      BY <2>2, <2>3
  <1>11. \A n \in 1..N : reach[n] = reach[n - 1] \cup reads(reach[n - 1])
    <2> SUFFICES ASSUME NEW n \in 1..N PROVE reach[n] = reach[n - 1] \cup reads(reach[n - 1])
      OBVIOUS
    <2>1. n \in 0..N /\ n # 0
      BY <1>5
    <2> QED
      BY <1>9, <2>1
  <1>12. Reaches(a, reach)
    BY <1>2, <1>10, <1>11 DEF Reaches, gates, start, N
  <1> QED
    BY <1>1, <1>12 DEF gates, N

\* The form and the cones depend on the inputs, latches, gates and what symbols read.
LEMMA SameBodySameForm ==
    ASSUME NEW a, NEW b, SameBody(a, b)
    PROVE  /\ IsReencoded(a) <=> IsReencoded(b)
           /\ Targets(a) = Targets(b) /\ Cones(a) = Cones(b)
  <1>1. IsReencoded(a) <=> IsReencoded(b)
    BY DEF SameBody, IsReencoded, Sources, LatchLits
  <1>2. Targets(a) = Targets(b)
    BY DEF SameBody, Targets
  <1>3. a.ands = b.ands /\ a.latches = b.latches /\ ToSet(SymbolLits(a)) = ToSet(SymbolLits(b))
    BY DEF SameBody
  <1>4. Cones(a) = Cones(b)
    <2> DEFINE x == ToSet(SymbolLits(a))
               y == ToSet(SymbolLits(b))
    <2>1. x = y
      BY <1>3
    <2> QED
      BY <1>3, <2>1 DEF Cones
  <1> QED
    BY <1>1, <1>2, <1>4

\* What the gate of a variable reads, the constant included.
Inputs == [v \in GateVars |-> {Var(Gate(v).rhs0), Var(Gate(v).rhs1)}]

\* Gates and the ands that define them.
LEMMA GatesAndAnds ==
    ASSUME GraphPhase
    PROVE  /\ Len(aig.ands) \in Nat /\ ToSet(aig.ands) = {aig.ands[i] : i \in 1..Len(aig.ands)}
           /\ \A v \in GateVars : /\ types[v].idx \in 1..Len(aig.ands) /\ Gate(v) = aig.ands[types[v].idx]
                                  /\ Var(Gate(v).lhs) = v /\ Gate(v) \in ToSet(aig.ands)
           /\ \A i \in 1..Len(aig.ands) : /\ Var(aig.ands[i].lhs) \in GateVars
                                          /\ types[Var(aig.ands[i].lhs)].idx = i
           /\ IsFiniteSet(GateVars) /\ Cardinality(GateVars) <= Len(aig.ands)
  <1>1. IsGraph(aig) /\ Corresponds(aig, types) /\ aig.maxvar \in Nat /\ GateVars \in SUBSET (0..aig.maxvar)
    BY GatesAre DEF GraphPhase, GraphOK
  <1>2. ToSet(aig.ands) = {aig.ands[i] : i \in 1..Len(aig.ands)} /\ Len(aig.ands) \in Nat
    BY <1>1, GraphParts, SetOfSeq
  <1>3. \A v \in GateVars : types[v].idx \in 1..Len(aig.ands) /\ Gate(v) = aig.ands[types[v].idx]
                            /\ Gate(v).lhs = 2 * v /\ v \in Nat
    BY <1>1, GateReads DEF Gate
  <1>4. \A v \in GateVars : Var(Gate(v).lhs) = v /\ Gate(v) \in ToSet(aig.ands)
    <2> SUFFICES ASSUME NEW v \in GateVars PROVE Var(Gate(v).lhs) = v /\ Gate(v) \in ToSet(aig.ands)
      OBVIOUS
    <2>1. Var(2 * v) = v
      BY <1>3, Doubled
    <2> QED
      BY <1>2, <1>3, <2>1
  <1>5. \A i \in 1..Len(aig.ands) : Var(aig.ands[i].lhs) \in GateVars /\ types[Var(aig.ands[i].lhs)].idx = i
    <2> SUFFICES ASSUME NEW i \in 1..Len(aig.ands)
                 PROVE  Var(aig.ands[i].lhs) \in GateVars /\ types[Var(aig.ands[i].lhs)].idx = i
      OBVIOUS
    <2>1. Placed(aig, types, "and", i) /\ Defined(aig, "and", i) = aig.ands[i].lhs
      BY <1>1 DEF Corresponds, Whats, Count, Defined
    <2> QED
      BY <2>1 DEF Placed, GateVars
  <1> DEFINE N == Len(aig.ands)
             f == [i \in 1..N |-> Var(aig.ands[i].lhs)]
  <1>6. f \in [1..N -> GateVars] /\ \A v \in GateVars : \E i \in 1..N : f[i] = v
    <2>1. \A i \in 1..N : f[i] = Var(aig.ands[i].lhs) /\ f[i] \in GateVars
      BY <1>5
    <2>2. \A v \in GateVars : types[v].idx \in 1..N /\ Var(aig.ands[types[v].idx].lhs) = v
      BY <1>3, <1>4
    <2>3. f \in [1..N -> GateVars]
      BY <2>1
    <2> HIDE DEF f
    <2> QED
      BY <2>1, <2>2, <2>3
  <1> HIDE DEF f, N
  <1>7. N \in Nat
    BY <1>2 DEF N
  <1>8. IsFiniteSet(1..N) /\ Cardinality(1..N) = N
    BY <1>7, FS_Interval
  <1>9. f \in Surjection(1..N, GateVars)
    BY <1>6 DEF Surjection
  <1>10. IsFiniteSet(GateVars) /\ Cardinality(GateVars) <= N
    BY <1>8, <1>9, FS_Surjection
  <1> QED
    BY <1>2, <1>3, <1>4, <1>5, <1>10 DEF N

\* The cones of the graph hold what latches and symbols read, and are closed.
LEMMA ConesHold ==
    ASSUME GraphPhase
    PROVE  \E h : /\ Reaches(aig, h) /\ Closing(GateVars, Inputs, Len(aig.ands), h)
                  /\ Cones(aig) = {g \in ToSet(aig.ands) : Var(g.lhs) \in h[Len(aig.ands)]}
                  /\ HoldsCones({v \in GateVars : v \in h[Len(aig.ands)]})
  <1> DEFINE N == Len(aig.ands)
             gates == ToSet(aig.ands)
  <1>1. /\ N \in Nat
        /\ \A v \in GateVars : Var(Gate(v).lhs) = v /\ Gate(v) \in gates
        /\ \A g \in gates : Var(g.lhs) \in GateVars /\ Gate(Var(g.lhs)) = g
        /\ IsFiniteSet(GateVars) /\ Cardinality(GateVars) <= N
    BY GatesAndAnds DEF Gate
  <1>2. PICK h : Reaches(aig, h) /\ Cones(aig) = {g \in gates : Var(g.lhs) \in h[N]}
    BY <1>1, ConesAre
  <1>3. h[0] = Targets(aig) /\ \A n \in 1..N : h[n] = h[n - 1] \cup ReadBy(gates, h[n - 1])
    BY <1>2 DEF Reaches
  <1> HIDE DEF gates, N
  <1>4. \A S : \A v : v \in ReadBy(gates, S) <=> \E u \in GateVars : u \in S /\ v \in Inputs[u]
    <2> SUFFICES ASSUME NEW S, NEW v
                 PROVE  v \in ReadBy(gates, S) <=> \E u \in GateVars : u \in S /\ v \in Inputs[u]
      OBVIOUS
    <2>1. v \in ReadBy(gates, S) <=> \E g \in gates : Var(g.lhs) \in S /\ (v = Var(g.rhs0) \/ v = Var(g.rhs1))
      BY DEF ReadBy
    <2>2. \A u \in GateVars : v \in Inputs[u] <=> v = Var(Gate(u).rhs0) \/ v = Var(Gate(u).rhs1)
      BY DEF Inputs
    <2>3. ASSUME NEW g \in gates, Var(g.lhs) \in S, v = Var(g.rhs0) \/ v = Var(g.rhs1)
          PROVE  \E u \in GateVars : u \in S /\ v \in Inputs[u]
      <3>1. Var(g.lhs) \in GateVars /\ Gate(Var(g.lhs)) = g
        BY <1>1
      <3> QED
        BY <2>2, <2>3, <3>1
    <2>4. ASSUME NEW u \in GateVars, u \in S, v \in Inputs[u]
          PROVE  \E g \in gates : Var(g.lhs) \in S /\ (v = Var(g.rhs0) \/ v = Var(g.rhs1))
      <3>1. Gate(u) \in gates /\ Var(Gate(u).lhs) = u
        BY <1>1
      <3> QED
        BY <2>2, <2>4, <3>1
    <2> QED
      BY <2>1, <2>3, <2>4
  <1>5. Closing(GateVars, Inputs, N, h)
    <2> SUFFICES ASSUME NEW n \in 1..N, NEW v
                 PROVE  v \in h[n] <=> v \in h[n - 1] \/ \E u \in GateVars : u \in h[n - 1] /\ v \in Inputs[u]
      BY DEF Closing
    <2> QED
      BY <1>3, <1>4
  <1>6. Closed(GateVars, Inputs, h[N])
    BY <1>1, <1>5, AsManyStepsAsGates
  <1>7. \A v \in Targets(aig) : v \in h[N]
    <2> DEFINE T == {n \in Nat : n <= N => \A v \in Targets(aig) : v \in h[n]}
    <2>1. 0 \in T
      BY <1>3
    <2>2. ASSUME NEW n \in Nat, n \in T PROVE n + 1 \in T
      <3> SUFFICES ASSUME n + 1 <= N, NEW v \in Targets(aig) PROVE v \in h[n + 1]
        OBVIOUS
      <3>1. n + 1 \in 1..N /\ (n + 1) - 1 = n /\ n <= N
        BY <1>1
      <3>2. h[n + 1] = h[n] \cup ReadBy(gates, h[n])
        BY <1>3, <3>1
      <3>3. v \in h[n]
        BY <2>2, <3>1
      <3> QED
        BY <3>2, <3>3
    <2> HIDE DEF T
    <2>3. N \in T
      BY <1>1, <2>1, <2>2, InductionOnNat
    <2> QED
      BY <1>1, <2>3 DEF T
  <1> DEFINE K == {v \in GateVars : v \in h[N]}
  <1>8. HoldsCones(K)
    <2>1. ASSUME NEW v \in K, NEW u \in Reads[v] \cap GateVars PROVE u \in K
      <3>1. u \in Inputs[v]
        BY DEF Reads, Fanin, Inputs
      <3> QED
        BY <1>6, <3>1 DEF Closed
    <2> QED
      BY <1>7, <2>1 DEF HoldsCones
  <1> QED
    BY <1>2, <1>5, <1>8 DEF gates, N

CodedAnds == {g \in ToSet(aig.ands) : code[Var(g.lhs)] # 0}

\* As many ands have a code as numbers were handed out for them.
LEMMA CodedAndsCounted ==
    ASSUME Sound, NEW m \in Nat, Coded(m)
    PROVE  Cardinality(CodedAnds) = m - Len(Sources(aig))
  <1> DEFINE n == Len(Sources(aig))
             N == m - n
  <1>1. /\ Variables(aig.maxvar, Sources(aig), GateVars, Reads)
        /\ Numbering(0..aig.maxvar, Sources(aig), GateVars, Reads, code, m)
        /\ GraphPhase /\ GateVars \in SUBSET (Nat \ {0}) /\ GateVars \in SUBSET (0..aig.maxvar)
    BY GatesAre, VariablesAre DEF Sound, Coded
  <1>2. n \in Nat /\ n <= m
    BY <1>1 DEF Variables, Numbering
  <1>3. /\ \A g \in ToSet(aig.ands) : Var(g.lhs) \in GateVars /\ Gate(Var(g.lhs)) = g
        /\ \A v \in GateVars : Gate(v) \in ToSet(aig.ands) /\ Var(Gate(v).lhs) = v
    BY <1>1, GatesAndAnds, SMTT(30) DEF Gate
  <1>4. \A v \in GateVars : code[v] # 0 => \E j \in (n + 1)..m : code[v] = 2 * j
    <2> SUFFICES ASSUME NEW v \in GateVars, code[v] # 0 PROVE \E j \in (n + 1)..m : code[v] = 2 * j
      OBVIOUS
    <2>1. ~ \E k \in 1..Len(Sources(aig)) : Sources(aig)[k] = 2 * v
      <3>1. \A k \in 1..Len(Sources(aig)) : Sources(aig)[k] = 2 * v => Var(Sources(aig)[k]) = v
        BY <1>1, Doubled
      <3> QED
        BY <1>1, <3>1 DEF Variables
    <2> QED
      BY <1>1, <2>1 DEF Numbering
  <1>5. \A j \in (n + 1)..m : \E v \in GateVars : code[v] = 2 * j
    BY <1>1 DEF Numbering
  <1>6. \A v \in GateVars : \A w \in GateVars : code[v] # 0 /\ code[v] = code[w] => v = w
    BY <1>1 DEF Numbering
  <1> HIDE DEF n, N
  <1>7. N \in Nat /\ (\A j \in (n + 1)..m : j - n \in 1..N /\ j = n + (j - n)) /\ \A k \in 1..N : n + k \in (n + 1)..m
    BY <1>2 DEF N
  <1> DEFINE r == [g \in CodedAnds |-> CHOOSE k \in 1..N : code[Var(g.lhs)] = 2 * (n + k)]
  <1>8. \A g \in CodedAnds : \E k \in 1..N : code[Var(g.lhs)] = 2 * (n + k)
    <2> SUFFICES ASSUME NEW g \in CodedAnds PROVE \E k \in 1..N : code[Var(g.lhs)] = 2 * (n + k)
      OBVIOUS
    <2>1. Var(g.lhs) \in GateVars /\ code[Var(g.lhs)] # 0
      BY <1>3 DEF CodedAnds
    <2>2. PICK j \in (n + 1)..m : code[Var(g.lhs)] = 2 * j
      BY <1>4, <2>1
    <2> QED
      BY <1>7, <2>2
  <1>9. r \in [CodedAnds -> 1..N] /\ \A g \in CodedAnds : code[Var(g.lhs)] = 2 * (n + r[g])
    BY <1>8
  <1> HIDE DEF r
  <1>10. \A g \in CodedAnds : \A h \in CodedAnds : r[g] = r[h] => g = h
    <2> SUFFICES ASSUME NEW g \in CodedAnds, NEW h \in CodedAnds, r[g] = r[h] PROVE g = h
      OBVIOUS
    <2>1. code[Var(g.lhs)] = code[Var(h.lhs)] /\ code[Var(g.lhs)] # 0
      BY <1>9 DEF CodedAnds
    <2>2. Var(g.lhs) \in GateVars /\ Var(h.lhs) \in GateVars
      BY <1>3 DEF CodedAnds
    <2>3. Var(g.lhs) = Var(h.lhs)
      BY <1>6, <2>1, <2>2
    <2> QED
      BY <1>3, <2>3 DEF CodedAnds
  <1>11. \A j \in 1..N : \E g \in CodedAnds : r[g] = j
    <2> SUFFICES ASSUME NEW j \in 1..N PROVE \E g \in CodedAnds : r[g] = j
      OBVIOUS
    <2>1. n + j \in (n + 1)..m
      BY <1>7
    <2>2. PICK v \in GateVars : code[v] = 2 * (n + j)
      BY <1>5, <2>1
    <2> DEFINE g == Gate(v)
    <2>3. 2 * (n + j) # 0
      BY <1>2, <2>1
    <2>4. g \in CodedAnds /\ code[Var(g.lhs)] = 2 * (n + j)
      BY <1>3, <2>2, <2>3 DEF CodedAnds
    <2> HIDE DEF g
    <2>5. 2 * (n + r[g]) = 2 * (n + j) /\ r[g] \in 1..N
      BY <1>9, <2>4
    <2>6. r[g] = j
      BY <1>2, <2>5
    <2> QED
      BY <2>4, <2>6
  <1>12. Cardinality(CodedAnds) = N
    BY <1>7, <1>9, <1>10, <1>11, Ranked
  <1> QED
    BY <1>12 DEF N, n

\* What is reached has a code when the search is over.
LEMMA ReachedAreCoded ==
    ASSUME Complete, NEW h, Reaches(aig, h), Closing(GateVars, Inputs, Len(aig.ands), h)
    PROVE  \A v \in GateVars : v \in h[Len(aig.ands)] => code[v] # 0
  <1> DEFINE N == Len(aig.ands)
             T == {n \in Nat : n <= N => \A v \in GateVars : v \in h[n] => code[v] # 0}
  <1>1. PICK m \in Nat : Coded(m)
    BY DEF Complete, RecodePhase
  <1>2. Sound /\ GraphPhase /\ 0 \notin GateVars /\ IsGraph(aig)
    BY GatesAre DEF Complete, RecodePhase, Sound, GraphPhase, GraphOK
  <1>3. N \in Nat /\ h[0] = Targets(aig)
    BY <1>2, GatesAndAnds DEF Reaches
  <1>4. 0 \in T
    <2> SUFFICES ASSUME NEW v \in GateVars, v \in Targets(aig) PROVE code[v] # 0
      BY <1>3
    <2>1. ToSet(aig.latches) = {aig.latches[k] : k \in 1..Len(aig.latches)}
      BY <1>2, GraphParts, SetOfSeq
    <2>2. \/ \E k \in 1..Len(aig.latches) : v = Var(aig.latches[k].next) \/ v = Var(aig.latches[k].reset)
          \/ \E lit \in ToSet(SymbolLits(aig)) : v = Var(lit)
      <3>1. CASE v \in {Var(lit) : lit \in ToSet(SymbolLits(aig))}
        BY <3>1
      <3>2. CASE v \in UNION {{Var(l.next), Var(l.reset)} : l \in ToSet(aig.latches)}
        <4>1. PICK l \in ToSet(aig.latches) : v = Var(l.next) \/ v = Var(l.reset)
          BY <3>2
        <4> QED
          BY <2>1, <4>1
      <3> QED
        BY <3>1, <3>2 DEF Targets
    <2>3. \E lit \in ToSet(Starts) : v = Var(lit)
      BY <1>2, <2>2, StartsAre
    <2>4. \E k \in 1..Len(Starts) : v = Var(Starts[k])
      BY <1>2, <2>3, StartsAre
    <2>5. v # 0 /\ types[v].is # "none"
      BY <1>2, GatesAre
    <2> QED
      BY <2>4, <2>5, StartsCoded
  <1>5. ASSUME NEW n \in Nat, n \in T PROVE n + 1 \in T
    <2> SUFFICES ASSUME n + 1 <= N, NEW v \in GateVars, v \in h[n + 1] PROVE code[v] # 0
      OBVIOUS
    <2>1. n + 1 \in 1..N /\ (n + 1) - 1 = n /\ n <= N
      BY <1>3
    <2>2. v \in h[n] \/ \E u \in GateVars : u \in h[n] /\ v \in Inputs[u]
      BY <2>1 DEF Closing
    <2>3. CASE v \in h[n]
      BY <1>5, <2>1, <2>3
    <2>4. ASSUME NEW u \in GateVars, u \in h[n], v \in Inputs[u] PROVE code[v] # 0
      <3>1. code[u] # 0
        BY <1>5, <2>1, <2>4
      <3>2. v \in Reads[u]
        BY <1>2, <2>4 DEF Inputs, Reads, Fanin
      <3> QED
        BY <1>1, <3>1, <3>2 DEF Coded, Numbering
    <2> QED
      BY <2>2, <2>3, <2>4
  <1> HIDE DEF T
  <1>6. N \in T
    BY <1>3, <1>4, <1>5, InductionOnNat
  <1> QED
    BY <1>3, <1>6 DEF T

\* The ands in the cones are those that have a code when the search is over.
LEMMA ConesAreCoded ==
    ASSUME Complete, WithinCones
    PROVE  Cones(aig) = CodedAnds
  <1>1. GraphPhase
    BY DEF Complete, RecodePhase, Sound
  <1>2. PICK h : /\ Reaches(aig, h) /\ Closing(GateVars, Inputs, Len(aig.ands), h)
                 /\ Cones(aig) = {g \in ToSet(aig.ands) : Var(g.lhs) \in h[Len(aig.ands)]}
                 /\ HoldsCones({v \in GateVars : v \in h[Len(aig.ands)]})
    BY <1>1, ConesHold
  <1>3. CodedGates \subseteq {v \in GateVars : v \in h[Len(aig.ands)]}
    BY <1>2 DEF WithinCones
  <1>4. \A v \in GateVars : v \in h[Len(aig.ands)] <=> code[v] # 0
    BY <1>2, <1>3, ReachedAreCoded DEF CodedGates
  <1>5. \A g \in ToSet(aig.ands) : Var(g.lhs) \in GateVars
    BY <1>1, GatesAndAnds
  <1> QED
    BY <1>2, <1>4, <1>5 DEF CodedAnds

\* While it is renumbered the graph is the one that was checked, and afterwards the cones are left.
FormInv ==
    /\ at \in {"reencode", "recode"} => SameBody(given, aig)
    /\ at = "recode" => WithinCones
    /\ ReencodedForm

\* The rebuilt graph is re-encoded, and has as many ands as the cones of the graph checked.
LEMMA RebuiltForm ==
    ASSUME RecodePhase, WithinCones, SameBody(given, aig), UNCHANGED given, Rebuild
    PROVE  at' = "reencoded" /\ ReencodedForm'
  <1>1. /\ at' = "reencoded" /\ ReencodedPhase'
        /\ aig'.maxvar = Len(aig'.inputs) + Len(aig'.latches) + Len(aig'.ands)
        /\ \E m \in Nat : Coded(m) /\ Len(aig'.ands) = m - Len(Sources(aig))
    BY RebuildStep
  <1>2. PICK m \in Nat : Coded(m) /\ Len(aig'.ands) = m - Len(Sources(aig))
    BY <1>1
  <1>3. Complete /\ Sound
    BY DEF Complete, Rebuild, RecodePhase
  <1>4. Cones(aig) = CodedAnds
    BY <1>3, ConesAreCoded
  <1>5. Cones(given) = Cones(aig)
    BY SameBodySameForm
  <1>6. Cardinality(CodedAnds) = m - Len(Sources(aig))
    BY <1>2, <1>3, CodedAndsCounted
  <1>7. Cardinality(Cones(given')) = Len(aig'.ands)
    BY <1>2, <1>4, <1>5, <1>6
  <1>8. IsReencoded(aig)'
    BY <1>1 DEF ReencodedPhase
  <1>9. Len(aig.ands)' = Cardinality(Cones(given))'
    BY <1>7 DEF Cones
  <1> QED
    BY <1>1, <1>8, <1>9 DEF ReencodedForm

\* Every step keeps the form: the paths before the re-encoding promise nothing, and those through it keep the body.
LEMMA FormKept ==
    ASSUME ToolsInv, FormInv, [ToolsNext]_toolVars
    PROVE  FormInv'
  <1>1. Phases
    BY DEF ToolsInv
  <1>2. CASE UNCHANGED toolVars
    <2>1. UNCHANGED <<aig, types, stack, at, code, given>>
      BY <1>2 DEF toolVars, graphVars, searchVars
    <2>2. SameBody(given, aig)' <=> SameBody(given, aig)
      BY <2>1 DEF SameBody
    <2>3. ReencodedForm' <=> ReencodedForm
      BY <2>1 DEF ReencodedForm, IsReencoded, Sources, LatchLits, Cones
    <2>4. WithinCones' <=> WithinCones
      BY <2>1 DEF WithinCones, HoldsCones, CodedGates, GateVars, Reads, Fanin, Gate, Targets
    <2> QED
      BY <2>1, <2>2, <2>3, <2>4 DEF FormInv
  <1>3. CASE Reading \/ Checking \/ WriteAscii \/ WriteBinary
    <2>1. at' \notin {"reencode", "recode", "reencoded"}
      <3>1. CASE Reading
        <4>1. at \in {"open", "read"}
          BY <3>1 DEF Reading, ReadStep, ReadHeader, ReadInput, ReadLatch, ReadSymbol, ReadAsciiAnd, ReadBinaryAnd, ReadNames
        <4>2. IsFile(file) /\ (at = "open" => OpenPhase) /\ (at = "read" => ReadPhase)
          BY <1>1 DEF ToolsInv, Phases
        <4>3. at' \in {"read", "check", "failed"}
          BY <3>1, <4>2, ReadStepKeeps DEF OpenPhase, Reading, Failed
        <4> QED
          BY <4>3
      <3>2. CASE Checking
        <4>1. CheckStep
          BY <3>2 DEF Checking
        <4>2. at' \in {"cycles", "failed", "checked"}
          BY <4>1 DEF CheckStep, CheckDefined, NextRoot, CycleFound, PopVisited, Enter, Leave, CheckPassed, Searching
        <4> QED
          BY <4>2
      <3>3. CASE WriteAscii \/ WriteBinary
        BY <3>3 DEF WriteAscii, WriteBinary, Write
      <3> QED
        BY <1>3, <3>1, <3>2, <3>3
    <2> QED
      BY <2>1 DEF FormInv, ReencodedForm
  <1>4. CASE MoveOutputs \/ PrepareBinary
    <2>1. at = "checked"
      BY <1>4 DEF MoveOutputs, PrepareBinary, Keep
    <2>2. CheckedPhase
      BY <1>1, <2>1 DEF Phases
    <2>3. at' = "reencode" /\ given' = aig /\ SameBody(aig, aig')
      <3>1. CASE MoveOutputs
        BY <2>2, <3>1, MoveOutputsStep
      <3>2. CASE PrepareBinary
        BY <2>2, <3>2, PrepareBinaryStep DEF PrepareBinary, SameBody
      <3> QED
        BY <1>4, <3>1, <3>2
    <2>4. SameBody(given, aig)'
      BY <2>3 DEF SameBody
    <2> QED
      BY <2>3, <2>4 DEF FormInv, ReencodedForm
  <1>5. CASE Recoded
    <2>1. ReencodeStep /\ UNCHANGED given
      BY <1>5 DEF Recoded
    <2>2. CASE StartReencode
      <3>1. at = "reencode"
        BY <2>2 DEF StartReencode
      <3>2. CheckedPhase /\ SameBody(given, aig)
        BY <1>1, <3>1 DEF Phases, FormInv
      <3>3. Sound /\ stack = <<>> /\ \A v \in 0..aig.maxvar : ~types[v].onstack
        BY <3>2 DEF CheckedPhase, Sound
      <3>4. /\ UNCHANGED <<aig, types, stack>>
            /\ \/ at' = "reencoded" /\ IsReencoded(aig)
               \/ at' = "recode" /\ RecodePhase' /\ CodedGates' = {}
        BY <2>2, <3>3, StartReencodeStep
      <3>5. SameBody(given, aig)'
        BY <2>1, <3>2, <3>4 DEF SameBody
      <3>6. CASE at' = "reencoded" /\ IsReencoded(aig)
        <4>1. IsReencoded(given) /\ IsReencoded(aig)
          BY <3>2, <3>6, SameBodySameForm
        <4>2. IsReencoded(given)' /\ IsReencoded(aig)'
          BY <2>1, <3>4, <4>1 DEF IsReencoded, Sources, LatchLits
        <4> QED
          BY <3>6, <4>2 DEF FormInv, ReencodedForm
      <3>7. CASE at' = "recode" /\ CodedGates' = {}
        <4>1. stack' = <<>>
          BY <3>3, <3>4
        <4>2. WithinCones'
          <5>1. \A i \in 1..Len(stack') : FALSE
            BY <4>1
          <5> QED
            BY <3>7, <5>1 DEF WithinCones
        <4> QED
          BY <3>5, <3>7, <4>2 DEF FormInv, ReencodedForm
      <3> QED
        BY <3>4, <3>6, <3>7
    <2>3. CASE NextStart \/ PopCoded \/ Expand \/ Number
      <3>1. at = "recode"
        BY <2>3 DEF NextStart, PopCoded, Expand, Number, Recoding
      <3>2. RecodePhase /\ WithinCones /\ SameBody(given, aig)
        BY <1>1, <3>1 DEF Phases, FormInv
      <3> DEFINE beyond == ~(Var(Starts[visit + 1]) <= aig.maxvar)
      <3>3. CASE ~(NextStart /\ beyond)
        <4>1. WithinCones' /\ UNCHANGED aig /\ at' = at
          BY <2>3, <3>2, <3>3, NumberingWithinCones
        <4>2. SameBody(given, aig)'
          BY <2>1, <3>2, <4>1 DEF SameBody
        <4> QED
          BY <3>1, <4>1, <4>2 DEF FormInv, ReencodedForm
      <3>4. CASE NextStart /\ beyond
        <4>1. at' = "undefined"
          BY <3>2, <3>4, StartBeyond
        <4> QED
          BY <4>1 DEF FormInv, ReencodedForm
      <3> QED
        BY <3>3, <3>4
    <2>4. CASE Rebuild
      <3>1. at = "recode"
        BY <2>4 DEF Rebuild
      <3>2. RecodePhase /\ WithinCones /\ SameBody(given, aig)
        BY <1>1, <3>1 DEF Phases, FormInv
      <3>3. at' = "reencoded" /\ ReencodedForm'
        BY <2>1, <2>4, <3>2, RebuiltForm
      <3> QED
        BY <3>3 DEF FormInv
    <2> QED
      BY <2>1, <2>2, <2>3, <2>4 DEF ReencodeStep
  <1> QED
    BY <1>2, <1>3, <1>4, <1>5 DEF ToolsNext, ToolStep

\* The form that re-encoding leaves (aiger.h:254-267), for every file: consecutive variables in the
\* order of the formats, and exactly the ands that a latch or a symbol depends on.
THEOREM FormAlwaysReencoded == ToolsSpec => []ReencodedForm
  <1>1. ToolsInit => FormInv
    BY DEF ToolsInit, FormInv, ReencodedForm
  <1>2. ToolsInv /\ FormInv /\ [ToolsNext]_toolVars => FormInv'
    BY FormKept
  <1>3. FormInv => ReencodedForm
    BY DEF FormInv
  <1> QED
    BY <1>1, <1>2, <1>3, ToolsInvHolds, PTL DEF ToolsSpec

(***************************************************************************)
(* The functions that re-encoding leaves: the values of a graph without a  *)
(* cycle, and where the new numbers carry them.                            *)
(***************************************************************************)
Holds(f, lit) == f[Var(lit)] # IsNeg(lit)
\* What the recursion of Values says of a variable, when f gives the values of the others.
ValueOf(a, w, f, v) ==
    IF v = 0 THEN FALSE
    ELSE IF 2 * v \in ToSet(Sources(a)) THEN w[SelectInSeq(Sources(a), LAMBDA lit : lit = 2 * v)]
    ELSE LET place == SelectInSeq(a.ands, LAMBDA gate : gate.lhs = 2 * v) IN
         place # 0 /\ Holds(f, a.ands[place].rhs0) /\ Holds(f, a.ands[place].rhs1)
Solves(a, w, f) == f = [v \in 0..a.maxvar |-> ValueOf(a, w, f, v)]

\* The recursion has a solution: then Values is one.
LEMMA ValuesSolve ==
    ASSUME NEW a, NEW w, NEW h, Solves(a, w, h)
    PROVE  Solves(a, w, Values(a, w))
  <1> DEFINE Body(f, v) ==
               IF v = 0 THEN FALSE
               ELSE IF 2 * v \in ToSet(Sources(a)) THEN w[SelectInSeq(Sources(a), LAMBDA lit : lit = 2 * v)]
               ELSE LET place == SelectInSeq(a.ands, LAMBDA gate : gate.lhs = 2 * v)
                        holds(lit) == f[Var(lit)] # IsNeg(lit) IN
                    place # 0 /\ holds(a.ands[place].rhs0) /\ holds(a.ands[place].rhs1)
             value == CHOOSE f : f = [v \in 0..a.maxvar |-> Body(f, v)]
  <1>1. Values(a, w) = value
    BY DEF Values, Sources
  <1>2. \A f, v : Body(f, v) = ValueOf(a, w, f, v)
    BY DEF ValueOf, Holds
  <1> HIDE DEF Body
  <1>3. h = [v \in 0..a.maxvar |-> Body(h, v)]
    BY <1>2 DEF Solves
  <1>4. value = [v \in 0..a.maxvar |-> Body(value, v)]
    BY <1>3
  <1> HIDE DEF value
  <1>5. value = [v \in 0..a.maxvar |-> ValueOf(a, w, value, v)]
    BY <1>2, <1>4
  <1> QED
    BY <1>1, <1>5 DEF Solves

\* The place of the and that defines a variable, 0 if there is none.
LEMMA PlaceOfAnd ==
    ASSUME NEW s, Len(s) \in Nat, NEW n
    PROVE  LET place == SelectInSeq(s, LAMBDA gate : gate.lhs = n) IN
           /\ place \in 0..Len(s)
           /\ place # 0 => s[place].lhs = n
           /\ place = 0 => \A k \in 1..Len(s) : s[k].lhs # n
  <1> DEFINE I == {i \in 1..Len(s) : s[i].lhs = n}
             place == SelectInSeq(s, LAMBDA gate : gate.lhs = n)
  <1>1. place = IF I # {} THEN Min(I) ELSE 0
    BY DEF SelectInSeq
  <1>2. I \in SUBSET Nat
    OBVIOUS
  <1>3. I # {} => Min(I) \in I
    BY <1>2, MinOf
  <1> QED
    BY <1>1, <1>3

\* No variable is defined twice.
DefinedApart(a) ==
    /\ Len(Sources(a)) \in Nat /\ Len(a.ands) \in Nat
    /\ ToSet(Sources(a)) = {Sources(a)[k] : k \in 1..Len(Sources(a))}
    /\ \A k \in 1..Len(Sources(a)) : \A l \in 1..Len(Sources(a)) : Sources(a)[k] = Sources(a)[l] => k = l
    /\ \A i \in 1..Len(a.ands) : \A j \in 1..Len(a.ands) : a.ands[i].lhs = a.ands[j].lhs => i = j
    /\ \A k \in 1..Len(Sources(a)) : \A i \in 1..Len(a.ands) : Sources(a)[k] # a.ands[i].lhs

\* The value of the constant, of a source, of a gate and of a variable nothing defines.
LEMMA ValueCases ==
    ASSUME NEW a, DefinedApart(a), NEW w, NEW f, NEW v
    PROVE  \/ v = 0 /\ ValueOf(a, w, f, v) = FALSE
           \/ v # 0 /\ \E k \in 1..Len(Sources(a)) : Sources(a)[k] = 2 * v /\ ValueOf(a, w, f, v) = w[k]
           \/ v # 0 /\ \E i \in 1..Len(a.ands) :
                a.ands[i].lhs = 2 * v /\ ValueOf(a, w, f, v) = (Holds(f, a.ands[i].rhs0) /\ Holds(f, a.ands[i].rhs1))
           \/ v # 0 /\ (\A k \in 1..Len(Sources(a)) : Sources(a)[k] # 2 * v)
                    /\ (\A i \in 1..Len(a.ands) : a.ands[i].lhs # 2 * v) /\ ValueOf(a, w, f, v) = FALSE
  <1> DEFINE S == Sources(a)
             N == a.ands
             n == 2 * v
             p == SelectInSeq(S, LAMBDA lit : lit = n)
             q == SelectInSeq(N, LAMBDA gate : gate.lhs = n)
             both == Holds(f, N[q].rhs0) /\ Holds(f, N[q].rhs1)
             V == ValueOf(a, w, f, v)
  <1>1. V = IF v = 0 THEN FALSE ELSE IF n \in ToSet(S) THEN w[p] ELSE q # 0 /\ both
    BY DEF ValueOf
  <1>2. /\ Len(S) \in Nat /\ Len(N) \in Nat /\ ToSet(S) = {S[k] : k \in 1..Len(S)}
    BY DEF DefinedApart
  <1> HIDE DEF S, N, n, V
  <1>3. p \in 0..Len(S) /\ (p # 0 => S[p] = n) /\ (p = 0 => \A k \in 1..Len(S) : S[k] # n)
    <2>1. /\ SelectInSeq(S, LAMBDA lit : lit = n) \in 0..Len(S)
          /\ SelectInSeq(S, LAMBDA lit : lit = n) # 0 => S[SelectInSeq(S, LAMBDA lit : lit = n)] = n
          /\ SelectInSeq(S, LAMBDA lit : lit = n) = 0 => \A k \in 1..Len(S) : S[k] # n
      BY <1>2, PlaceOf
    <2> QED
      BY <2>1
  <1>4. q \in 0..Len(N) /\ (q # 0 => N[q].lhs = n) /\ (q = 0 => \A k \in 1..Len(N) : N[k].lhs # n)
    <2>1. /\ SelectInSeq(N, LAMBDA gate : gate.lhs = n) \in 0..Len(N)
          /\ SelectInSeq(N, LAMBDA gate : gate.lhs = n) # 0 => N[SelectInSeq(N, LAMBDA gate : gate.lhs = n)].lhs = n
          /\ SelectInSeq(N, LAMBDA gate : gate.lhs = n) = 0 => \A k \in 1..Len(N) : N[k].lhs # n
      BY <1>2, PlaceOfAnd
    <2> QED
      BY <2>1
  <1> HIDE DEF p, q
  <1>5. n \in ToSet(S) <=> \E k \in 1..Len(S) : S[k] = n
    BY <1>2
  <1>6. CASE v # 0 /\ n \in ToSet(S)
    <2>1. p \in 1..Len(S) /\ S[p] = n
      BY <1>2, <1>3, <1>5, <1>6
    <2>2. V = w[p]
      BY <1>1, <1>6
    <2> QED
      BY <1>6, <2>1, <2>2 DEF V, S, n
  <1>7. CASE v # 0 /\ n \notin ToSet(S) /\ q # 0
    <2>1. q \in 1..Len(N) /\ N[q].lhs = n
      BY <1>2, <1>4, <1>7
    <2>2. V = both
      BY <1>1, <1>7
    <2> QED
      BY <1>7, <2>1, <2>2 DEF V, N, n
  <1>8. CASE v # 0 /\ n \notin ToSet(S) /\ q = 0
    <2>1. (\A k \in 1..Len(S) : S[k] # n) /\ \A i \in 1..Len(N) : N[i].lhs # n
      BY <1>4, <1>5, <1>8
    <2>2. V = FALSE
      BY <1>1, <1>8
    <2> QED
      BY <1>8, <2>1, <2>2 DEF V, S, N, n
  <1>9. CASE v = 0
    BY <1>1, <1>9 DEF V
  <1> QED
    BY <1>6, <1>7, <1>8, <1>9

\* The equation of a source, by its place,
LEMMA SourceValue ==
    ASSUME NEW a, DefinedApart(a), NEW w, NEW f, NEW v, v # 0,
           NEW k \in 1..Len(Sources(a)), Sources(a)[k] = 2 * v
    PROVE  ValueOf(a, w, f, v) = w[k]
  <1> DEFINE V == ValueOf(a, w, f, v)
             both(j) == Holds(f, a.ands[j].rhs0) /\ Holds(f, a.ands[j].rhs1)
  <1>0. \/ v = 0 /\ V = FALSE
        \/ v # 0 /\ \E j \in 1..Len(Sources(a)) : Sources(a)[j] = 2 * v /\ V = w[j]
        \/ v # 0 /\ \E j \in 1..Len(a.ands) : a.ands[j].lhs = 2 * v /\ V = both(j)
        \/ v # 0 /\ (\A j \in 1..Len(Sources(a)) : Sources(a)[j] # 2 * v)
                 /\ (\A j \in 1..Len(a.ands) : a.ands[j].lhs # 2 * v) /\ V = FALSE
    BY ValueCases
  <1> HIDE DEF V, both
  <1>1. /\ \A i \in 1..Len(Sources(a)) : \A l \in 1..Len(Sources(a)) : Sources(a)[i] = Sources(a)[l] => i = l
        /\ \A i \in 1..Len(Sources(a)) : \A l \in 1..Len(a.ands) : Sources(a)[i] # a.ands[l].lhs
    BY DEF DefinedApart
  <1>2. \E i \in 1..Len(Sources(a)) : Sources(a)[i] = 2 * v /\ V = w[i]
    BY <1>0, <1>1
  <1>3. V = w[k]
    BY <1>1, <1>2
  <1> QED
    BY <1>3 DEF V

\* of a gate, by its and,
LEMMA GateValue ==
    ASSUME NEW a, DefinedApart(a), NEW w, NEW f, NEW v, v # 0,
           NEW i \in 1..Len(a.ands), a.ands[i].lhs = 2 * v
    PROVE  ValueOf(a, w, f, v) = (Holds(f, a.ands[i].rhs0) /\ Holds(f, a.ands[i].rhs1))
  <1> DEFINE V == ValueOf(a, w, f, v)
             both(j) == Holds(f, a.ands[j].rhs0) /\ Holds(f, a.ands[j].rhs1)
  <1>0. \/ v = 0 /\ V = FALSE
        \/ v # 0 /\ \E j \in 1..Len(Sources(a)) : Sources(a)[j] = 2 * v /\ V = w[j]
        \/ v # 0 /\ \E j \in 1..Len(a.ands) : a.ands[j].lhs = 2 * v /\ V = both(j)
        \/ v # 0 /\ (\A j \in 1..Len(Sources(a)) : Sources(a)[j] # 2 * v)
                 /\ (\A j \in 1..Len(a.ands) : a.ands[j].lhs # 2 * v) /\ V = FALSE
    BY ValueCases
  <1> HIDE DEF V, both
  <1>1. /\ \A k \in 1..Len(a.ands) : \A l \in 1..Len(a.ands) : a.ands[k].lhs = a.ands[l].lhs => k = l
        /\ \A k \in 1..Len(Sources(a)) : \A l \in 1..Len(a.ands) : Sources(a)[k] # a.ands[l].lhs
    BY DEF DefinedApart
  <1>2. \E j \in 1..Len(a.ands) : a.ands[j].lhs = 2 * v /\ V = both(j)
    BY <1>0, <1>1
  <1>3. V = both(i)
    BY <1>1, <1>2
  <1> QED
    BY <1>3 DEF V, both

\* and of a variable that is neither.
LEMMA NothingValue ==
    ASSUME NEW a, DefinedApart(a), NEW w, NEW f, NEW v,
           v # 0 => /\ \A k \in 1..Len(Sources(a)) : Sources(a)[k] # 2 * v
                    /\ \A i \in 1..Len(a.ands) : a.ands[i].lhs # 2 * v
    PROVE  ValueOf(a, w, f, v) = FALSE
  BY ValueCases

\* In a graph that the reader accepts no variable is defined twice, so each has one equation;
LEMMA GraphApart ==
    ASSUME GraphPhase
    PROVE  /\ DefinedApart(aig)
           /\ \A v \in 0..aig.maxvar : v \notin GateVars => \A i \in 1..Len(aig.ands) : aig.ands[i].lhs # 2 * v
  <1>1. Variables(aig.maxvar, Sources(aig), GateVars, Reads) /\ IsGraph(aig) /\ aig.maxvar \in Nat
    BY VariablesAre, GatesAre DEF GraphPhase, GraphOK
  <1>2. /\ Len(aig.ands) \in Nat
        /\ \A i \in 1..Len(aig.ands) : Var(aig.ands[i].lhs) \in GateVars /\ types[Var(aig.ands[i].lhs)].idx = i
    BY GatesAndAnds
  <1>3. ToSet(Sources(aig)) = {Sources(aig)[k] : k \in 1..Len(Sources(aig))}
    BY <1>1, DefinedInTurn, SetOfSeq
  <1>4. DefinedApart(aig)
    BY <1>1, <1>2, <1>3 DEF DefinedApart, Variables
  <1>5. ASSUME NEW v \in 0..aig.maxvar, v \notin GateVars, NEW i \in 1..Len(aig.ands)
        PROVE  aig.ands[i].lhs # 2 * v
    <2>1. v \in Nat
      BY <1>1
    <2>2. Var(2 * v) = v
      BY <2>1, Doubled
    <2> QED
      BY <1>2, <1>5, <2>2
  <1> QED
    BY <1>4, <1>5

\* nor in one that has the form of a re-encoded graph.
LEMMA ReencodedApart ==
    ASSUME NEW b, IsGraph(b), IsReencoded(b)
    PROVE  DefinedApart(b)
  <1> DEFINE n == Len(b.inputs) + Len(b.latches)
             N == Len(b.ands)
  <1>1. /\ Len(Sources(b)) = n /\ Sources(b) \in Seq(LitsOf(b)) /\ n \in Nat /\ N \in Nat
    <2> DEFINE i == Len(b.inputs)
               l == Len(b.latches)
    <2>1. i \in Nat /\ l \in Nat /\ N \in Nat
      BY GraphEntries
    <2>2. Len(Sources(b)) = i + l /\ Sources(b) \in Seq(LitsOf(b))
      BY DefinedInTurn
    <2> HIDE DEF i, l
    <2>3. i + l \in Nat
      BY <2>1
    <2> QED
      BY <2>1, <2>2, <2>3 DEF i, l
  <1>2. ToSet(Sources(b)) = {Sources(b)[k] : k \in 1..Len(Sources(b))}
    BY <1>1, SetOfSeq
  <1>3. (\A k \in 1..n : Sources(b)[k] = 2 * k) /\ \A i \in 1..N : b.ands[i].lhs = 2 * (n + i)
    BY DEF IsReencoded
  <1> HIDE DEF n, N
  <1>4. \A k \in 1..n : \A l \in 1..n : 2 * k = 2 * l => k = l
    BY <1>1
  <1>5. \A i \in 1..N : \A j \in 1..N : 2 * (n + i) = 2 * (n + j) => i = j
    BY <1>1
  <1>6. \A k \in 1..n : \A i \in 1..N : 2 * k # 2 * (n + i)
    BY <1>1
  <1> QED
    BY <1>1, <1>2, <1>3, <1>4, <1>5, <1>6 DEF DefinedApart, N

\* What a gate says does not depend on f where the gate does not read.
Eval(f, v) == Holds(f, Gate(v).rhs0) /\ Holds(f, Gate(v).rhs1)

\* The value of a gate is computed from what it reads, any other does not depend on values at all.
LEMMA OtherValues ==
    ASSUME GraphPhase, NEW w \in [1..Len(Sources(aig)) -> BOOLEAN], NEW v \in 0..aig.maxvar, NEW f
    PROVE  /\ v \in GateVars => ValueOf(aig, w, f, v) = Eval(f, v)
           /\ v \notin GateVars => /\ ValueOf(aig, w, f, v) \in BOOLEAN
                                   /\ \A g : ValueOf(aig, w, g, v) = ValueOf(aig, w, f, v)
  <1>1. DefinedApart(aig) /\ aig.maxvar \in Nat
    BY GraphApart, GatesAre
  <1>2. ASSUME v \in GateVars PROVE ValueOf(aig, w, f, v) = Eval(f, v)
    <2>1. types[v].idx \in 1..Len(aig.ands) /\ Gate(v) = aig.ands[types[v].idx] /\ Gate(v).lhs = 2 * v /\ v # 0
      BY <1>2, GateReads DEF Gate
    <2> QED
      BY <1>1, <2>1, GateValue DEF Eval
  <1>3. ASSUME v \notin GateVars
        PROVE  ValueOf(aig, w, f, v) \in BOOLEAN /\ \A g : ValueOf(aig, w, g, v) = ValueOf(aig, w, f, v)
    <2>1. \A i \in 1..Len(aig.ands) : aig.ands[i].lhs # 2 * v
      BY <1>3, GraphApart
    <2>2. CASE v = 0
      BY <1>1, <2>2, NothingValue
    <2>3. ASSUME NEW k \in 1..Len(Sources(aig)), Sources(aig)[k] = 2 * v, v # 0
          PROVE  ValueOf(aig, w, f, v) \in BOOLEAN /\ \A g : ValueOf(aig, w, g, v) = ValueOf(aig, w, f, v)
      <3>1. \A g : ValueOf(aig, w, g, v) = w[k]
        BY <1>1, <2>3, SourceValue
      <3>2. w[k] \in BOOLEAN
        OBVIOUS
      <3> QED
        BY <3>1, <3>2
    <2>4. CASE \A k \in 1..Len(Sources(aig)) : Sources(aig)[k] # 2 * v
      <3>1. \A g : ValueOf(aig, w, g, v) = FALSE
        BY <1>1, <2>1, <2>4, NothingValue
      <3> QED
        BY <3>1
    <2> QED
      BY <2>2, <2>3, <2>4
  <1> QED
    BY <1>2, <1>3

\* The equations of a graph without a cycle have a solution.
LEMMA ValuesExist ==
    ASSUME Sound, NEW w \in [1..Len(Sources(aig)) -> BOOLEAN]
    PROVE  Solves(aig, w, Values(aig, w))
  <1> DEFINE X == 0..aig.maxvar
             F == [X -> BOOLEAN]
             E == [e \in GateVars \X F |-> Eval(e[2], e[1])]
             none == [v \in X |-> FALSE]
             base == [v \in X |-> IF v \in GateVars THEN FALSE ELSE ValueOf(aig, w, none, v)]
  <1>1. GraphPhase /\ Acyclic /\ GateVars \in SUBSET X /\ 0 \notin GateVars
    BY GatesAre DEF Sound
  <1>2. Inputs \in [GateVars -> SUBSET X]
    <2>1. \A v \in GateVars : Var(Gate(v).rhs0) \in X /\ Var(Gate(v).rhs1) \in X
      BY <1>1, GateReads
    <2> QED
      BY <2>1 DEF Inputs
  <1>3. IsFiniteSet(GateVars)
    BY <1>1, GatesAndAnds
  <1>4. NoCycle(Inputs, GateVars)
    <2>1. \A v \in GateVars : Reads[v] = Inputs[v] \ {0}
      BY DEF Reads, Fanin, Inputs
    <2>2. NoCycle(Reads, GateVars)
      BY <1>1, AcyclicMeans
    <2>3. \A S \in SUBSET GateVars : \A v \in S : Reads[v] \cap S = {} => Inputs[v] \cap S = {}
      BY <1>1, <2>1
    <2> QED
      BY <2>2, <2>3 DEF NoCycle
  <1>5. \A v : \A f : Eval(f, v) \in BOOLEAN
    BY DEF Eval
  <1>6. E \in [GateVars \X F -> BOOLEAN] /\ \A v \in GateVars : \A f \in F : E[<<v, f>>] = Eval(f, v)
    BY <1>5
  <1>7. ASSUME NEW v \in X PROVE base[v] \in BOOLEAN /\ (v \notin GateVars => base[v] = ValueOf(aig, w, none, v))
    BY <1>1, OtherValues
  <1>8. base \in F
    BY <1>7
  <1> HIDE DEF E, base, none
  <1>9. Local(E, GateVars, Inputs, F)
    <2> SUFFICES ASSUME NEW v \in GateVars, NEW f \in F, NEW g \in F, \A u \in Inputs[v] : f[u] = g[u]
                 PROVE  E[<<v, f>>] = E[<<v, g>>]
      BY DEF Local
    <2>1. f[Var(Gate(v).rhs0)] = g[Var(Gate(v).rhs0)] /\ f[Var(Gate(v).rhs1)] = g[Var(Gate(v).rhs1)]
      BY DEF Inputs
    <2>2. Eval(f, v) = Eval(g, v)
      BY <2>1 DEF Eval, Holds
    <2> QED
      BY <1>6, <2>2
  <1>10. Setting(X, BOOLEAN, F, GateVars, Inputs, E)
    BY <1>1, <1>2, <1>6, <1>9 DEF Setting
  <1> HIDE DEF F
  <1>11. PICK f \in F : Evaluates(f, GateVars, GateVars, X, base, E)
    BY <1>3, <1>4, <1>8, <1>10, EvaluatedWithoutCycle
  <1>12. ASSUME NEW v \in X PROVE f[v] = ValueOf(aig, w, f, v)
    <2>1. CASE v \in GateVars
      <3>1. f[v] = Eval(f, v)
        BY <1>6, <1>11, <2>1 DEF Evaluates
      <3>2. ValueOf(aig, w, f, v) = Eval(f, v)
        BY <1>1, <2>1, OtherValues
      <3> QED
        BY <3>1, <3>2
    <2>2. CASE v \notin GateVars
      <3>1. f[v] = ValueOf(aig, w, none, v)
        BY <1>7, <1>11, <2>2 DEF Evaluates
      <3>2. ValueOf(aig, w, none, v) = ValueOf(aig, w, f, v)
        BY <1>1, <2>2, OtherValues
      <3> QED
        BY <3>1, <3>2
    <2> QED
      BY <2>1, <2>2
  <1>13. Solves(aig, w, f)
    <2>1. f = [v \in X |-> f[v]]
      BY <1>11 DEF F
    <2> QED
      BY <1>12, <2>1 DEF Solves
  <1> QED
    BY <1>13, ValuesSolve

\* Of two numbers one is the larger (RecodedAnd swaps the operands if need be).
LEMMA MaxMinOfTwo ==
    ASSUME NEW x \in Nat, NEW y \in Nat
    PROVE  \/ Max({x, y}) = x /\ Min({x, y}) = y
           \/ Max({x, y}) = y /\ Min({x, y}) = x
  <1> DEFINE pair == {x, y}
             p == Max(pair)
             q == Min(pair)
  <1>1. pair \in SUBSET Nat /\ pair # {} /\ IsFiniteSet(pair)
    <2>1. IsFiniteSet({x}) /\ IsFiniteSet({y})
      BY FS_Singleton
    <2>2. IsFiniteSet({x} \cup {y}) /\ pair = {x} \cup {y}
      BY <2>1, FS_Union
    <2> QED
      BY <2>2
  <1>2. p \in pair /\ q \in pair /\ (\A e \in pair : e <= p) /\ \A e \in pair : q <= e
    BY <1>1, MaxOf, MinOf
  <1> HIDE DEF p, q
  <1>3. (p = x /\ q = y) \/ (p = y /\ q = x)
    BY <1>2
  <1> QED
    BY <1>3 DEF p, q

\* Two solutions of the equations of a graph whose gates read smaller variables are equal.
LEMMA OneSolution ==
    ASSUME NEW b, b.maxvar \in Nat, DefinedApart(b), NEW w, NEW f, NEW g, Solves(b, w, f), Solves(b, w, g),
           \A i \in 1..Len(b.ands) : \A u \in Nat : b.ands[i].lhs = 2 * u =>
             Var(b.ands[i].rhs0) \in 0..(u - 1) /\ Var(b.ands[i].rhs1) \in 0..(u - 1)
    PROVE  \A u \in 0..b.maxvar : f[u] = g[u]
  <1> DEFINE T == {u \in 0..b.maxvar : f[u] # g[u]}
  <1> SUFFICES ASSUME T # {} PROVE FALSE
    OBVIOUS
  <1>1. T \in SUBSET Nat
    OBVIOUS
  <1>2. PICK u \in T : \A k \in T : u <= k
    <2> HIDE DEF T
    <2> QED
      BY <1>1, LeastNatural
  <1>3. u \in Nat /\ u \in 0..b.maxvar /\ f[u] # g[u]
    BY <1>1, <1>2
  <1>4. f[u] = ValueOf(b, w, f, u) /\ g[u] = ValueOf(b, w, g, u)
    <2>1. \A h : Solves(b, w, h) => h[u] = ValueOf(b, w, h, u)
      BY <1>3 DEF Solves
    <2> QED
      BY <2>1
  <1>5. ASSUME NEW k \in 1..Len(Sources(b)), u # 0, Sources(b)[k] = 2 * u PROVE FALSE
    BY <1>3, <1>4, <1>5, SourceValue
  <1>6. ASSUME NEW i \in 1..Len(b.ands), u # 0, b.ands[i].lhs = 2 * u PROVE FALSE
    <2> DEFINE x == Var(b.ands[i].rhs0)
               y == Var(b.ands[i].rhs1)
    <2>1. x \in 0..(u - 1) /\ y \in 0..(u - 1)
      BY <1>3, <1>6
    <2> HIDE DEF x, y
    <2>2. x \in 0..b.maxvar /\ y \in 0..b.maxvar /\ ~(u <= x) /\ ~(u <= y)
      BY <1>3, <2>1
    <2>3. f[x] = g[x] /\ f[y] = g[y]
      BY <1>2, <2>2
    <2>4. Holds(f, b.ands[i].rhs0) = Holds(g, b.ands[i].rhs0) /\ Holds(f, b.ands[i].rhs1) = Holds(g, b.ands[i].rhs1)
      BY <2>3 DEF Holds, x, y
    <2>5. /\ ValueOf(b, w, f, u) = (Holds(f, b.ands[i].rhs0) /\ Holds(f, b.ands[i].rhs1))
          /\ ValueOf(b, w, g, u) = (Holds(g, b.ands[i].rhs0) /\ Holds(g, b.ands[i].rhs1))
      BY <1>6, GateValue
    <2> QED
      BY <1>3, <1>4, <2>4, <2>5
  <1>7. ValueOf(b, w, f, u) = FALSE /\ ValueOf(b, w, g, u) = FALSE
    BY <1>5, <1>6, NothingValue
  <1> QED
    BY <1>3, <1>4, <1>7

\* f has at the new number of a variable the value that e has at the variable.
Carries(m, f, e) ==
    f[0] = e[0] /\ \A v \in 1..aig.maxvar : \A h \in 1..m : code[v] = 2 * h => f[h] = e[v]
HasCode(lit) == lit < 2 \/ code[Var(lit)] # 0

\* A literal holds in the new graph as it did in the old one: Recode keeps the sign.
LEMMA LiteralCarried ==
    ASSUME Sound, NEW m \in Nat, Coded(m), NEW f, NEW e, Carries(m, f, e),
           NEW lit \in LitsOf(aig), HasCode(lit)
    PROVE  Holds(f, Recode(lit)) = Holds(e, lit)
  <1>1. GraphPhase /\ lit \in Nat /\ Var(lit) \in 0..aig.maxvar /\ aig.maxvar \in Nat
    BY LitVar DEF Sound
  <1>2. lit = 2 * Var(lit) + (lit % 2) /\ lit % 2 \in {0, 1} /\ Var(lit) \in Nat
    BY <1>1, Literals
  <1>3. CASE lit < 2
    <2>1. Recode(lit) = lit
      BY <1>3 DEF Recode
    <2>2. Var(lit) = 0
      BY <1>2, <1>3
    <2> QED
      BY <2>1, <2>2 DEF Holds, Carries
  <1>4. CASE ~(lit < 2)
    <2> DEFINE v == Var(lit)
               r == lit % 2
    <2>1. v # 0 /\ v \in 1..aig.maxvar /\ code[v] # 0
      BY <1>1, <1>2, <1>4 DEF HasCode
    <2>2. PICK h \in 0..m : code[v] = 2 * h
      BY <1>1, RecodedLits
    <2>3. h \in 1..m /\ h \in Nat
      BY <2>1, <2>2
    <2>4. Recode(lit) = 2 * h + r
      BY <1>4, <2>1, <2>2 DEF Recode
    <2>5. \A k \in Nat : \A s \in {0, 1} : (2 * k + s) \div 2 = k /\ (2 * k + s) % 2 = s
      OBVIOUS
    <2>6. Var(Recode(lit)) = h /\ Recode(lit) % 2 = r
      <3>1. r \in {0, 1}
        BY <1>2
      <3> HIDE DEF r
      <3> QED
        BY <2>3, <2>4, <2>5, <3>1 DEF Var
    <2>7. f[h] = e[v]
      BY <2>1, <2>2, <2>3 DEF Carries
    <2> QED
      BY <2>6, <2>7 DEF Holds, IsNeg
  <1> QED
    BY <1>3, <1>4

\* The reads of a gate that has a number.
LEMMA ReadsHaveCodes ==
    ASSUME Sound, NEW m \in Nat, Coded(m), NEW i \in 1..Len(aig.ands), code[Var(aig.ands[i].lhs)] # 0,
           NEW lit \in {aig.ands[i].rhs0, aig.ands[i].rhs1}, NEW u \in Nat, code[Var(aig.ands[i].lhs)] = 2 * u
    PROVE  lit \in LitsOf(aig) /\ HasCode(lit) /\ Var(Recode(lit)) \in 0..(u - 1)
  <1> DEFINE v == Var(aig.ands[i].lhs)
  <1>1. GraphPhase /\ IsGraph(aig) /\ v \in GateVars /\ v \in 1..aig.maxvar /\ Gate(v) = aig.ands[i]
    <2>1. GraphPhase /\ IsGraph(aig)
      BY DEF Sound, GraphPhase, GraphOK
    <2>2. v \in GateVars /\ types[v].idx = i
      BY <2>1, GatesAndAnds
    <2> QED
      BY <2>1, <2>2, GateReads DEF Gate
  <1>2. lit \in LitsOf(aig) /\ lit \in Nat /\ Var(lit) \in 0..aig.maxvar
    BY <1>1, GraphEntries, LitVar
  <1>3. lit = 2 * Var(lit) + (lit % 2) /\ lit % 2 \in {0, 1} /\ Var(lit) \in Nat
    BY <1>2, Literals
  <1>4. u >= 1
    <2>1. u # 0
      OBVIOUS
    <2> QED
      BY <2>1
  <1> HIDE DEF v
  <1>5. CASE lit < 2
    <2>1. Recode(lit) = lit
      BY <1>5 DEF Recode
    <2>2. Var(lit) = 0
      BY <1>3, <1>5
    <2>3. 0 \in 0..(u - 1)
      BY <1>4
    <2> QED
      BY <1>2, <1>5, <2>1, <2>2, <2>3 DEF HasCode
  <1>6. CASE ~(lit < 2)
    <2> DEFINE x == Var(lit)
               r == lit % 2
    <2>1. x # 0
      BY <1>3, <1>6
    <2>2. x \in Reads[v]
      BY <1>1, <2>1 DEF Reads, Fanin
    <2>3. code[x] # 0 /\ code[x] < code[v]
      BY <1>1, <2>2 DEF Coded, Numbering, v
    <2>4. PICK h \in 0..m : code[x] = 2 * h
      BY <1>2, RecodedLits
    <2>5. Recode(lit) = 2 * h + r /\ r \in {0, 1}
      BY <1>3, <1>6, <2>3, <2>4 DEF Recode
    <2>6. h \in Nat /\ h < u
      BY <2>3, <2>4 DEF v
    <2>7. \A k \in Nat : \A s \in {0, 1} : (2 * k + s) \div 2 = k
      OBVIOUS
    <2> HIDE DEF r
    <2>8. Var(Recode(lit)) = h
      BY <2>5, <2>6, <2>7 DEF Var
    <2>9. h \in 0..(u - 1)
      BY <2>6
    <2> QED
      BY <1>2, <2>3, <2>8, <2>9 DEF HasCode
  <1> QED
    BY <1>5, <1>6

\* Every number belongs to one variable.
LEMMA CodesDiffer ==
    ASSUME Sound, NEW m \in Nat, Coded(m), NEW h \in 1..m
    PROVE  /\ \E v \in 1..aig.maxvar : code[v] = 2 * h
           /\ \A v \in 1..aig.maxvar : \A x \in 1..aig.maxvar : code[v] = 2 * h /\ code[x] = 2 * h => v = x
  <1> DEFINE S == Sources(aig)
             n == Len(S)
             M == aig.maxvar
  <1>1. Variables(M, S, GateVars, Reads) /\ Numbering(0..M, S, GateVars, Reads, code, m)
    BY VariablesAre DEF Sound, Coded
  <1> HIDE DEF S, M
  <1>2. n \in Nat /\ n <= m /\ M \in Nat /\ GateVars \in SUBSET (1..M)
    BY <1>1 DEF Variables, Numbering
  <1>3. /\ \A k \in 1..n : code[Var(S[k])] = 2 * k /\ Var(S[k]) \in 1..M
        /\ \A j \in (n + 1)..m : \E v \in GateVars : code[v] = 2 * j
    BY <1>1 DEF Variables, Numbering
  <1>4. \A v \in 1..M : code[v] # 0 =>
          \/ \E k \in 1..n : S[k] = 2 * v /\ code[v] = 2 * k
          \/ v \in GateVars /\ \E j \in (n + 1)..m : code[v] = 2 * j
    <2>1. \A v \in 1..M : v \in 0..M
      BY <1>2
    <2> QED
      BY <1>1, <2>1 DEF Numbering
  <1>5. \A v \in GateVars : \A x \in GateVars : code[v] # 0 /\ code[v] = code[x] => v = x
    BY <1>1 DEF Numbering
  <1> HIDE DEF n
  <1>6. \E v \in 1..M : code[v] = 2 * h
    <2>1. CASE h <= n
      <3>1. h \in 1..n
        BY <1>2, <2>1
      <3> QED
        BY <1>3, <3>1
    <2>2. CASE ~(h <= n)
      <3>1. h \in (n + 1)..m
        BY <1>2, <2>2
      <3> QED
        BY <1>2, <1>3, <3>1
    <2> QED
      BY <2>1, <2>2
  <1>7. ASSUME NEW v \in 1..M, NEW x \in 1..M, code[v] = 2 * h, code[x] = 2 * h PROVE v = x
    <2>1. 2 * h # 0
      OBVIOUS
    <2>2. \A j \in Nat : 2 * j = 2 * h => j = h
      OBVIOUS
    <2>3. CASE h <= n
      <3>1. ASSUME NEW y \in 1..M, code[y] = 2 * h PROVE S[h] = 2 * y
        <4>1. ASSUME NEW j \in (n + 1)..m, code[y] = 2 * j PROVE FALSE
          <5>1. j = h
            BY <1>2, <2>2, <3>1, <4>1
          <5> QED
            BY <1>2, <2>3, <4>1, <5>1
        <4>2. PICK k \in 1..n : S[k] = 2 * y /\ code[y] = 2 * k
          BY <1>4, <2>1, <3>1, <4>1
        <4>3. k = h
          BY <1>2, <2>2, <3>1, <4>2
        <4> QED
          BY <4>2, <4>3
      <3>2. S[h] = 2 * v /\ S[h] = 2 * x
        BY <1>7, <3>1
      <3> QED
        BY <1>2, <3>2
    <2>4. CASE ~(h <= n)
      <3>1. ASSUME NEW y \in 1..M, code[y] = 2 * h PROVE y \in GateVars
        <4>1. ASSUME NEW k \in 1..n, code[y] = 2 * k PROVE FALSE
          <5>1. k = h
            BY <1>2, <2>2, <3>1, <4>1
          <5> QED
            BY <1>2, <2>4, <4>1, <5>1
        <4> QED
          BY <1>4, <2>1, <3>1, <4>1
      <3> QED
        BY <1>5, <1>7, <2>1, <3>1
    <2> QED
      BY <2>3, <2>4
  <1> QED
    BY <1>6, <1>7 DEF M

\* The values of the old variables, at their new numbers, solve the equations of the new graph.
LEMMA CarriedSolve ==
    ASSUME Sound, ResetsWithin, NEW m \in Nat, Coded(m), NEW w, NEW e, Solves(aig, w, e),
           NEW b, b = RecodedGraph(aig), NEW f, DOMAIN f = 0..m, Carries(m, f, e)
    PROVE  f = [v \in 0..b.maxvar |-> f[v]] => Solves(b, w, f)
  <1> DEFINE n == Len(Sources(aig))
  <1>1. /\ b.maxvar = m /\ IsGraph(b) /\ b.ands = RecodedAnds(aig)
        /\ Len(b.inputs) = Len(aig.inputs) /\ Len(b.latches) = Len(aig.latches)
    BY RecodedIsGraph
  <1>2. GraphPhase /\ IsGraph(aig) /\ aig.maxvar \in Nat /\ DefinedApart(aig)
    BY GraphApart, GatesAre DEF Sound, GraphPhase, GraphOK
  <1>3. IsReencoded(b) /\ DefinedApart(b)
    BY <1>1, RecodedForm, ReencodedApart
  <1>4. n \in Nat /\ n <= m /\ n = Len(aig.inputs) + Len(aig.latches) /\ Len(Sources(b)) = n
    <2>1. n \in Nat /\ n <= m
      BY RecodedLits
    <2>2. n = Len(aig.inputs) + Len(aig.latches)
      BY <1>2, DefinedInTurn
    <2>3. Len(Sources(b)) = Len(b.inputs) + Len(b.latches)
      BY <1>1, DefinedInTurn
    <2> QED
      BY <1>1, <2>1, <2>2, <2>3
  <1>5. \A k \in 1..n : Sources(b)[k] = 2 * k
    BY <1>1, <1>3, <1>4 DEF IsReencoded
  <1>6. /\ Len(b.ands) = m - n
        /\ \A k \in 1..(m - n) :
             /\ b.ands[k].lhs = 2 * (n + k)
             /\ \E i \in 1..Len(aig.ands) : b.ands[k] = RecodedAnd(aig.ands[i]) /\ code[Var(aig.ands[i].lhs)] # 0
    BY <1>1, AndsInOrder
  <1>7. \A v \in 0..aig.maxvar : e[v] = ValueOf(aig, w, e, v)
    BY DEF Solves
  <1>8. \A k \in 1..n : Sources(aig)[k] = 2 * Var(Sources(aig)[k]) /\ Var(Sources(aig)[k]) \in 1..aig.maxvar
                        /\ code[Var(Sources(aig)[k])] = 2 * k
    <2>1. Variables(aig.maxvar, Sources(aig), GateVars, Reads)
          /\ Numbering(0..aig.maxvar, Sources(aig), GateVars, Reads, code, m)
      BY <1>2, VariablesAre DEF Coded
    <2> QED
      BY <2>1 DEF Variables, Numbering
  <1> HIDE DEF n
  <1>9. ASSUME NEW u \in 0..m PROVE f[u] = ValueOf(b, w, f, u)
    <2>1. CASE u = 0
      <3>1. 0 \in 0..aig.maxvar
        BY <1>2
      <3>2. e[0] = FALSE
        BY <1>2, <1>7, <3>1, NothingValue
      <3>3. ValueOf(b, w, f, u) = FALSE
        BY <1>3, <2>1, NothingValue
      <3> QED
        BY <2>1, <3>2, <3>3 DEF Carries
    <2>2. CASE u \in 1..n
      <3> DEFINE v == Var(Sources(aig)[u])
      <3>1. Sources(aig)[u] = 2 * v /\ v \in 1..aig.maxvar /\ code[v] = 2 * u
        BY <1>8, <2>2
      <3> HIDE DEF v
      <3>2. u \in 1..m /\ v \in 0..aig.maxvar /\ v # 0 /\ u # 0
        BY <1>2, <1>4, <2>2, <3>1
      <3>3. f[u] = e[v]
        BY <3>1, <3>2 DEF Carries
      <3>4. ValueOf(aig, w, e, v) = w[u]
        <4>1. u \in 1..Len(Sources(aig))
          BY <2>2 DEF n
        <4> QED
          BY <1>2, <3>1, <3>2, <4>1, SourceValue
      <3>5. ValueOf(b, w, f, u) = w[u]
        <4>1. u \in 1..Len(Sources(b)) /\ Sources(b)[u] = 2 * u
          BY <1>4, <1>5, <2>2
        <4> QED
          BY <1>3, <3>2, <4>1, SourceValue
      <3> QED
        BY <1>7, <3>2, <3>3, <3>4, <3>5
    <2>3. CASE u \in (n + 1)..m
      <3> DEFINE k == u - n
      <3>1. k \in 1..(m - n) /\ n + k = u /\ u \in 1..m /\ u # 0 /\ u \in Nat
        BY <1>4, <2>3
      <3> HIDE DEF k
      <3>2. PICK i \in 1..Len(aig.ands) : b.ands[k] = RecodedAnd(aig.ands[i]) /\ code[Var(aig.ands[i].lhs)] # 0
        BY <1>6, <3>1
      <3> DEFINE h == aig.ands[i]
                 v == Var(h.lhs)
      <3>3. v \in GateVars /\ v \in 1..aig.maxvar /\ h.lhs = 2 * v /\ v # 0 /\ v \in 0..aig.maxvar
        <4>1. v \in GateVars /\ Gate(v) = h
          BY <1>2, GatesAndAnds DEF Gate
        <4> QED
          BY <1>2, <4>1, GateReads
      <3>4. code[v] = 2 * u
        <4>1. RecodedAnd(h).lhs = Recode(h.lhs)
          BY DEF RecodedAnd
        <4>2. Recode(2 * v) = code[v]
          BY <3>3, RecodedLits
        <4>3. b.ands[k].lhs = 2 * (n + k)
          BY <1>6, <3>1
        <4> HIDE DEF h, v
        <4> QED
          BY <3>1, <3>2, <3>3, <4>1, <4>2, <4>3 DEF h
      <3>5. f[u] = e[v]
        BY <3>1, <3>3, <3>4 DEF Carries
      <3>6. ValueOf(aig, w, e, v) = (Holds(e, h.rhs0) /\ Holds(e, h.rhs1))
        BY <1>2, <3>3, GateValue
      <3>7. /\ h.rhs0 \in LitsOf(aig) /\ HasCode(h.rhs0) /\ h.rhs1 \in LitsOf(aig) /\ HasCode(h.rhs1)
        BY <3>1, <3>2, <3>4, ReadsHaveCodes
      <3>8. Holds(f, Recode(h.rhs0)) = Holds(e, h.rhs0) /\ Holds(f, Recode(h.rhs1)) = Holds(e, h.rhs1)
        BY <3>7, LiteralCarried
      <3> DEFINE x == Recode(h.rhs0)
                 y == Recode(h.rhs1)
      <3>9. x \in Nat /\ y \in Nat
        <4>1. x \in 0..(2 * m + 1) /\ y \in 0..(2 * m + 1)
          BY <3>7, RecodedLits
        <4> HIDE DEF x, y
        <4> QED
          BY <4>1
      <3>10. b.ands[k].rhs0 = Max({x, y}) /\ b.ands[k].rhs1 = Min({x, y})
        BY <3>2 DEF RecodedAnd
      <3>11. ValueOf(b, w, f, u) = (Holds(f, b.ands[k].rhs0) /\ Holds(f, b.ands[k].rhs1))
        BY <1>3, <1>6, <3>1, GateValue
      <3> HIDE DEF x, y, h, v
      <3>12. \/ b.ands[k].rhs0 = x /\ b.ands[k].rhs1 = y
             \/ b.ands[k].rhs0 = y /\ b.ands[k].rhs1 = x
        BY <3>9, <3>10, MaxMinOfTwo
      <3>13. (Holds(f, b.ands[k].rhs0) /\ Holds(f, b.ands[k].rhs1)) <=> (Holds(f, x) /\ Holds(f, y))
        BY <3>12
      <3>14. (Holds(f, x) /\ Holds(f, y)) <=> (Holds(e, h.rhs0) /\ Holds(e, h.rhs1))
        BY <3>8 DEF x, y
      <3>15. e[v] = (Holds(e, h.rhs0) /\ Holds(e, h.rhs1))
        BY <1>7, <3>3, <3>6
      <3> QED
        BY <3>5, <3>11, <3>13, <3>14, <3>15
    <2>4. u = 0 \/ u \in 1..n \/ u \in (n + 1)..m
      BY <1>4
    <2> QED
      BY <2>1, <2>2, <2>3, <2>4
  <1> QED
    BY <1>1, <1>9 DEF Solves

\* The gates of the new graph read smaller variables.
LEMMA NewReadsSmaller ==
    ASSUME Sound, ResetsWithin, NEW m \in Nat, Coded(m), NEW b, b = RecodedGraph(aig),
           NEW k \in 1..Len(b.ands), NEW u \in Nat, b.ands[k].lhs = 2 * u
    PROVE  Var(b.ands[k].rhs0) \in 0..(u - 1) /\ Var(b.ands[k].rhs1) \in 0..(u - 1)
  <1> DEFINE n == Len(Sources(aig))
  <1>1. b.ands = RecodedAnds(aig)
    BY RecodedIsGraph
  <1>2. /\ Len(b.ands) = m - n
        /\ \A j \in 1..(m - n) : \E i \in 1..Len(aig.ands) : b.ands[j] = RecodedAnd(aig.ands[i]) /\ code[Var(aig.ands[i].lhs)] # 0
    BY <1>1, AndsInOrder
  <1> HIDE DEF n
  <1>3. PICK i \in 1..Len(aig.ands) : b.ands[k] = RecodedAnd(aig.ands[i]) /\ code[Var(aig.ands[i].lhs)] # 0
    BY <1>2
  <1> DEFINE h == aig.ands[i]
             v == Var(h.lhs)
             x == Recode(h.rhs0)
             y == Recode(h.rhs1)
  <1>4. GraphPhase /\ v \in 1..aig.maxvar /\ h.lhs = 2 * v
    <2>1. GraphPhase
      BY DEF Sound
    <2>2. v \in GateVars /\ Gate(v) = h
      BY <2>1, GatesAndAnds DEF Gate
    <2> QED
      BY <2>1, <2>2, GateReads
  <1>5. code[v] = 2 * u
    <2>1. RecodedAnd(h).lhs = Recode(h.lhs)
      BY DEF RecodedAnd
    <2>2. Recode(2 * v) = code[v]
      BY <1>4, RecodedLits
    <2> HIDE DEF h, v
    <2> QED
      BY <1>3, <1>4, <2>1, <2>2 DEF h
  <1>6. /\ h.rhs0 \in LitsOf(aig) /\ Var(x) \in 0..(u - 1)
        /\ h.rhs1 \in LitsOf(aig) /\ Var(y) \in 0..(u - 1)
    BY <1>3, <1>5, ReadsHaveCodes
  <1>7. x \in Nat /\ y \in Nat
    <2>1. x \in 0..(2 * m + 1) /\ y \in 0..(2 * m + 1)
      BY <1>6, RecodedLits
    <2> HIDE DEF x, y
    <2> QED
      BY <2>1
  <1>8. b.ands[k].rhs0 = Max({x, y}) /\ b.ands[k].rhs1 = Min({x, y})
    BY <1>3 DEF RecodedAnd
  <1> HIDE DEF x, y, h, v
  <1>9. \/ b.ands[k].rhs0 = x /\ b.ands[k].rhs1 = y
        \/ b.ands[k].rhs0 = y /\ b.ands[k].rhs1 = x
    BY <1>7, <1>8, MaxMinOfTwo
  <1> QED
    BY <1>6, <1>9

\* The values of the new graph are those of the old one, at the new numbers: the equations of
\* the new graph have one solution.
LEMMA RecodedValues ==
    ASSUME Sound, ResetsWithin, NEW m \in Nat, Coded(m), NEW w \in [1..Len(Sources(aig)) -> BOOLEAN],
           NEW b, b = RecodedGraph(aig)
    PROVE  Carries(m, Values(b, w), Values(aig, w))
  <1> DEFINE e == Values(aig, w)
             g == Values(b, w)
             dec(u) == CHOOSE v \in 1..aig.maxvar : code[v] = 2 * u
             f == [u \in 0..m |-> IF u = 0 THEN e[0] ELSE e[dec(u)]]
  <1>1. Solves(aig, w, e)
    BY ValuesExist
  <1> HIDE DEF e, g
  <1>2. \A u \in 1..m : dec(u) \in 1..aig.maxvar /\ code[dec(u)] = 2 * u
    BY CodesDiffer
  <1> HIDE DEF dec
  <1>3. /\ f[0] = e[0] /\ \A u \in 1..m : f[u] = e[dec(u)]
        /\ f = [u \in 0..m |-> f[u]] /\ DOMAIN f = 0..m
    OBVIOUS
  <1> HIDE DEF f
  <1>4. Carries(m, f, e)
    <2> SUFFICES ASSUME NEW v \in 1..aig.maxvar, NEW h \in 1..m, code[v] = 2 * h PROVE f[h] = e[v]
      BY <1>3 DEF Carries
    <2>1. dec(h) = v
      BY <1>2, CodesDiffer
    <2> QED
      BY <1>3, <2>1
  <1>5. b.maxvar = m /\ IsGraph(b) /\ DefinedApart(b)
    BY RecodedIsGraph, RecodedForm, ReencodedApart
  <1>6. Solves(b, w, f)
    BY <1>1, <1>3, <1>4, <1>5, CarriedSolve
  <1>7. Solves(b, w, g)
    BY <1>6, ValuesSolve DEF g
  <1>8. \A u \in 0..m : f[u] = g[u]
    <2>1. \A i \in 1..Len(b.ands) : \A u \in Nat : b.ands[i].lhs = 2 * u =>
             Var(b.ands[i].rhs0) \in 0..(u - 1) /\ Var(b.ands[i].rhs1) \in 0..(u - 1)
      BY NewReadsSmaller
    <2>2. \A u \in 0..b.maxvar : f[u] = g[u]
      BY <1>5, <1>6, <1>7, <2>1, OneSolution
    <2> QED
      BY <1>5, <2>2
  <1>9. Carries(m, g, e)
    <2>1. \A h \in 1..m : h \in 0..m
      OBVIOUS
    <2>2. 0 \in 0..m
      OBVIOUS
    <2> QED
      BY <1>4, <1>8, <2>1, <2>2 DEF Carries
  <1> QED
    BY <1>9 DEF e, g

\* Graph b is a, but for the symbols of other kinds and for the names.
SameAsFar(a, b, kinds) ==
    /\ a.maxvar = b.maxvar /\ a.inputs = b.inputs /\ a.latches = b.latches /\ a.ands = b.ands
    /\ \A kind \in kinds : a.symbols[kind] = b.symbols[kind]
\* The entries of b hold as those of a do.
SameEntries(a, b, kinds, va, vb) ==
    /\ \A k \in 1..Len(a.latches) : Holds(va, a.latches[k].next) = Holds(vb, b.latches[k].next)
    /\ \A kind \in kinds : \A k \in 1..Len(a.symbols[kind]) :
         /\ Len(a.symbols[kind][k]) = Len(b.symbols[kind][k])
         /\ \A m \in 1..Len(a.symbols[kind][k]) :
              Holds(va, a.symbols[kind][k][m]) = Holds(vb, b.symbols[kind][k][m])
SameResets(a, b) ==
    \A k \in 1..Len(a.latches) :
      IF a.latches[k].reset <= 1 THEN b.latches[k].reset = a.latches[k].reset
      ELSE /\ b.latches[k].reset > 1
           /\ a.latches[k].reset = a.latches[k].lit => b.latches[k].reset = b.latches[k].lit
\* How many entries there are.
SameSizes(a, b, kinds) ==
    /\ Len(a.inputs) = Len(b.inputs) /\ Len(a.latches) = Len(b.latches)
    /\ \A kind \in kinds : Len(a.symbols[kind]) = Len(b.symbols[kind])

\* SameFunctions in terms of the parts above.
LEMMA SameFunctionsAre ==
    ASSUME NEW a, NEW b, NEW kinds, SameSizes(a, b, kinds), SameResets(a, b),
           \A w \in [1..(Len(a.inputs) + Len(a.latches)) -> BOOLEAN] :
             SameEntries(a, b, kinds, Values(a, w), Values(b, w))
    PROVE  SameFunctions(a, b, kinds)
  <1>1. ASSUME NEW w \in [1..(Len(a.inputs) + Len(a.latches)) -> BOOLEAN]
        PROVE  LET va == Values(a, w)  vb == Values(b, w)
                   same(la, lb) == (va[Var(la)] # IsNeg(la)) <=> (vb[Var(lb)] # IsNeg(lb)) IN
               /\ \A k \in 1..Len(a.latches) : same(a.latches[k].next, b.latches[k].next)
               /\ \A kind \in kinds : \A k \in 1..Len(a.symbols[kind]) :
                    /\ Len(a.symbols[kind][k]) = Len(b.symbols[kind][k])
                    /\ \A m \in 1..Len(a.symbols[kind][k]) :
                         same(a.symbols[kind][k][m], b.symbols[kind][k][m])
    <2> DEFINE va == Values(a, w)
               vb == Values(b, w)
    <2>1. SameEntries(a, b, kinds, va, vb)
      OBVIOUS
    <2> HIDE DEF va, vb
    <2>2. \A la, lb : Holds(va, la) = Holds(vb, lb) => ((va[Var(la)] # IsNeg(la)) <=> (vb[Var(lb)] # IsNeg(lb)))
      BY DEF Holds
    <2>3. \A k \in 1..Len(a.latches) :
            (va[Var(a.latches[k].next)] # IsNeg(a.latches[k].next))
              <=> (vb[Var(b.latches[k].next)] # IsNeg(b.latches[k].next))
      BY <2>1, <2>2 DEF SameEntries
    <2>4. ASSUME NEW kind \in kinds, NEW k \in 1..Len(a.symbols[kind])
          PROVE  /\ Len(a.symbols[kind][k]) = Len(b.symbols[kind][k])
                 /\ \A m \in 1..Len(a.symbols[kind][k]) :
                      (va[Var(a.symbols[kind][k][m])] # IsNeg(a.symbols[kind][k][m]))
                        <=> (vb[Var(b.symbols[kind][k][m])] # IsNeg(b.symbols[kind][k][m]))
      <3>1. /\ Len(a.symbols[kind][k]) = Len(b.symbols[kind][k])
            /\ \A m \in 1..Len(a.symbols[kind][k]) :
                 Holds(va, a.symbols[kind][k][m]) = Holds(vb, b.symbols[kind][k][m])
        BY <2>1 DEF SameEntries
      <3> QED
        BY <2>2, <3>1
    <2> QED
      BY <2>3, <2>4 DEF va, vb
  <1> QED
    BY <1>1 DEF SameFunctions, SameSizes, SameResets

\* The values do not depend on the symbols.
LEMMA SameValues ==
    ASSUME NEW a, NEW b, NEW kinds, SameAsFar(a, b, kinds), NEW w
    PROVE  Values(a, w) = Values(b, w)
  BY DEF SameAsFar, Values, LatchLits

\* A graph that is left alone.
LEMMA SameAsFarSameFunctions ==
    ASSUME NEW a, NEW b, NEW kinds, SameAsFar(a, b, kinds), \A k \in 1..Len(a.latches) : a.latches[k].reset \in Nat
    PROVE  SameFunctions(a, b, kinds)
  <1>1. SameSizes(a, b, kinds)
    BY DEF SameAsFar, SameSizes
  <1>2. SameResets(a, b)
    <2> SUFFICES ASSUME NEW k \in 1..Len(a.latches), ~(a.latches[k].reset <= 1)
                 PROVE  a.latches[k].reset > 1
      BY DEF SameResets, SameAsFar
    <2>1. a.latches[k].reset \in Nat
      OBVIOUS
    <2> QED
      BY <2>1
  <1>3. \A w : SameEntries(a, b, kinds, Values(a, w), Values(b, w))
    <2> SUFFICES ASSUME NEW w PROVE SameEntries(a, b, kinds, Values(a, w), Values(b, w))
      OBVIOUS
    <2>1. Values(a, w) = Values(b, w)
      BY SameValues
    <2> QED
      BY <2>1 DEF SameEntries, SameAsFar
  <1> QED
    BY <1>1, <1>2, <1>3, SameFunctionsAre

\* What latches and symbols read has a code when the search is over.
LEMMA EntriesHaveCodes ==
    ASSUME Complete
    PROVE  /\ \A k \in 1..Len(aig.latches) : HasCode(aig.latches[k].next)
           /\ \A kind \in ToSet(Kinds) : \A k \in 1..Len(aig.symbols[kind]) : \A j \in 1..Len(aig.symbols[kind][k]) :
                HasCode(aig.symbols[kind][k][j])
  <1>1. Sound /\ IsGraph(aig)
    BY DEF Complete, RecodePhase, Sound, GraphPhase, GraphOK
  <1>2. ASSUME NEW lit \in ToSet(Starts), lit \in LitsOf(aig), LiteralDefined(lit) PROVE HasCode(lit)
    <2>1. PICK k \in 1..Len(Starts) : lit = Starts[k]
      BY <1>1, StartsAre
    <2>3. lit \in Nat
      BY <1>1, <1>2, LitVar DEF Sound
    <2>4. lit = 2 * Var(lit) + (lit % 2) /\ lit % 2 \in {0, 1}
      BY <2>3, Literals
    <2>5. Var(lit) = 0 \/ code[Var(lit)] # 0
      BY <1>2, <2>1, StartsCoded DEF LiteralDefined
    <2>6. Var(lit) = 0 => lit < 2
      BY <2>4
    <2> QED
      BY <2>5, <2>6 DEF HasCode
  <1>3. /\ \A k \in 1..Len(aig.latches) : aig.latches[k].next \in ToSet(Starts)
        /\ \A lit \in ToSet(SymbolLits(aig)) : lit \in ToSet(Starts)
    BY <1>1, StartsAre
  <1>4. \A kind \in ToSet(Kinds) : \A k \in 1..Len(aig.symbols[kind]) : \A j \in 1..Len(aig.symbols[kind][k]) :
          aig.symbols[kind][k][j] \in ToSet(SymbolLits(aig))
    BY <1>1, SymbolLitsAre
  <1>5. ASSUME NEW k \in 1..Len(aig.latches) PROVE HasCode(aig.latches[k].next)
    <2>1. aig.latches[k].next \in LitsOf(aig) /\ LiteralDefined(aig.latches[k].next)
      BY <1>1, GraphEntries DEF Sound, AllDefined
    <2> QED
      BY <1>2, <1>3, <2>1
  <1>6. ASSUME NEW lit \in ToSet(SymbolLits(aig)) PROVE HasCode(lit)
    <2>1. lit \in LitsOf(aig) /\ LiteralDefined(lit)
      <3>1. SymbolLits(aig) \in Seq(LitsOf(aig))
        BY <1>1, SymbolLitsAre
      <3> QED
        BY <1>1, <3>1, SetOfSeq DEF Sound, AllDefined
    <2> QED
      BY <1>2, <1>3, <2>1
  <1> QED
    BY <1>4, <1>5, <1>6

\* The entries of the new graph are those of the old one, with their new literals.
LEMMA EntriesRecoded ==
    ASSUME Sound, ResetsWithin, NEW m \in Nat, Coded(m), NEW b, b = RecodedGraph(aig)
    PROVE  /\ Len(b.inputs) = Len(aig.inputs) /\ Len(b.latches) = Len(aig.latches)
           /\ \A k \in 1..Len(aig.latches) : /\ b.latches[k].lit = Recode(aig.latches[k].lit)
                                             /\ b.latches[k].next = Recode(aig.latches[k].next)
                                             /\ b.latches[k].reset = RecodeReset(aig.latches[k].reset)
           /\ \A kind \in ToSet(Kinds) :
                /\ Len(b.symbols[kind]) = Len(aig.symbols[kind])
                /\ \A k \in 1..Len(aig.symbols[kind]) :
                     /\ Len(b.symbols[kind][k]) = Len(aig.symbols[kind][k])
                     /\ \A j \in 1..Len(aig.symbols[kind][k]) :
                          b.symbols[kind][k][j] = Recode(aig.symbols[kind][k][j])
  <1>1. IsGraph(aig)
    BY DEF Sound, GraphPhase, GraphOK
  <1>2. /\ Len(b.inputs) = Len(aig.inputs) /\ Len(b.latches) = Len(aig.latches)
        /\ \A k \in 1..Len(b.latches) : /\ b.latches[k].lit = Recode(aig.latches[k].lit)
                                        /\ b.latches[k].next = Recode(aig.latches[k].next)
                                        /\ b.latches[k].reset = RecodeReset(aig.latches[k].reset)
    BY RecodedIsGraph
  <1>3. ASSUME NEW kind \in ToSet(Kinds)
        PROVE  /\ Len(b.symbols[kind]) = Len(aig.symbols[kind])
               /\ \A k \in 1..Len(aig.symbols[kind]) :
                    /\ Len(b.symbols[kind][k]) = Len(aig.symbols[kind][k])
                    /\ \A j \in 1..Len(aig.symbols[kind][k]) :
                         b.symbols[kind][k][j] = Recode(aig.symbols[kind][k][j])
    <2> DEFINE s == aig.symbols[kind]
               N == Len(s)
               row(k) == [j \in 1..Len(s[k]) |-> Recode(s[k][j])]
    <2>1. N \in Nat /\ \A k \in 1..N : Len(s[k]) \in Nat
      BY <1>1, GraphEntries
    <2>2. b.symbols[kind] = [k \in 1..N |-> row(k)]
      BY DEF RecodedGraph
    <2>3. \A k \in 1..N : Len(row(k)) = Len(s[k]) /\ \A j \in 1..Len(s[k]) : row(k)[j] = Recode(s[k][j])
      BY <2>1
    <2> HIDE DEF row, N, s
    <2>4. Len(b.symbols[kind]) = N /\ \A k \in 1..N : b.symbols[kind][k] = row(k)
      BY <2>1, <2>2
    <2> QED
      BY <2>3, <2>4 DEF N, s
  <1> QED
    BY <1>2, <1>3

\* A reset value stays one: a constant as it is, a latch with the latch.
LEMMA ResetsStay ==
    ASSUME Complete, NEW m \in Nat, Coded(m), NEW k \in 1..Len(aig.latches), NEW r, r = aig.latches[k].reset
    PROVE  IF r <= 1 THEN RecodeReset(r) = r
           ELSE RecodeReset(r) > 1 /\ (r = aig.latches[k].lit => RecodeReset(r) = Recode(aig.latches[k].lit))
  <1>1. Sound /\ GraphPhase /\ IsGraph(aig) /\ aig.maxvar \in Nat
    BY GatesAre DEF Complete, RecodePhase, Sound, GraphPhase, GraphOK
  <1>2. r \in LitsOf(aig)
    BY CompleteWithin DEF ResetsWithin
  <1>3. r \in Nat /\ Var(r) \in 0..aig.maxvar
    BY <1>1, <1>2, LitVar
  <1>4. r = 2 * Var(r) + (r % 2) /\ r % 2 \in {0, 1} /\ Var(r) \in Nat
    BY <1>3, Literals
  <1>5. CASE r <= 1
    <2>1. ~(r > 1) /\ r < 2
      BY <1>3, <1>5
    <2> QED
      BY <1>5, <2>1 DEF RecodeReset, Recode
  <1>6. CASE ~(r <= 1)
    <2>1. r > 1 /\ ~(r < 2)
      BY <1>3, <1>6
    <2>2. Var(r) # 0
      BY <1>4, <2>1
    <2>3. CASE types[Var(r)].is = "none"
      <3>1. RecodeReset(r) = r
        BY <2>1, <2>3 DEF RecodeReset
      <3>2. r # aig.latches[k].lit
        <4>1. types[Var(aig.latches[k].lit)].is = "latch"
          BY <1>1 DEF GraphPhase, Corresponds, Placed, Whats, Count, Defined
        <4> QED
          BY <2>3, <4>1
      <3> QED
        BY <1>6, <2>1, <3>1, <3>2
    <2>4. CASE types[Var(r)].is # "none"
      <3>1. PICK i \in 1..Len(Starts) : r = Starts[i]
        BY <1>1, StartsAre
      <3>2. code[Var(r)] # 0
        BY <2>2, <2>4, <3>1, StartsCoded
      <3>3. PICK h \in 0..m : code[Var(r)] = 2 * h
        BY <1>1, <1>3, RecodedLits
      <3> DEFINE c == code[Var(r)]
                 s == r % 2
      <3>4. RecodeReset(r) = Recode(r) /\ Recode(r) = c + s
        BY <2>1, <2>4, <3>2 DEF RecodeReset, Recode
      <3>5. c # 0 /\ c = 2 * h /\ s \in {0, 1}
        BY <1>4, <3>2, <3>3
      <3> HIDE DEF c, s
      <3>6. c + s > 1
        BY <3>5
      <3> QED
        BY <1>6, <3>4, <3>6
    <2> QED
      BY <2>3, <2>4
  <1> QED
    BY <1>5, <1>6

\* The graph that Rebuild makes has the functions of the graph that was read.
LEMMA RecodedFunctions ==
    ASSUME Complete, NEW a, NEW kinds \in SUBSET ToSet(Kinds), SameAsFar(a, aig, kinds), NEW b, b = RecodedGraph(aig)
    PROVE  SameFunctions(a, b, kinds)
  <1>1. Sound /\ IsGraph(aig) /\ ResetsWithin
    BY CompleteWithin DEF Complete, RecodePhase, Sound, GraphPhase, GraphOK
  <1>2. PICK m \in Nat : Coded(m)
    BY DEF Complete, RecodePhase
  <1>3. /\ Len(b.inputs) = Len(aig.inputs) /\ Len(b.latches) = Len(aig.latches)
        /\ \A k \in 1..Len(aig.latches) : /\ b.latches[k].lit = Recode(aig.latches[k].lit)
                                          /\ b.latches[k].next = Recode(aig.latches[k].next)
                                          /\ b.latches[k].reset = RecodeReset(aig.latches[k].reset)
        /\ \A kind \in ToSet(Kinds) :
             /\ Len(b.symbols[kind]) = Len(aig.symbols[kind])
             /\ \A k \in 1..Len(aig.symbols[kind]) :
                  /\ Len(b.symbols[kind][k]) = Len(aig.symbols[kind][k])
                  /\ \A j \in 1..Len(aig.symbols[kind][k]) :
                       b.symbols[kind][k][j] = Recode(aig.symbols[kind][k][j])
    BY <1>1, <1>2, EntriesRecoded
  <1>4. /\ a.inputs = aig.inputs /\ a.latches = aig.latches
        /\ \A kind \in kinds : a.symbols[kind] = aig.symbols[kind]
    BY DEF SameAsFar
  <1>5. SameSizes(a, b, kinds)
    BY <1>3, <1>4 DEF SameSizes
  <1>6. SameResets(a, b)
    <2> SUFFICES ASSUME NEW k \in 1..Len(aig.latches)
                 PROVE  IF aig.latches[k].reset <= 1 THEN b.latches[k].reset = aig.latches[k].reset
                        ELSE /\ b.latches[k].reset > 1
                             /\ aig.latches[k].reset = aig.latches[k].lit => b.latches[k].reset = b.latches[k].lit
      BY <1>4 DEF SameResets
    <2>1. b.latches[k].lit = Recode(aig.latches[k].lit) /\ b.latches[k].reset = RecodeReset(aig.latches[k].reset)
      BY <1>3
    <2> QED
      BY <1>2, <2>1, ResetsStay
  <1>7. ASSUME NEW w \in [1..(Len(a.inputs) + Len(a.latches)) -> BOOLEAN]
        PROVE  SameEntries(a, b, kinds, Values(a, w), Values(b, w))
    <2> DEFINE e == Values(aig, w)
               f == Values(b, w)
    <2>1. Values(a, w) = e
      BY SameValues
    <2>2. w \in [1..Len(Sources(aig)) -> BOOLEAN]
      <3>1. Len(Sources(aig)) = Len(aig.inputs) + Len(aig.latches)
        BY <1>1, DefinedInTurn
      <3> QED
        BY <1>4, <3>1
    <2>3. Carries(m, f, e)
      BY <1>1, <1>2, <2>2, RecodedValues
    <2> HIDE DEF e, f
    <2>4. ASSUME NEW lit \in LitsOf(aig), HasCode(lit) PROVE Holds(e, lit) = Holds(f, Recode(lit))
      BY <1>1, <1>2, <2>3, <2>4, LiteralCarried
    <2>5. \A k \in 1..Len(aig.latches) : Holds(e, aig.latches[k].next) = Holds(f, Recode(aig.latches[k].next))
      <3> SUFFICES ASSUME NEW k \in 1..Len(aig.latches)
                   PROVE  Holds(e, aig.latches[k].next) = Holds(f, Recode(aig.latches[k].next))
        OBVIOUS
      <3>1. aig.latches[k].next \in LitsOf(aig) /\ HasCode(aig.latches[k].next)
        BY <1>1, EntriesHaveCodes, GraphEntries
      <3> QED
        BY <2>4, <3>1
    <2>6. \A kind \in kinds : \A k \in 1..Len(aig.symbols[kind]) : \A j \in 1..Len(aig.symbols[kind][k]) :
            Holds(e, aig.symbols[kind][k][j]) = Holds(f, Recode(aig.symbols[kind][k][j]))
      <3> SUFFICES ASSUME NEW kind \in kinds, NEW k \in 1..Len(aig.symbols[kind]), NEW j \in 1..Len(aig.symbols[kind][k])
                   PROVE  Holds(e, aig.symbols[kind][k][j]) = Holds(f, Recode(aig.symbols[kind][k][j]))
        OBVIOUS
      <3>1. kind \in ToSet(Kinds)
        OBVIOUS
      <3>2. aig.symbols[kind][k][j] \in LitsOf(aig) /\ HasCode(aig.symbols[kind][k][j])
        BY <1>1, <3>1, EntriesHaveCodes, GraphEntries
      <3> QED
        BY <2>4, <3>2
    <2>7. SameEntries(a, b, kinds, e, f)
      <3>1. \A k \in 1..Len(aig.latches) : Holds(e, aig.latches[k].next) = Holds(f, b.latches[k].next)
        BY <1>3, <2>5
      <3>2. ASSUME NEW kind \in kinds, NEW k \in 1..Len(aig.symbols[kind])
            PROVE  /\ Len(aig.symbols[kind][k]) = Len(b.symbols[kind][k])
                   /\ \A j \in 1..Len(aig.symbols[kind][k]) :
                        Holds(e, aig.symbols[kind][k][j]) = Holds(f, b.symbols[kind][k][j])
        <4>1. kind \in ToSet(Kinds)
          OBVIOUS
        <4>2. /\ Len(b.symbols[kind][k]) = Len(aig.symbols[kind][k])
              /\ \A j \in 1..Len(aig.symbols[kind][k]) :
                   b.symbols[kind][k][j] = Recode(aig.symbols[kind][k][j])
          BY <1>3, <4>1
        <4>3. \A j \in 1..Len(aig.symbols[kind][k]) :
                Holds(e, aig.symbols[kind][k][j]) = Holds(f, Recode(aig.symbols[kind][k][j]))
          BY <2>6
        <4> HIDE DEF e, f
        <4> QED
          BY <4>2, <4>3
      <3>3. \A k \in 1..Len(a.latches) : Holds(e, a.latches[k].next) = Holds(f, b.latches[k].next)
        BY <1>4, <3>1
      <3>4. ASSUME NEW kind \in kinds
            PROVE  \A k \in 1..Len(a.symbols[kind]) :
                     /\ Len(a.symbols[kind][k]) = Len(b.symbols[kind][k])
                     /\ \A j \in 1..Len(a.symbols[kind][k]) :
                          Holds(e, a.symbols[kind][k][j]) = Holds(f, b.symbols[kind][k][j])
        <4>1. a.symbols[kind] = aig.symbols[kind]
          BY <1>4
        <4>2. \A k \in 1..Len(aig.symbols[kind]) :
                /\ Len(aig.symbols[kind][k]) = Len(b.symbols[kind][k])
                /\ \A j \in 1..Len(aig.symbols[kind][k]) :
                     Holds(e, aig.symbols[kind][k][j]) = Holds(f, b.symbols[kind][k][j])
          BY <3>2
        <4> QED
          BY <4>1, <4>2
      <3> QED
        BY <3>3, <3>4 DEF SameEntries
    <2> QED
      BY <2>1, <2>7 DEF f
  <1> QED
    BY <1>5, <1>6, <1>7, SameFunctionsAre

\* The kinds that keep their functions: aigsim calls outputs bad.
KindsKept == IF tool = "aigsim" THEN ToSet(Kinds) \ {"bad"} ELSE ToSet(Kinds)
\* While it is renumbered the graph is the one that was checked, and afterwards it has its functions.
FunctionInv ==
    /\ at \in {"reencode", "recode"} => SameAsFar(given, aig, KindsKept)
    /\ FunctionsKept

\* The outputs become bad states, which nothing else looks at.
LEMMA MovedAsFar ==
    ASSUME CheckedPhase, MoveOutputs
    PROVE  at' = "reencode" /\ given' = aig /\ SameAsFar(aig, aig', KindsKept')
  <1>1. at' = "reencode" /\ given' = aig /\ tool' = "aigsim" /\ IsGraph(aig)
    BY DEF MoveOutputs, Keep, CheckedPhase, GraphPhase, GraphOK
  <1>2. KindsKept' = ToSet(Kinds) \ {"bad"}
    BY <1>1 DEF KindsKept
  <1>3. CASE aig.symbols["bad"] # <<>>
    <2>1. aig' = aig
      BY <1>3 DEF MoveOutputs
    <2> QED
      BY <1>1, <2>1 DEF SameAsFar
  <1>4. CASE ~(aig.symbols["bad"] # <<>>)
    <2> DEFINE t == aig.names \cup {[n EXCEPT !.kind = "bad"] : n \in {m \in aig.names : m.kind = "output"}}
    <2>1. aig' = [aig EXCEPT !.symbols["bad"] = aig.symbols["output"], !.names = t]
      BY <1>4 DEF MoveOutputs
    <2> HIDE DEF t
    <2>2. aig.symbols \in [ToSet(Kinds) -> Seq(Seq(LitsOf(aig)))]
      BY <1>1 DEF IsGraph
    <2> DEFINE s == [aig.symbols EXCEPT !["bad"] = aig.symbols["output"]]
    <2>3. /\ aig'.maxvar = aig.maxvar /\ aig'.inputs = aig.inputs /\ aig'.latches = aig.latches
          /\ aig'.ands = aig.ands /\ aig'.symbols = s
      BY <1>1, <2>1 DEF IsGraph
    <2>4. \A kind \in ToSet(Kinds) \ {"bad"} : s[kind] = aig.symbols[kind]
      BY <2>2
    <2> QED
      BY <1>1, <1>2, <2>3, <2>4 DEF SameAsFar
  <1> QED
    BY <1>3, <1>4

\* Every step keeps the functions: nothing but Rebuild changes the graph that is handed on.
LEMMA FunctionsStep ==
    ASSUME ToolsInv, FunctionInv, [ToolsNext]_toolVars
    PROVE  FunctionInv'
  <1>1. Phases
    BY DEF ToolsInv
  <1>2. CASE UNCHANGED toolVars
    <2>1. UNCHANGED <<aig, at, given, tool>>
      BY <1>2 DEF toolVars, graphVars
    <2>2. KindsKept' = KindsKept
      BY <2>1 DEF KindsKept
    <2>3. SameAsFar(given, aig, KindsKept)' <=> SameAsFar(given, aig, KindsKept)
      BY <2>1, <2>2 DEF SameAsFar
    <2>4. FunctionsKept' <=> FunctionsKept
      BY <2>1 DEF FunctionsKept
    <2> QED
      BY <2>1, <2>3, <2>4 DEF FunctionInv
  <1>3. CASE Reading \/ Checking \/ WriteAscii \/ WriteBinary
    <2>1. at' \notin {"reencode", "recode", "reencoded"}
      <3>1. CASE Reading
        <4>1. at \in {"open", "read"}
          BY <3>1 DEF Reading, ReadStep, ReadHeader, ReadInput, ReadLatch, ReadSymbol, ReadAsciiAnd, ReadBinaryAnd, ReadNames
        <4>2. IsFile(file) /\ (at = "open" => OpenPhase) /\ (at = "read" => ReadPhase)
          BY <1>1 DEF ToolsInv, Phases
        <4>3. at' \in {"read", "check", "failed"}
          BY <3>1, <4>2, ReadStepKeeps DEF OpenPhase, Reading, Failed
        <4> QED
          BY <4>3
      <3>2. CASE Checking
        <4>1. CheckStep
          BY <3>2 DEF Checking
        <4>2. at' \in {"cycles", "failed", "checked"}
          BY <4>1 DEF CheckStep, CheckDefined, NextRoot, CycleFound, PopVisited, Enter, Leave, CheckPassed, Searching
        <4> QED
          BY <4>2
      <3>3. CASE WriteAscii \/ WriteBinary
        BY <3>3 DEF WriteAscii, WriteBinary, Write
      <3> QED
        BY <1>3, <3>1, <3>2, <3>3
    <2> QED
      BY <2>1 DEF FunctionInv, FunctionsKept
  <1>4. CASE MoveOutputs \/ PrepareBinary
    <2>1. at = "checked"
      BY <1>4 DEF MoveOutputs, PrepareBinary, Keep
    <2>2. CheckedPhase
      BY <1>1, <2>1 DEF Phases
    <2>3. at' = "reencode" /\ given' = aig /\ SameAsFar(aig, aig', KindsKept')
      <3>1. CASE MoveOutputs
        BY <2>2, <3>1, MovedAsFar
      <3>2. CASE PrepareBinary
        <4>1. at' = "reencode" /\ given' = aig /\ aig' = aig
          BY <3>2 DEF PrepareBinary, Keep
        <4> QED
          BY <4>1 DEF SameAsFar
      <3> QED
        BY <1>4, <3>1, <3>2
    <2>4. SameAsFar(given, aig, KindsKept)'
      BY <2>3 DEF SameAsFar
    <2> QED
      BY <2>3, <2>4 DEF FunctionInv, FunctionsKept
  <1>5. CASE Recoded
    <2>1. ReencodeStep /\ UNCHANGED <<given, tool>>
      BY <1>5 DEF Recoded
    <2>2. KindsKept' = KindsKept /\ KindsKept \in SUBSET ToSet(Kinds)
      BY <2>1 DEF KindsKept
    <2>3. CASE StartReencode
      <3>1. at = "reencode"
        BY <2>3 DEF StartReencode
      <3>2. CheckedPhase /\ SameAsFar(given, aig, KindsKept)
        BY <1>1, <3>1 DEF Phases, FunctionInv
      <3>3. aig' = aig /\ at' \in {"recode", "reencoded"}
        BY <2>3 DEF StartReencode
      <3>4. SameAsFar(given, aig, KindsKept)'
        BY <2>1, <2>2, <3>2, <3>3 DEF SameAsFar
      <3>5. \A k \in 1..Len(given'.latches) : given'.latches[k].reset \in Nat
        <4>1. IsGraph(aig)
          BY <3>2 DEF CheckedPhase, GraphPhase, GraphOK
        <4>2. given'.latches = aig.latches
          BY <2>1, <3>2 DEF SameAsFar
        <4> QED
          BY <4>1, <4>2, EntryNumbers
      <3>6. SameFunctions(given', aig', KindsKept')
        BY <3>4, <3>5, SameAsFarSameFunctions
      <3>7. FunctionsKept'
        BY <3>6 DEF FunctionsKept, KindsKept
      <3> QED
        BY <3>4, <3>7 DEF FunctionInv
    <2>4. CASE NextStart \/ PopCoded \/ Expand \/ Number
      <3>1. at = "recode" /\ at' \in {at, "undefined"} /\ aig' = aig
        BY <2>4 DEF NextStart, PopCoded, Expand, Number, Recoding
      <3>2. SameAsFar(given, aig, KindsKept)
        BY <3>1 DEF FunctionInv
      <3>3. SameAsFar(given, aig, KindsKept)'
        BY <2>1, <2>2, <3>1, <3>2 DEF SameAsFar
      <3> QED
        BY <3>1, <3>3 DEF FunctionInv, FunctionsKept
    <2>5. CASE Rebuild
      <3>1. at = "recode" /\ at' = "reencoded" /\ aig' = RecodedGraph(aig)
        BY <2>5 DEF Rebuild
      <3>2. RecodePhase /\ SameAsFar(given, aig, KindsKept)
        BY <1>1, <3>1 DEF Phases, FunctionInv
      <3>3. Complete
        BY <2>5, <3>2 DEF Complete, Rebuild
      <3>4. SameFunctions(given, aig', KindsKept)
        BY <2>2, <3>1, <3>2, <3>3, RecodedFunctions
      <3>5. FunctionsKept'
        BY <2>1, <2>2, <3>4 DEF FunctionsKept, KindsKept
      <3> QED
        BY <3>1, <3>5 DEF FunctionInv
    <2> QED
      BY <2>1, <2>3, <2>4, <2>5 DEF ReencodeStep
  <1> QED
    BY <1>2, <1>3, <1>4, <1>5 DEF ToolsNext, ToolStep

\* aigsim.c:274 and aiger.c:1893: a program that goes on with the re-encoded graph computes what the
\* graph it read computes; latches, reset values and symbols have the functions they had.
THEOREM FunctionsAlwaysKept == ToolsSpec => []FunctionsKept
  <1>1. ToolsInit => FunctionInv
    BY DEF ToolsInit, FunctionInv, FunctionsKept
  <1>2. ToolsInv /\ FunctionInv /\ [ToolsNext]_toolVars => FunctionInv'
    BY FunctionsStep
  <1>3. FunctionInv => FunctionsKept
    BY DEF FunctionInv
  <1> QED
    BY <1>1, <1>2, <1>3, ToolsInvHolds, PTL DEF ToolsSpec
=============================================================================
