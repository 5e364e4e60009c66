---------------------------- MODULE SetInduction ----------------------------
(***************************************************************************)
(* Induction in the form the proofs of this project use it: about sets of  *)
(* numbers, sets of finite sets, and functions, so that no step has to     *)
(* instantiate an operator.  Everything follows from the well-foundedness  *)
(* of the strict subset relation on finite sets.  Then what it gives for   *)
(* finite graphs: searches, sets that are reached, and values of gates.    *)
(***************************************************************************)
EXTENDS Integers, FiniteSets, SequencesExt, FiniteSetTheorems, SequenceTheorems,
        WellFoundedInduction, TLAPS

\* A non-empty set of numbers has a least one.
THEOREM LeastNatural ==
    ASSUME NEW T \in SUBSET Nat, T # {}
    PROVE  \E m \in T : \A k \in T : m <= k
  <1> DEFINE initials == {0..(k - 1) : k \in T}
  <1>1. initials \subseteq FiniteSubsetsOf(Nat)
    <2> SUFFICES ASSUME NEW k \in T PROVE 0..(k - 1) \in FiniteSubsetsOf(Nat)
      OBVIOUS
    <2>1. k \in Nat
      OBVIOUS
    <2>2. 0..(k - 1) \in SUBSET Nat
      BY <2>1
    <2>3. IsFiniteSet(0..(k - 1))
      BY <2>1, FS_Interval
    <2> QED
      BY <2>2, <2>3 DEF FiniteSubsetsOf
  <1>2. initials # {}
    OBVIOUS
  <1>3. PICK I \in initials : \A J \in initials : <<J, I>> \notin StrictSubsetOrdering(Nat)
    <2>1. IsWellFoundedOn(StrictSubsetOrdering(Nat), FiniteSubsetsOf(Nat))
      BY FS_StrictSubsetOrderingWellFounded
    <2> HIDE DEF initials
    <2> QED
      BY <1>1, <1>2, <2>1, WFMin
  <1>4. PICK m \in T : I = 0..(m - 1)
    OBVIOUS
  <1>5. ASSUME NEW k \in T, ~(m <= k)
        PROVE  FALSE
    <2>1. k \in Nat /\ m \in Nat /\ k <= m - 1
      BY <1>5
    <2>2. 0..(k - 1) \subseteq I /\ 0..(k - 1) \in SUBSET Nat /\ I \in SUBSET Nat
      BY <1>4, <2>1
    <2>3. k \in I /\ k \notin 0..(k - 1)
      BY <1>4, <2>1
    <2>4. <<0..(k - 1), I>> \in StrictSubsetOrdering(Nat)
      BY <2>2, <2>3 DEF StrictSubsetOrdering
    <2>5. 0..(k - 1) \in initials
      OBVIOUS
    <2> QED
      BY <1>3, <2>4, <2>5
  <1> QED
    BY <1>5

\* A non-empty bounded set of numbers has a greatest one.
THEOREM GreatestNatural ==
    ASSUME NEW T \in SUBSET Nat, T # {}, NEW b \in Nat, \A k \in T : k <= b
    PROVE  \E m \in T : \A k \in T : k <= m
  <1> DEFINE gaps == {b - k : k \in T}
  <1>1. gaps \in SUBSET Nat /\ gaps # {}
    <2>1. \A k \in T : k \in Nat /\ k <= b
      OBVIOUS
    <2>2. \A k \in T : b - k \in Nat
      BY <2>1
    <2> QED
      BY <2>2
  <1>2. PICK d \in gaps : \A e \in gaps : d <= e
    <2> HIDE DEF gaps
    <2> QED
      BY <1>1, LeastNatural
  <1>3. PICK m \in T : d = b - m
    OBVIOUS
  <1>4. ASSUME NEW k \in T PROVE k <= m
    <2>1. b - k \in gaps
      OBVIOUS
    <2>2. b - m <= b - k
      BY <1>2, <1>3, <2>1
    <2>3. b \in Int /\ k \in Int /\ m \in Int
      OBVIOUS
    <2> QED
      BY <2>2, <2>3
  <1> QED
    BY <1>4

\* A set of numbers that has 0 and with each number the next has them all.
THEOREM InductionOnNat ==
    ASSUME NEW T, 0 \in T, \A n \in Nat : n \in T => n + 1 \in T
    PROVE  Nat \subseteq T
  <1> SUFFICES ASSUME Nat \ T # {} PROVE FALSE
    OBVIOUS
  <1>1. Nat \ T \in SUBSET Nat
    OBVIOUS
  <1>2. PICK m \in Nat \ T : \A k \in Nat \ T : m <= k
    BY <1>1, LeastNatural
  <1>3. m - 1 \in Nat /\ m = (m - 1) + 1
    BY <1>2
  <1>4. m - 1 \in T
    BY <1>2, <1>3
  <1> QED
    BY <1>2, <1>3, <1>4

\* A set of subsets of S that has {} and stays closed when an element is added
\* has S.
THEOREM InductionOnSubsets ==
    ASSUME NEW S, IsFiniteSet(S), NEW F, {} \in F,
           \A T \in SUBSET S, x \in S : T \in F /\ x \notin T => T \cup {x} \in F
    PROVE  S \in F
  <1> DEFINE bad == {T \in SUBSET S : T \notin F}
  <1> SUFFICES ASSUME S \notin F PROVE FALSE
    OBVIOUS
  <1>1. bad \subseteq FiniteSubsetsOf(S) /\ bad # {}
    BY FS_FiniteSubsetsOfFinite
  <1>2. PICK T \in bad : \A U \in bad : <<U, T>> \notin StrictSubsetOrdering(S)
    <2>1. IsWellFoundedOn(StrictSubsetOrdering(S), FiniteSubsetsOf(S))
      BY FS_StrictSubsetOrderingWellFounded
    <2> HIDE DEF bad
    <2> QED
      BY <1>1, <2>1, WFMin
  <1>3. PICK x \in T : TRUE
    OBVIOUS
  <1>4. T \ {x} \in SUBSET S /\ T \in SUBSET S /\ x \in S
    OBVIOUS
  <1>5. <<T \ {x}, T>> \in StrictSubsetOrdering(S)
    BY <1>4 DEF StrictSubsetOrdering
  <1>6. T \ {x} \in F
    BY <1>2, <1>4, <1>5
  <1>7. (T \ {x}) \cup {x} = T
    OBVIOUS
  <1> QED
    BY <1>4, <1>6, <1>7

\* f solves the recursion over 0..N that has the values g at its leaves and
\* combines, elsewhere, the values at x[n] and y[n].
SolvesRecursion(f, N, leaves, g, x, y, op) ==
    \A n \in 0..N : f[n] = IF n \in leaves THEN g[n] ELSE op[<<n, f[x[n]], f[y[n]]>>]

\* A recursion that refers to smaller numbers has a solution.
THEOREM RecursionOnNat ==
    ASSUME NEW A, NEW N \in Nat, NEW leaves, NEW g \in [0..N -> A],
           NEW x \in [0..N -> Nat], NEW y \in [0..N -> Nat],
           NEW op \in [(0..N) \X A \X A -> A],
           \A n \in 0..N : n \notin leaves => x[n] < n /\ y[n] < n
    PROVE  \E f \in [0..N -> A] : SolvesRecursion(f, N, leaves, g, x, y, op)
  <1> DEFINE Body(f, n) == IF n \in leaves THEN g[n] ELSE op[<<n, f[x[n]], f[y[n]]>>]
             Good(f, m) == /\ f \in [0..m -> A]
                           /\ \A n \in 0..m : f[n] = Body(f, n)
             T == {m \in Nat : m <= N => \E f : Good(f, m)}
  <1>1. 0 \in T
    <2>1. 0 \in leaves /\ 0 \in 0..N
      OBVIOUS
    <2>2. Good([n \in 0..0 |-> g[n]], 0)
      BY <2>1
    <2> HIDE DEF Good
    <2> QED
      BY <2>2
  <1>2. ASSUME NEW m \in Nat, m \in T
        PROVE  m + 1 \in T
    <2> SUFFICES ASSUME m + 1 <= N
                 PROVE  \E f : Good(f, m + 1)
      <3> HIDE DEF Good
      <3> QED
        OBVIOUS
    <2>1. PICK f : Good(f, m)
      <3> HIDE DEF Good
      <3> QED
        BY <1>2
    <2> DEFINE h == [n \in 0..(m + 1) |-> IF n <= m THEN f[n] ELSE Body(f, n)]
    <2>2. \A n \in 0..m : h[n] = f[n]
      OBVIOUS
    <2>3. ASSUME NEW n \in 0..(m + 1)
          PROVE  Body(h, n) = Body(f, n) /\ Body(f, n) \in A
      <3>1. n \in 0..N
        OBVIOUS
      <3>2. CASE n \in leaves
        BY <3>1, <3>2
      <3>3. CASE n \notin leaves
        <4>1. x[n] \in 0..m /\ y[n] \in 0..m
          BY <3>1, <3>3
        <4>2. h[x[n]] = f[x[n]] /\ h[y[n]] = f[y[n]]
          <5> HIDE DEF h
          <5> QED
            BY <2>2, <4>1
        <4>3. f[x[n]] \in A /\ f[y[n]] \in A
          BY <2>1, <4>1
        <4> HIDE DEF h
        <4> QED
          BY <3>1, <3>3, <4>2, <4>3
      <3> QED
        BY <3>2, <3>3
    <2>4. \A n \in 0..(m + 1) : h[n] = Body(f, n) /\ h[n] \in A
      <3>1. \A n \in 0..m : f[n] = Body(f, n)
        BY <2>1
      <3>2. \A n \in 0..(m + 1) : h[n] = IF n <= m THEN f[n] ELSE Body(f, n)
        OBVIOUS
      <3>3. \A n \in 0..(m + 1) : n <= m => n \in 0..m
        OBVIOUS
      <3> HIDE DEF Body, h
      <3> QED
        BY <2>3, <3>1, <3>2, <3>3
    <2>5. Good(h, m + 1)
      <3>1. h = [n \in 0..(m + 1) |-> h[n]]
        OBVIOUS
      <3> HIDE DEF Body, h
      <3>2. h \in [0..(m + 1) -> A]
        BY <2>4, <3>1
      <3> QED
        BY <2>3, <2>4, <3>2
    <2> HIDE DEF h, Good
    <2> QED
      BY <2>5
  <1>3. N \in T
    <2> HIDE DEF T
    <2> QED
      BY <1>1, <1>2, InductionOnNat
  <1>4. PICK f : Good(f, N)
    <2> HIDE DEF Good
    <2> QED
      BY <1>3
  <1> QED
    BY <1>4 DEF SolvesRecursion

\* The same for a recursion that counts up.
Counts(h, N, c, op) == h[0] = c /\ \A n \in 1..N : h[n] = op[<<n, h[n - 1]>>]

\* A function that is defined by counting up exists.
LEMMA CountingRecursion ==
    ASSUME NEW A, NEW N \in Nat, NEW c \in A, NEW op \in [(0..N) \X A -> A]
    PROVE  \E h \in [0..N -> A] : Counts(h, N, c, op)
  <1> DEFINE g == [n \in 0..N |-> c]
             x == [n \in 0..N |-> IF n = 0 THEN 0 ELSE n - 1]
             two == [e \in (0..N) \X A \X A |-> op[<<e[1], e[2]>>]]
  <1>1. /\ g \in [0..N -> A] /\ x \in [0..N -> Nat] /\ two \in [(0..N) \X A \X A -> A]
        /\ \A n \in 0..N : n \notin {0} => x[n] < n /\ x[n] < n
    OBVIOUS
  <1>2. /\ \A n \in 0..N : n # 0 => x[n] = n - 1
        /\ \A n \in 0..N : \A a \in A : two[<<n, a, a>>] = op[<<n, a>>]
        /\ g[0] = c
    OBVIOUS
  <1> HIDE DEF g, x, two
  <1>3. PICK h \in [0..N -> A] : SolvesRecursion(h, N, {0}, g, x, x, two)
    BY <1>1, RecursionOnNat
  <1>4. ASSUME NEW n \in 0..N
        PROVE  h[n] = IF n = 0 THEN c ELSE op[<<n, h[n - 1]>>]
    <2>1. CASE n = 0
      BY <1>2, <1>3, <2>1 DEF SolvesRecursion
    <2>2. CASE n # 0
      <3>1. h[n] = two[<<n, h[n - 1], h[n - 1]>>]
        BY <1>2, <1>3, <2>2 DEF SolvesRecursion
      <3>2. h[n - 1] \in A
        BY <2>2
      <3> QED
        BY <1>2, <2>2, <3>1, <3>2
    <2> QED
      BY <2>1, <2>2
  <1>5. h[0] = c /\ \A n \in 1..N : h[n] = op[<<n, h[n - 1]>>]
    <2>1. 0 \in 0..N /\ \A n \in 1..N : n \in 0..N /\ n # 0
      OBVIOUS
    <2> QED
      BY <1>4, <2>1
  <1> QED
    BY <1>5 DEF Counts

(***************************************************************************)
(* Depth first searches with markers on a stack of its own, as both        *)
(* searches of the AIGER library are: G are the gates, F[v] what gate v    *)
(* reads, s the stack; a gate is in "on" from the step that pushes its     *)
(* marker to the one that pops it, and in "left" from there on.            *)
(***************************************************************************)
NoCycle(F, X) == \A S \in SUBSET X : S # {} => \E v \in S : F[v] \cap S = {}

\* A marker lies on the gate it belongs to.
Markers(s, on) == \A i \in 1..Len(s) : s[i] = 0 => i - 1 \in 1..Len(s) /\ s[i - 1] \in on
Marked(s, on) == \A v \in on : \E i \in 2..Len(s) : s[i] = 0 /\ s[i - 1] = v
MarkedOnce(s) == \A i \in 2..Len(s) : \A j \in 2..Len(s) :
                   s[i] = 0 /\ s[j] = 0 /\ s[i - 1] = s[j - 1] => i = j
\* What a gate that is left reads is left, what one that is on reads is left or above it.
LeftClosed(G, F, left) == \A v \in left : F[v] \cap G \subseteq left
ReadAbove(G, F, s, left) ==
    \A i \in 2..Len(s) : s[i] = 0 =>
      \A c \in F[s[i - 1]] \cap G : c \in left \/ \E j \in (i + 1)..Len(s) : s[j] = c
\* What is above a marker, and below the next one, is read by its gate.
AboveRead(F, s) ==
    \A j \in 2..Len(s) : s[j] # 0 =>
      \E i \in 2..(j - 1) : s[i] = 0 /\ s[j] \in F[s[i - 1]] /\ \A m \in (i + 1)..j : s[m] # 0

Search(G, F, s, on, left) ==
    /\ s \in Seq(Nat) /\ on \in SUBSET G /\ left \in SUBSET G /\ on \cap left = {}
    /\ Markers(s, on) /\ Marked(s, on) /\ MarkedOnce(s)
    /\ LeftClosed(G, F, left) /\ NoCycle(F, left)
    /\ ReadAbove(G, F, s, left) /\ AboveRead(F, s)

\* Before the first search nothing is on and nothing left.
LEMMA SearchBegins ==
    ASSUME NEW F, NEW G
    PROVE  Search(G, F, <<>>, {}, {})
  <1>1. <<>> \in Seq(Nat) /\ Len(<<>>) = 0 /\ 1..0 = {} /\ 2..0 = {}
    OBVIOUS
  <1>2. NoCycle(F, {})
    BY DEF NoCycle
  <1> QED
    BY <1>1, <1>2 DEF Search, Markers, Marked, MarkedOnce, LeftClosed, ReadAbove, AboveRead

\* An empty stack gets the variable a search starts from.
LEMMA SearchStarts ==
    ASSUME NEW G, NEW F, NEW on, NEW left, Search(G, F, <<>>, on, left), NEW r \in Nat \ {0}
    PROVE  on = {} /\ Search(G, F, <<r>>, on, left)
  <1>1. Len(<<>>) = 0 /\ Len(<<r>>) = 1 /\ <<r>>[1] = r /\ <<r>> \in Seq(Nat)
    OBVIOUS
  <1>2. on = {}
    BY <1>1 DEF Search, Marked
  <1>3. 1..1 = {1} /\ 2..1 = {}
    OBVIOUS
  <1>4. Markers(<<r>>, on) /\ Marked(<<r>>, on) /\ MarkedOnce(<<r>>)
    BY <1>1, <1>2, <1>3 DEF Markers, Marked, MarkedOnce
  <1>5. ReadAbove(G, F, <<r>>, left) /\ AboveRead(F, <<r>>)
    BY <1>1, <1>3 DEF ReadAbove, AboveRead
  <1> QED
    BY <1>1, <1>2, <1>4, <1>5 DEF Search

\* A variable that is no gate, or has been left, comes off the stack.
LEMMA SearchPops ==
    ASSUME NEW G \in SUBSET (Nat \ {0}), NEW F, NEW s, NEW on, NEW left,
           Search(G, F, s, on, left), s # <<>>, Last(s) # 0, Last(s) \in left \/ Last(s) \notin G
    PROVE  Search(G, F, Front(s), on, left)
  <1> DEFINE n == Len(s) - 1
             t == Front(s)
  <1>1. s \in Seq(Nat) /\ n \in Nat /\ Len(s) = n + 1 /\ Last(s) = s[n + 1]
    BY DEF Search, Last
  <1>2. t \in Seq(Nat) /\ Len(t) = n /\ \A i \in 1..n : t[i] = s[i]
    <2>1. \A i \in 1..n : s[i] \in Nat
      BY <1>1
    <2>2. t = SubSeq(s, 1, n)
      BY DEF Front
    <2> QED
      BY <1>1, <2>1, <2>2, SubSeqProperties
  <1> HIDE DEF n, t
  <1>3. Markers(t, on)
    <2> SUFFICES ASSUME NEW i \in 1..n, t[i] = 0 PROVE i - 1 \in 1..n /\ t[i - 1] \in on
      BY <1>2 DEF Markers
    <2>1. i \in 1..(n + 1) /\ s[i] = 0
      BY <1>1, <1>2
    <2>2. i - 1 \in 1..(n + 1) /\ s[i - 1] \in on
      BY <1>1, <2>1 DEF Search, Markers
    <2>3. i - 1 \in 1..n
      BY <1>1, <2>2
    <2> QED
      BY <1>2, <2>2, <2>3
  <1>4. Marked(t, on)
    <2> SUFFICES ASSUME NEW v \in on PROVE \E i \in 2..n : t[i] = 0 /\ t[i - 1] = v
      BY <1>2 DEF Marked
    <2>1. PICK i \in 2..(n + 1) : s[i] = 0 /\ s[i - 1] = v
      BY <1>1 DEF Search, Marked
    <2>2. i # n + 1
      BY <1>1, <2>1
    <2>3. i \in 2..n /\ i \in 1..n /\ i - 1 \in 1..n
      BY <1>1, <2>2
    <2> QED
      BY <1>2, <2>1, <2>3
  <1>5. MarkedOnce(t)
    <2> SUFFICES ASSUME NEW i \in 2..n, NEW j \in 2..n, t[i] = 0, t[j] = 0, t[i - 1] = t[j - 1]
                 PROVE  i = j
      BY <1>2 DEF MarkedOnce
    <2>1. i \in 2..(n + 1) /\ j \in 2..(n + 1)
          /\ i \in 1..n /\ j \in 1..n /\ i - 1 \in 1..n /\ j - 1 \in 1..n
      BY <1>1
    <2>2. s[i] = 0 /\ s[j] = 0 /\ s[i - 1] = s[j - 1]
      BY <1>2, <2>1
    <2> QED
      BY <1>1, <2>1, <2>2 DEF Search, MarkedOnce
  <1>6. ReadAbove(G, F, t, left)
    <2> SUFFICES ASSUME NEW i \in 2..n, t[i] = 0, NEW c \in F[t[i - 1]] \cap G, c \notin left
                 PROVE  \E j \in (i + 1)..n : t[j] = c
      BY <1>2 DEF ReadAbove
    <2>1. i \in 2..(n + 1) /\ i \in 1..n /\ i - 1 \in 1..n
      BY <1>1
    <2>2. s[i] = 0 /\ c \in F[s[i - 1]] \cap G
      BY <1>2, <2>1
    <2>3. PICK j \in (i + 1)..(n + 1) : s[j] = c
      BY <1>1, <2>1, <2>2 DEF Search, ReadAbove
    <2>4. j # n + 1
      BY <1>1, <2>3
    <2>5. j \in (i + 1)..n /\ j \in 1..n
      BY <1>1, <2>4
    <2> QED
      BY <1>2, <2>3, <2>5
  <1>7. AboveRead(F, t)
    <2> SUFFICES ASSUME NEW j \in 2..n, t[j] # 0
                 PROVE  \E i \in 2..(j - 1) : t[i] = 0 /\ t[j] \in F[t[i - 1]]
                                              /\ \A m \in (i + 1)..j : t[m] # 0
      BY <1>2 DEF AboveRead
    <2>1. j \in 2..(n + 1) /\ s[j] # 0
      BY <1>1, <1>2
    <2>2. PICK i \in 2..(j - 1) : /\ s[i] = 0 /\ s[j] \in F[s[i - 1]]
                                  /\ \A m \in (i + 1)..j : s[m] # 0
      BY <1>1, <2>1 DEF Search, AboveRead
    <2>3. i \in 1..n /\ i - 1 \in 1..n /\ j \in 1..n /\ \A m \in (i + 1)..j : m \in 1..n
      BY <1>1
    <2> QED
      BY <1>2, <2>2, <2>3
  <1> QED
    BY <1>2, <1>3, <1>4, <1>5, <1>6, <1>7 DEF Search, t

\* A gate is entered: its marker and what it reads are pushed.
LEMMA SearchEnters ==
    ASSUME NEW G \in SUBSET (Nat \ {0}), NEW F, NEW s, NEW on, NEW left,
           Search(G, F, s, on, left), s # <<>>, Last(s) \in G, Last(s) \notin on \cup left,
           NEW t \in Seq(Nat), Len(t) > Len(s),
           \A i \in 1..Len(s) : t[i] = s[i],
           t[Len(s) + 1] = 0,
           \A j \in (Len(s) + 2)..Len(t) : t[j] # 0 /\ t[j] \in F[Last(s)],
           \A c \in F[Last(s)] \cap G : c \in left \/ \E j \in (Len(s) + 2)..Len(t) : t[j] = c
    PROVE  Search(G, F, t, on \cup {Last(s)}, left)
  <1> DEFINE n == Len(s)
             N == Len(t)
             e == Last(s)
  <1>1. s \in Seq(Nat) /\ n \in Nat \ {0} /\ e = s[n] /\ N \in Nat /\ N > n /\ e # 0
    BY DEF Search, Last
  <1>2. n \in 1..n /\ n + 1 \in 2..N /\ n + 1 \in 1..N
    BY <1>1
  <1>3. /\ \A i \in 1..n : t[i] = s[i]
        /\ t[n + 1] = 0
        /\ \A j \in (n + 2)..N : t[j] # 0 /\ t[j] \in F[e]
        /\ \A c \in F[e] \cap G : c \in left \/ \E j \in (n + 2)..N : t[j] = c
    OBVIOUS
  <1> HIDE DEF n, N, e
  <1>4. t[n] = e /\ s[n] = e
    BY <1>1, <1>2, <1>3
  <1>5. ASSUME NEW i \in 1..N, t[i] = 0
        PROVE  \/ i = n + 1
               \/ /\ i \in 2..n /\ s[i] = 0 /\ i - 1 \in 1..n
                  /\ s[i - 1] \in on /\ t[i - 1] = s[i - 1]
    <2>1. CASE i \in 1..n
      <3>1. s[i] = 0
        BY <1>3, <1>5, <2>1
      <3>2. i - 1 \in 1..n /\ s[i - 1] \in on
        BY <2>1, <3>1 DEF Search, Markers, n
      <3>3. i \in 2..n
        BY <1>1, <2>1, <3>2
      <3> QED
        BY <1>3, <3>1, <3>2, <3>3
    <2>2. CASE i \in (n + 2)..N
      BY <1>3, <1>5, <2>2
    <2>3. CASE i = n + 1
      BY <2>3
    <2>4. i \in 1..n \/ i \in (n + 2)..N \/ i = n + 1
      BY <1>1
    <2> QED
      BY <2>1, <2>2, <2>3, <2>4
  <1>6. Markers(t, on \cup {e})
    <2> SUFFICES ASSUME NEW i \in 1..N, t[i] = 0 PROVE i - 1 \in 1..N /\ t[i - 1] \in on \cup {e}
      BY DEF Markers, N
    <2>1. CASE i = n + 1
      BY <1>1, <1>4, <2>1
    <2>2. CASE i # n + 1
      <3>1. i - 1 \in 1..n /\ t[i - 1] \in on
        BY <1>5, <2>2
      <3> QED
        BY <1>1, <3>1
    <2> QED
      BY <2>1, <2>2
  <1>7. Marked(t, on \cup {e})
    <2> SUFFICES ASSUME NEW v \in on \cup {e} PROVE \E i \in 2..N : t[i] = 0 /\ t[i - 1] = v
      BY DEF Marked, N
    <2>1. CASE v = e
      <3>1. (n + 1) - 1 = n
        BY <1>1
      <3> QED
        BY <1>2, <1>3, <1>4, <2>1, <3>1
    <2>2. CASE v # e
      <3>1. PICK i \in 2..n : s[i] = 0 /\ s[i - 1] = v
        BY <2>2 DEF Search, Marked, n
      <3>2. i \in 1..n /\ i - 1 \in 1..n /\ i \in 2..N
        BY <1>1
      <3> QED
        BY <1>3, <3>1, <3>2
    <2> QED
      BY <2>1, <2>2
  <1>8. MarkedOnce(t)
    <2> SUFFICES ASSUME NEW i \in 2..N, NEW j \in 2..N, t[i] = 0, t[j] = 0, t[i - 1] = t[j - 1]
                 PROVE  i = j
      BY DEF MarkedOnce, N
    <2>1. i \in 1..N /\ j \in 1..N
      BY <1>1
    <2>2. e \notin on /\ (n + 1) - 1 = n
      BY <1>1 DEF e
    <2>3. CASE i = n + 1
      <3>1. t[j - 1] = e
        BY <1>4, <2>2, <2>3
      <3> QED
        BY <1>5, <2>1, <2>2, <2>3, <3>1
    <2>4. CASE j = n + 1
      <3>1. t[i - 1] = e
        BY <1>4, <2>2, <2>4
      <3> QED
        BY <1>5, <2>1, <2>2, <2>4, <3>1
    <2>5. CASE i # n + 1 /\ j # n + 1
      <3>1. i \in 2..n /\ s[i] = 0 /\ t[i - 1] = s[i - 1]
        BY <1>5, <2>1, <2>5
      <3>2. j \in 2..n /\ s[j] = 0 /\ t[j - 1] = s[j - 1]
        BY <1>5, <2>1, <2>5
      <3> QED
        BY <3>1, <3>2 DEF Search, MarkedOnce, n
    <2> QED
      BY <2>3, <2>4, <2>5
  <1>9. ReadAbove(G, F, t, left)
    <2> SUFFICES ASSUME NEW i \in 2..N, t[i] = 0, NEW c \in F[t[i - 1]] \cap G, c \notin left
                 PROVE  \E j \in (i + 1)..N : t[j] = c
      BY DEF ReadAbove, N
    <2>1. i \in 1..N
      BY <1>1
    <2>2. CASE i = n + 1
      <3>1. t[i - 1] = e /\ i + 1 = n + 2
        BY <1>1, <1>4, <2>2
      <3> QED
        BY <1>3, <3>1
    <2>3. CASE i # n + 1
      <3>1. i \in 2..n /\ s[i] = 0 /\ t[i - 1] = s[i - 1]
        BY <1>5, <2>1, <2>3
      <3>2. PICK j \in (i + 1)..n : s[j] = c
        BY <3>1 DEF Search, ReadAbove, n
      <3>3. j \in (i + 1)..N /\ j \in 1..n
        BY <1>1, <3>1
      <3> QED
        BY <1>3, <3>2, <3>3
    <2> QED
      BY <2>2, <2>3
  <1>10. AboveRead(F, t)
    <2> SUFFICES ASSUME NEW j \in 2..N, t[j] # 0
                 PROVE  \E i \in 2..(j - 1) : t[i] = 0 /\ t[j] \in F[t[i - 1]]
                                              /\ \A m \in (i + 1)..j : t[m] # 0
      BY DEF AboveRead, N
    <2>1. CASE j \in 2..n
      <3>1. s[j] # 0
        <4>1. j \in 1..n
          BY <1>1, <2>1
        <4> QED
          BY <1>3, <4>1
      <3>2. PICK i \in 2..(j - 1) : /\ s[i] = 0 /\ s[j] \in F[s[i - 1]]
                                    /\ \A m \in (i + 1)..j : s[m] # 0
        BY <2>1, <3>1 DEF Search, AboveRead, n
      <3>3. i \in 1..n /\ i - 1 \in 1..n /\ j \in 1..n /\ \A m \in (i + 1)..j : m \in 1..n
        BY <1>1, <2>1
      <3>4. t[i] = s[i] /\ t[i - 1] = s[i - 1] /\ t[j] = s[j] /\ \A m \in (i + 1)..j : t[m] = s[m]
        BY <1>3, <3>3
      <3>5. t[i] = 0 /\ t[j] \in F[t[i - 1]]
        BY <3>2, <3>4
      <3>6. \A m \in (i + 1)..j : t[m] # 0
        BY <3>2, <3>4
      <3> QED
        BY <3>5, <3>6
    <2>2. CASE j = n + 1
      BY <1>3, <2>2
    <2>3. CASE j \in (n + 2)..N
      <3>1. n + 1 \in 2..(j - 1) /\ (n + 1) - 1 = n
        BY <1>1, <2>3
      <3>2. \A m \in (n + 2)..j : m \in (n + 2)..N
        BY <1>1, <2>3
      <3>3. (n + 1) + 1 = n + 2
        BY <1>1
      <3> QED
        BY <1>3, <1>4, <2>3, <3>1, <3>2, <3>3
    <2> QED
      BY <1>1, <2>1, <2>2, <2>3
  <1>11. on \cup {e} \in SUBSET G /\ (on \cup {e}) \cap left = {}
    BY DEF Search, e
  <1> QED
    BY <1>6, <1>7, <1>8, <1>9, <1>10, <1>11 DEF Search, e

\* A gate is left when its marker comes up; all it reads has been left then.
LEMMA SearchLeaves ==
    ASSUME NEW G \in SUBSET (Nat \ {0}), NEW F, NEW s, NEW on, NEW left,
           Search(G, F, s, on, left), s # <<>>, Last(s) = 0
    PROVE  LET v == s[Len(s) - 1] IN
           /\ Len(s) >= 2 /\ v \in on /\ F[v] \cap G \subseteq left
           /\ Search(G, F, SubSeq(s, 1, Len(s) - 2), on \ {v}, left \cup {v})
  <1> DEFINE n == Len(s)
             N == n - 2
             v == s[n - 1]
             t == SubSeq(s, 1, N)
  <1>1. s \in Seq(Nat) /\ n \in Nat \ {0} /\ s[n] = 0 /\ n \in 1..n
    BY DEF Search, Last
  <1>2. n - 1 \in 1..n /\ v \in on
    BY <1>1 DEF Search, Markers
  <1>3. N \in Nat /\ n = N + 2 /\ n \in 2..n /\ v \in G /\ v # 0 /\ v \notin left
    BY <1>1, <1>2 DEF Search
  <1>4. t \in Seq(Nat) /\ Len(t) = N /\ \A i \in 1..N : t[i] = s[i]
    <2>1. \A i \in 1..N : s[i] \in Nat
      BY <1>1, <1>3
    <2> QED
      BY <1>1, <1>3, <2>1, SubSeqProperties
  <1>5. F[v] \cap G \subseteq left
    <2>1. (n + 1)..n = {}
      BY <1>1
    <2> QED
      BY <1>1, <1>3, <2>1 DEF Search, ReadAbove
  <1> HIDE DEF n, N, v, t
  <1>6. /\ Markers(s, on) /\ Marked(s, on) /\ MarkedOnce(s) /\ ReadAbove(G, F, s, left) /\ AboveRead(F, s)
        /\ LeftClosed(G, F, left) /\ NoCycle(F, left) /\ on \in SUBSET G /\ left \in SUBSET G
        /\ on \cap left = {} /\ Len(s) = n /\ v = s[n - 1]
    BY DEF Search, n, v
  <1>7. Markers(t, on \ {v})
    <2> SUFFICES ASSUME NEW i \in 1..N, t[i] = 0 PROVE i - 1 \in 1..N /\ t[i - 1] \in on \ {v}
      BY <1>4 DEF Markers
    <2>1. i \in 1..n /\ s[i] = 0
      BY <1>3, <1>4
    <2>2. i - 1 \in 1..n /\ s[i - 1] \in on
      BY <1>6, <2>1 DEF Markers
    <2>3. i - 1 \in 1..N /\ i \in 2..n /\ i # n
      BY <1>3, <2>2
    <2>4. s[i - 1] # v
      BY <1>1, <1>3, <1>6, <2>1, <2>3 DEF MarkedOnce
    <2> QED
      BY <1>4, <2>2, <2>3, <2>4
  <1>8. Marked(t, on \ {v})
    <2> SUFFICES ASSUME NEW u \in on \ {v} PROVE \E i \in 2..N : t[i] = 0 /\ t[i - 1] = u
      BY <1>4 DEF Marked
    <2>1. PICK i \in 2..n : s[i] = 0 /\ s[i - 1] = u
      BY <1>6 DEF Marked
    <2>2. i # n /\ i # n - 1
      BY <1>3, <1>6, <2>1
    <2>3. i \in 2..N /\ i \in 1..N /\ i - 1 \in 1..N
      BY <1>3, <2>2
    <2> QED
      BY <1>4, <2>1, <2>3
  <1>9. MarkedOnce(t)
    <2> SUFFICES ASSUME NEW i \in 2..N, NEW j \in 2..N, t[i] = 0, t[j] = 0, t[i - 1] = t[j - 1]
                 PROVE  i = j
      BY <1>4 DEF MarkedOnce
    <2>1. i \in 2..n /\ j \in 2..n
          /\ i \in 1..N /\ j \in 1..N /\ i - 1 \in 1..N /\ j - 1 \in 1..N
      BY <1>3
    <2>2. s[i] = 0 /\ s[j] = 0 /\ s[i - 1] = s[j - 1]
      BY <1>4, <2>1
    <2> QED
      BY <1>6, <2>1, <2>2 DEF MarkedOnce
  <1>10. ReadAbove(G, F, t, left \cup {v})
    <2> SUFFICES ASSUME NEW i \in 2..N, t[i] = 0, NEW c \in F[t[i - 1]] \cap G, c \notin left, c # v
                 PROVE  \E j \in (i + 1)..N : t[j] = c
      BY <1>4 DEF ReadAbove
    <2>1. i \in 2..n /\ i \in 1..N /\ i - 1 \in 1..N
      BY <1>3
    <2>2. s[i] = 0 /\ c \in F[s[i - 1]] \cap G
      BY <1>4, <2>1
    <2>3. PICK j \in (i + 1)..n : s[j] = c
      BY <1>6, <2>1, <2>2 DEF ReadAbove
    <2>4. j # n /\ j # n - 1
      BY <1>1, <1>6, <2>3
    <2>5. j \in (i + 1)..N /\ j \in 1..N
      BY <1>3, <2>4
    <2> QED
      BY <1>4, <2>3, <2>5
  <1>11. AboveRead(F, t)
    <2> SUFFICES ASSUME NEW j \in 2..N, t[j] # 0
                 PROVE  \E i \in 2..(j - 1) : t[i] = 0 /\ t[j] \in F[t[i - 1]]
                                              /\ \A m \in (i + 1)..j : t[m] # 0
      BY <1>4 DEF AboveRead
    <2>1. j \in 2..n /\ s[j] # 0
      BY <1>3, <1>4
    <2>2. PICK i \in 2..(j - 1) : /\ s[i] = 0 /\ s[j] \in F[s[i - 1]]
                                  /\ \A m \in (i + 1)..j : s[m] # 0
      BY <1>6, <2>1 DEF AboveRead
    <2>3. i \in 1..N /\ i - 1 \in 1..N /\ j \in 1..N /\ \A m \in (i + 1)..j : m \in 1..N
      BY <1>3
    <2> QED
      BY <1>4, <2>2, <2>3
  <1>12. LeftClosed(G, F, left \cup {v})
    BY <1>5, <1>6 DEF LeftClosed
  <1>13. NoCycle(F, left \cup {v})
    <2> SUFFICES ASSUME NEW S \in SUBSET (left \cup {v}), S # {}
                 PROVE  \E u \in S : F[u] \cap S = {}
      BY DEF NoCycle
    <2>1. CASE S \cap left # {}
      <3>1. PICK u \in S \cap left : F[u] \cap (S \cap left) = {}
        BY <1>6, <2>1 DEF NoCycle
      <3>2. F[u] \cap S = {}
        BY <1>3, <1>6, <3>1 DEF LeftClosed
      <3> QED
        BY <3>1, <3>2
    <2>2. CASE S \cap left = {}
      <3>1. S = {v}
        BY <2>2
      <3>2. v \notin F[v]
        BY <1>3, <1>5
      <3> QED
        BY <3>1, <3>2
    <2> QED
      BY <2>1, <2>2
  <1>14. /\ on \ {v} \in SUBSET G /\ left \cup {v} \in SUBSET G /\ (on \ {v}) \cap (left \cup {v}) = {}
    BY <1>3, <1>6
  <1>15. Search(G, F, t, on \ {v}, left \cup {v})
    BY <1>4, <1>7, <1>8, <1>9, <1>10, <1>11, <1>12, <1>13, <1>14 DEF Search
  <1> QED
    BY <1>2, <1>3, <1>5, <1>15 DEF n, N, v, t

\* What comes up again before it has been left depends on itself.
LEMMA SearchFindsCycle ==
    ASSUME NEW G \in SUBSET (Nat \ {0}), NEW F, NEW s, NEW on, NEW left,
           Search(G, F, s, on, left), s # <<>>, Last(s) \in on
    PROVE  ~NoCycle(F, G)
  <1> DEFINE n == Len(s)
  <1>1. s \in Seq(Nat) /\ n \in Nat \ {0} /\ s[n] \in on /\ s[n] # 0 /\ Last(s) = s[n]
    BY DEF Search, Last
  <1> HIDE DEF n
  <1>2. /\ Markers(s, on) /\ Marked(s, on) /\ AboveRead(F, s) /\ on \in SUBSET G /\ Len(s) = n
    BY DEF Search, n
  <1>3. PICK i \in 2..n : s[i] = 0 /\ s[i - 1] = s[n]
    BY <1>1, <1>2 DEF Marked
  <1>4. i < n
    <2>1. i # n
      BY <1>1, <1>3
    <2> QED
      BY <1>1, <2>1
  <1> DEFINE places == {m \in i..n : s[m] = 0}
             S == {s[m - 1] : m \in places}
  <1>5. S \in SUBSET G /\ s[n] \in S
    <2>1. \A m \in places : m \in 1..n /\ s[m - 1] \in on
      BY <1>1, <1>2 DEF Markers
    <2>2. i \in places
      BY <1>1, <1>3
    <2> QED
      BY <1>2, <1>3, <2>1, <2>2
  <1>6. ASSUME NEW m \in places PROVE F[s[m - 1]] \cap S # {}
    <2>1. m \in i..n /\ s[m] = 0 /\ m # n /\ m < n /\ m \in 2..n
      BY <1>1
    <2> DEFINE next == {k \in places : k > m}
    <2>2. CASE next = {}
      <3>1. PICK k \in 2..(n - 1) : /\ s[k] = 0 /\ s[n] \in F[s[k - 1]]
                                    /\ \A j \in (k + 1)..n : s[j] # 0
        <4>1. n \in 2..n
          BY <1>1, <1>4
        <4> QED
          BY <1>1, <1>2, <4>1 DEF AboveRead
      <3>2. ~(k < m)
        <4>1. k < m => m \in (k + 1)..n
          BY <2>1
        <4> QED
          BY <2>1, <3>1, <4>1
      <3>3. ~(m < k)
        <4>1. m < k => k \in i..n
          <5>1. n \in Nat /\ m \in i..n
            BY <1>1, <2>1
          <5> HIDE DEF places, S, next
          <5> QED
            BY <5>1
        <4>2. m < k => k \in next
          BY <3>1, <4>1
        <4> QED
          BY <2>2, <4>2
      <3>4. k = m
        BY <2>1, <3>2, <3>3
      <3> QED
        BY <1>5, <3>1, <3>4
    <2>3. CASE next # {}
      <3>1. next \in SUBSET Nat
        BY <1>1
      <3>2. PICK p \in next : \A k \in next : p <= k
        <4> HIDE DEF next
        <4> QED
          BY <2>3, <3>1, LeastNatural
      <3>3. p \in i..n /\ s[p] = 0 /\ p > m /\ p \in 1..n /\ p \in places
        BY <1>1, <3>2
      <3>4. p - 1 \in 1..n /\ s[p - 1] \in on /\ s[p - 1] \in S
        BY <1>2, <3>3 DEF Markers
      <3>5. s[p - 1] # 0 /\ p - 1 > m /\ p - 1 \in 2..n
        <4>1. s[p - 1] # 0
          BY <1>2, <3>4
        <4>2. p - 1 # m
          BY <2>1, <4>1
        <4>3. p \in Int /\ m \in Int /\ p - 1 > m
          BY <1>1, <2>1, <3>3, <4>2
        <4> QED
          BY <1>1, <2>1, <3>3, <4>1, <4>3
      <3>6. PICK k \in 2..((p - 1) - 1) : /\ s[k] = 0 /\ s[p - 1] \in F[s[k - 1]]
                                          /\ \A j \in (k + 1)..(p - 1) : s[j] # 0
        BY <1>2, <3>5 DEF AboveRead
      <3>7. ~(k < m)
        <4>1. k < m => m \in (k + 1)..(p - 1)
          <5>1. n \in Nat /\ m \in i..n /\ p \in i..n /\ p - 1 > m
            BY <1>1, <2>1, <3>3, <3>5
          <5> HIDE DEF places, S, next
          <5> QED
            BY <5>1
        <4> QED
          BY <2>1, <3>6, <4>1
      <3>8. ~(m < k)
        <4>1. m < k => k \in next /\ k < p
          <5>1. n \in Nat /\ m \in i..n /\ p \in i..n /\ s[k] = 0
            BY <1>1, <2>1, <3>3, <3>6
          <5>2. m < k => k \in i..n /\ k < p
            <6> HIDE DEF places, S, next
            <6> QED
              BY <5>1
          <5> QED
            BY <5>1, <5>2
        <4>2. ~(p <= k) => ~(k \in next)
          BY <3>2
        <4> QED
          BY <1>1, <3>3, <3>6, <4>1, <4>2
      <3>9. k = m
        BY <2>1, <3>7, <3>8
      <3> QED
        BY <3>4, <3>6, <3>9
    <2> QED
      BY <2>2, <2>3
  <1>7. \A v \in S : F[v] \cap S # {}
    <2> SUFFICES ASSUME NEW v \in S PROVE F[v] \cap S # {}
      OBVIOUS
    <2>1. PICK m \in places : v = s[m - 1]
      OBVIOUS
    <2> HIDE DEF places, S
    <2> QED
      BY <1>6, <2>1
  <1> HIDE DEF S
  <1> QED
    BY <1>5, <1>7 DEF NoCycle

(***************************************************************************)
(* Gates that read gates: what is reached in as many steps as there are    *)
(* gates, and the values of gates without a cycle.                         *)
(***************************************************************************)
\* The sets of variables that are reached in so many steps, from the one before.
Closing(G, R, N, h) ==
    \A n \in 1..N : \A v : v \in h[n] <=> v \in h[n - 1] \/ \E u \in G : u \in h[n - 1] /\ v \in R[u]
\* Nothing more is reached among the gates.
Closed(G, R, S) == \A u \in G : u \in S => \A v \in R[u] : v \in G => v \in S

\* A set of variables reached that is closed stays so.
LEMMA StaysClosed ==
    ASSUME NEW G, NEW R, NEW N \in Nat, NEW h, Closing(G, R, N, h), NEW n \in 1..N, Closed(G, R, h[n - 1])
    PROVE  Closed(G, R, h[n])
  <1>1. \A v : v \in h[n] <=> v \in h[n - 1] \/ \E u \in G : u \in h[n - 1] /\ v \in R[u]
    BY DEF Closing
  <1> DEFINE S == h[n - 1]
             T == h[n]
  <1> HIDE DEF S, T
  <1>2. \A v : v \in T <=> v \in S \/ \E u \in G : u \in S /\ v \in R[u]
    BY <1>1 DEF S, T
  <1>3. Closed(G, R, S)
    BY DEF S
  <1>4. \A u \in G : u \in T => u \in S
    BY <1>2, <1>3 DEF Closed
  <1>5. Closed(G, R, T)
    BY <1>2, <1>3, <1>4 DEF Closed
  <1> QED
    BY <1>5 DEF T

\* Each step that does not close the set adds a gate: after as many steps as there are gates it is closed.
LEMMA AsManyStepsAsGates ==
    ASSUME NEW G, IsFiniteSet(G), NEW R, NEW N \in Nat, Cardinality(G) <= N,
           NEW h, Closing(G, R, N, h)
    PROVE  Closed(G, R, h[N])
  <1> DEFINE K(n) == G \cap h[n]
             T == {n \in Nat : n <= N => Closed(G, R, h[n]) \/ Cardinality(K(n)) >= n}
  <1>1. \A n : IsFiniteSet(K(n)) /\ Cardinality(K(n)) \in Nat /\ K(n) \in SUBSET G
    <2> SUFFICES ASSUME NEW n PROVE IsFiniteSet(K(n)) /\ Cardinality(K(n)) \in Nat /\ K(n) \in SUBSET G
      OBVIOUS
    <2>1. K(n) \in SUBSET G
      OBVIOUS
    <2> HIDE DEF K
    <2> QED
      BY <2>1, FS_Subset, FS_CardinalityType
  <1>2. 0 \in T
    <2>1. Cardinality(K(0)) >= 0
      <3> HIDE DEF K
      <3>1. Cardinality(K(0)) \in Nat
        BY <1>1
      <3> QED
        BY <3>1
    <2> QED
      BY <2>1
  <1>3. ASSUME NEW n \in Nat, n \in T PROVE n + 1 \in T
    <2> SUFFICES ASSUME n + 1 <= N, ~Closed(G, R, h[n + 1])
                 PROVE  Cardinality(K(n + 1)) >= n + 1
      OBVIOUS
    <2>1. n <= N /\ n + 1 \in 1..N /\ (n + 1) - 1 = n
      OBVIOUS
    <2>2. ~Closed(G, R, h[n])
      BY <2>1, StaysClosed
    <2>3. Cardinality(K(n)) >= n
      BY <1>3, <2>1, <2>2
    <2>4. PICK u \in G : u \in h[n] /\ \E v \in R[u] : v \in G /\ v \notin h[n]
      BY <2>2 DEF Closed
    <2>5. PICK v \in R[u] : v \in G /\ v \notin h[n]
      BY <2>4
    <2>6. \A x : x \in h[n + 1] <=> x \in h[n] \/ \E y \in G : y \in h[n] /\ x \in R[y]
      BY <2>1 DEF Closing
    <2>7. v \in h[n + 1] /\ \A x \in h[n] : x \in h[n + 1]
      BY <2>4, <2>5, <2>6
    <2>8. K(n) \cup {v} \in SUBSET K(n + 1) /\ v \notin K(n)
      BY <2>5, <2>7
    <2> HIDE DEF K
    <2>9. IsFiniteSet(K(n) \cup {v}) /\ Cardinality(K(n) \cup {v}) = Cardinality(K(n)) + 1
      BY <1>1, <2>8, FS_AddElement
    <2>10. Cardinality(K(n) \cup {v}) <= Cardinality(K(n + 1))
      BY <1>1, <2>8, FS_Subset
    <2>11. Cardinality(K(n)) \in Nat /\ Cardinality(K(n + 1)) \in Nat
      BY <1>1
    <2> QED
      BY <2>3, <2>9, <2>10, <2>11
  <1> HIDE DEF T
  <1>4. N \in T
    BY <1>2, <1>3, InductionOnNat
  <1>5. Closed(G, R, h[N]) \/ Cardinality(K(N)) >= N
    BY <1>4 DEF T
  <1>6. ASSUME Cardinality(K(N)) >= N PROVE Closed(G, R, h[N])
    <2>1. K(N) = G
      <3> HIDE DEF K
      <3>1. Cardinality(K(N)) <= Cardinality(G) /\ Cardinality(G) \in Nat
        BY <1>1, FS_Subset, FS_CardinalityType
      <3>2. Cardinality(G) = Cardinality(K(N))
        BY <1>1, <1>6, <3>1
      <3> QED
        BY <1>1, <3>2, FS_Subset
    <2>2. \A v \in G : v \in h[N]
      BY <2>1
    <2> QED
      BY <2>2 DEF Closed
  <1> QED
    BY <1>5, <1>6

\* f agrees with base outside the gates, and at the gates of S with what E makes of f.
Evaluates(f, S, G, X, base, E) ==
    /\ \A v \in X : v \notin G => f[v] = base[v]
    /\ \A v \in S : f[v] = E[<<v, f>>]
\* What E makes of f at a gate depends on what the gate reads.
Local(E, G, R, F) ==
    \A v \in G : \A f \in F : \A g \in F : (\A u \in R[v] : f[u] = g[u]) => E[<<v, f>>] = E[<<v, g>>]

\* The gates G of variables X, with values in B; R[v] is what gate v reads and E what it makes of that.
Setting(X, B, F, G, R, E) ==
    /\ F = [X -> B] /\ G \in SUBSET X /\ R \in [G -> SUBSET X]
    /\ E \in [G \X F -> B] /\ Local(E, G, R, F)
\* The gates of S have their values in f.
Partly(F, G, R, X, base, E, S) ==
    S \in SUBSET G /\ Closed(G, R, S) /\ \E f \in F : Evaluates(f, S, G, X, base, E)

\* One gate more, which reads gates that have a value.
LEMMA OneGateMore ==
    ASSUME NEW X, NEW B, NEW F, NEW G, NEW R, NEW base, NEW E, NEW S, NEW v,
           Setting(X, B, F, G, R, E), Partly(F, G, R, X, base, E, S),
           v \in G \ S, R[v] \cap (G \ S) = {}
    PROVE  Partly(F, G, R, X, base, E, S \cup {v})
  <1>0. /\ F = [X -> B] /\ G \in SUBSET X /\ R \in [G -> SUBSET X]
        /\ E \in [G \X F -> B] /\ S \in SUBSET G /\ Closed(G, R, S)
    BY DEF Setting, Partly
  <1>5. PICK f \in F : Evaluates(f, S, G, X, base, E)
    BY DEF Partly
  <1>1. Closed(G, R, S \cup {v})
    BY <1>0 DEF Closed
  <1> DEFINE g == [f EXCEPT ![v] = E[<<v, f>>]]
  <1>2. E[<<v, f>>] \in B
    BY <1>0
  <1>3. g \in F /\ g[v] = E[<<v, f>>] /\ \A u \in X : u # v => g[u] = f[u]
    BY <1>0, <1>2
  <1> HIDE DEF g
  <1>4. ASSUME NEW u \in S \cup {v} PROVE g[u] = E[<<u, g>>]
    <2>1. v \notin R[u]
      BY <1>0 DEF Closed
    <2>2. u \in G /\ (u # v => u \in S /\ f[u] = E[<<u, f>>])
      BY <1>0, <1>5 DEF Evaluates
    <2>3. \A w \in R[u] : f[w] = g[w]
      BY <1>0, <1>3, <2>1, <2>2
    <2>4. \A x \in F : \A y \in F : (\A w \in R[u] : x[w] = y[w]) => E[<<u, x>>] = E[<<u, y>>]
      BY <2>2 DEF Local, Setting
    <2>5. E[<<u, f>>] = E[<<u, g>>]
      BY <1>3, <2>3, <2>4
    <2>6. u \in X
      BY <1>0, <2>2
    <2>7. CASE u = v
      BY <1>3, <2>5, <2>7
    <2>8. CASE u # v
      BY <1>3, <2>2, <2>5, <2>6, <2>8
    <2> QED
      BY <2>7, <2>8
  <1> QED
    <2>1. Evaluates(g, S \cup {v}, G, X, base, E)
      BY <1>0, <1>3, <1>4, <1>5 DEF Evaluates
    <2> QED
      BY <1>0, <1>1, <1>3, <2>1 DEF Partly

\* Without a cycle there are values for all gates.
LEMMA EvaluatedWithoutCycle ==
    ASSUME NEW X, NEW B, NEW F, NEW G, NEW R, NEW base, NEW E,
           Setting(X, B, F, G, R, E), base \in F, IsFiniteSet(G), NoCycle(R, G)
    PROVE  \E f \in F : Evaluates(f, G, G, X, base, E)
  <1> DEFINE Some(S) == Partly(F, G, R, X, base, E, S)
             T == {n \in Nat : n <= Cardinality(G) => \E S \in SUBSET G : Cardinality(S) = n /\ Some(S)}
  <1>1. Cardinality(G) \in Nat
    BY FS_CardinalityType
  <1>2. 0 \in T
    <2>1. Cardinality({}) = 0
      BY FS_EmptySet
    <2>2. Closed(G, R, {})
      BY DEF Closed
    <2>3. Evaluates(base, {}, G, X, base, E)
      BY DEF Evaluates
    <2>4. Some({})
      BY <2>2, <2>3 DEF Partly
    <2> HIDE DEF Some
    <2> QED
      BY <2>1, <2>4
  <1> HIDE DEF Some
  <1>3. ASSUME NEW n \in Nat, n \in T PROVE n + 1 \in T
    <2> SUFFICES ASSUME n + 1 <= Cardinality(G)
                 PROVE  \E S \in SUBSET G : Cardinality(S) = n + 1 /\ Some(S)
      OBVIOUS
    <2>1. n <= Cardinality(G)
      BY <1>1
    <2>2. PICK S \in SUBSET G : Cardinality(S) = n /\ Some(S)
      BY <1>3, <2>1
    <2>3. IsFiniteSet(S)
      BY FS_Subset
    <2>4. G \ S # {}
      <3>1. CASE S = G
        BY <1>1, <2>2, <3>1
      <3> QED
        BY <3>1
    <2>5. PICK v \in G \ S : R[v] \cap (G \ S) = {}
      BY <2>4 DEF NoCycle
    <2>6. Some(S \cup {v})
      BY <2>2, <2>5, OneGateMore DEF Some
    <2>7. Cardinality(S \cup {v}) = n + 1 /\ S \cup {v} \in SUBSET G
      BY <2>2, <2>3, <2>5, FS_AddElement
    <2> QED
      BY <2>6, <2>7
  <1> HIDE DEF T
  <1>4. Cardinality(G) \in T
    BY <1>1, <1>2, <1>3, InductionOnNat
  <1>5. PICK S \in SUBSET G : Cardinality(S) = Cardinality(G) /\ Some(S)
    BY <1>1, <1>4 DEF T
  <1>6. S = G
    BY <1>5, FS_Subset
  <1> QED
    BY <1>5, <1>6 DEF Some, Partly
=============================================================================
