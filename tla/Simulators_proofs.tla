-------------------------- MODULE Simulators_proofs --------------------------
(***************************************************************************)
(* Theorems about the simulators of a synthesised network, aigsim.c        *)
(* (module AigSim) and networkSimulatorMockturtle.cpp (MockturtleSim), and *)
(* about strremove (StrRemove), which names the file of aigsim's rows.     *)
(*                                                                         *)
(* aigsim, for every model and stimulus: the lines that are printed are a  *)
(* trace in three-valued logic, which every instance of a vector with x    *)
(* agrees with, and the trailer names the bad states and the justice       *)
(* properties the trace has.  It evaluates in place and on codes, the      *)
(* properties speak of a recursive function on characters: what both       *)
(* compute is characterised variable by variable, and the two are compared *)
(* by induction over the variables.                                        *)
(*                                                                         *)
(* The program on mockturtle, for every file: the network that is built of *)
(* it is reduced and has the functions of the file, and the rows are those *)
(* of vectors.  Both the file and the network are evaluated by recursive   *)
(* functions; what they compute is characterised by a predicate on         *)
(* functions, which SetInduction shows to have one solution on each        *)
(* network.                                                                *)
(***************************************************************************)
EXTENDS AigSim, MockturtleSim, StrRemove, SetInduction, SequenceTheorems

(***************************************************************************)
(*                                                                         *)
(*                                 aigsim                                  *)
(*                                                                         *)
(***************************************************************************)

(***************************************************************************)
(* Codes and literals.                                                     *)
(***************************************************************************)
Three == {"0", "1", "x"}

LEMMA CodeChars ==
    ASSUME NEW c \in Codes
    PROVE  /\ CharOf(c) \in Three
           /\ CharOf(c) = "0" <=> c = Zero
           /\ CharOf(c) = "1" <=> c = One
           /\ CharOf(c) = "x" <=> 1 \in c
           /\ Inverted(c) \in Codes
           /\ CharOf(Inverted(c)) = Not3(CharOf(c))
  <1>1. PICK d : d = Inverted(c)
    OBVIOUS
  <1>2. d \in Codes /\ (0 \in d <=> 0 \notin c) /\ (1 \in d <=> 1 \in c)
    BY <1>1 DEF Codes, Inverted
  <1>3. ASSUME NEW e \in Codes
        PROVE  /\ (e = Zero) <=> (0 \notin e /\ 1 \notin e)
               /\ (e = One) <=> (0 \in e /\ 1 \notin e)
    <2>1. \A b \in e : b = 0 \/ b = 1
      BY DEF Codes
    <2>2. 0 \notin e /\ 1 \notin e => e = Zero
      BY <2>1 DEF Zero
    <2>3. 0 \in e /\ 1 \notin e => e = One
      BY <2>1 DEF One
    <2>4. 0 \notin Zero /\ 1 \notin Zero /\ 0 \in One /\ 1 \notin One
      BY DEF Zero, One
    <2> QED
      BY <2>2, <2>3, <2>4
  <1>4. ASSUME NEW e \in Codes
        PROVE  CharOf(e) = IF 1 \in e THEN "x" ELSE IF 0 \in e THEN "1" ELSE "0"
    BY <1>3 DEF CharOf
  <1>5. /\ CharOf(c) = IF 1 \in c THEN "x" ELSE IF 0 \in c THEN "1" ELSE "0"
        /\ CharOf(d) = IF 1 \in d THEN "x" ELSE IF 0 \in d THEN "1" ELSE "0"
    BY <1>2, <1>4
  <1>6. CharOf(d) = Not3(CharOf(c))
    BY <1>2, <1>5 DEF Not3
  <1>7. (c = Zero) <=> (0 \notin c /\ 1 \notin c)
    BY <1>3
  <1>8. (c = One) <=> (0 \in c /\ 1 \notin c)
    BY <1>3
  <1>9. /\ CharOf(c) = "0" <=> c = Zero
        /\ CharOf(c) = "1" <=> c = One
        /\ CharOf(c) = "x" <=> 1 \in c
    BY <1>5, <1>7, <1>8
  <1> QED
    BY <1>1, <1>2, <1>5, <1>6, <1>9 DEF Three

LEMMA CodeOfAnd ==
    ASSUME NEW l \in Codes, NEW r \in Codes
    PROVE  AndOf(l, r) \in Codes /\ CharOf(AndOf(l, r)) = And3(CharOf(l), CharOf(r))
  <1>1. \A c \in Codes : 0 \notin Shifted(c) /\ (1 \in Shifted(c) <=> 0 \in c)
    BY DEF Codes, Shifted
  <1>2. PICK sl, sr : sl = Shifted(l) /\ sr = Shifted(r)
    OBVIOUS
  <1>3. PICK c : c = AndOf(l, r)
    OBVIOUS
  <1>4. /\ c \in Codes
        /\ 0 \in c <=> 0 \in l /\ 0 \in r
        /\ 1 \in c <=> (1 \in l /\ (1 \in r \/ 0 \in r)) \/ (1 \in r /\ 0 \in l)
    BY <1>1, <1>2, <1>3 DEF Codes, AndOf
  <1> QED
    BY <1>3, <1>4 DEF Codes, CharOf, And3, Zero

LEMMA Literals ==
    ASSUME NEW lit \in Nat
    PROVE  /\ Var(lit) \in Nat
           /\ \A m \in Nat : lit < 2 * m => Var(lit) < m
           /\ Var(2 * lit) = lit /\ (2 * lit) % 2 = 0
  <1>1. /\ lit \div 2 \in Nat /\ lit % 2 \in 0..1 /\ lit % 2 = lit - 2 * (lit \div 2)
        /\ (2 * lit) \div 2 = lit /\ (2 * lit) % 2 = 0
    OBVIOUS
  <1>2. PICK v : v = lit \div 2
    OBVIOUS
  <1>3. \A m \in Nat : lit < 2 * m => v < m
    BY <1>1, <1>2
  <1> QED
    BY <1>1, <1>2, <1>3 DEF Var

(***************************************************************************)
(* Models.                                                                 *)
(***************************************************************************)
Signals == {lit \in Nat : Var(lit) \in 0..MaxVar}
Values3 == [0..MaxVar -> Three]
Valuations == [0..MaxVar -> Codes]

LEMMA ModelFacts ==
    ASSUME model \in Models
    PROVE  /\ model.inputs \in Nat /\ Len(model.latches) \in Nat /\ Len(model.ands) \in Nat
           /\ MaxVar \in Nat /\ MaxVar = model.inputs + Len(model.latches) + Len(model.ands)
           /\ MaxChars(model) \in Nat
           /\ model.resets \in [1..Len(model.latches) -> Nat]
           /\ \A k \in 1..Len(model.latches) : model.latches[k] \in Signals
           /\ \A k \in 1..Len(model.ands) :
                /\ model.ands[k].rhs0 \in Signals /\ Var(model.ands[k].rhs0) < AndVar(k)
                /\ model.ands[k].rhs1 \in Signals /\ Var(model.ands[k].rhs1) < AndVar(k)
  <1>1. PICK i, l, a : i = model.inputs /\ l = model.latches /\ a = model.ands
    OBVIOUS
  <1>2. PICK L : L = 0..(2 * (i + Len(l) + Len(a)) + 1)
    OBVIOUS
  <1>3. IsModel(model) /\ MaxChars(model) \in Nat
    BY ModelsAssumption
  <1>4. /\ i \in Nat /\ l \in Seq(L) /\ a \in Seq([rhs0 : L, rhs1 : L])
        /\ model.resets \in [1..Len(l) -> Nat]
        /\ \A k \in 1..Len(a) :
             a[k].rhs0 < 2 * (i + Len(l) + k) /\ a[k].rhs1 < 2 * (i + Len(l) + k)
    BY <1>1, <1>2, <1>3 DEF IsModel
  <1>5. /\ Len(l) \in Nat /\ \A k \in 1..Len(l) : l[k] \in L
        /\ Len(a) \in Nat /\ \A k \in 1..Len(a) : a[k] \in [rhs0 : L, rhs1 : L]
    <2>1. l \in Seq(L)
      BY <1>4
    <2>2. Len(l) \in Nat /\ \A k \in 1..Len(l) : l[k] \in L
      BY ONLY <2>1, LenProperties, ElementOfSeq
    <2>3. a \in Seq([rhs0 : L, rhs1 : L])
      BY <1>4
    <2>4. Len(a) \in Nat /\ \A k \in 1..Len(a) : a[k] \in [rhs0 : L, rhs1 : L]
      BY ONLY <2>3, LenProperties, ElementOfSeq
    <2> QED
      BY <2>2, <2>4
  <1>6. PICK M, n : M = MaxVar /\ n = i + Len(l)
    OBVIOUS
  <1>7. /\ n \in Nat /\ M \in Nat /\ M = n + Len(a) /\ L = 0..(2 * M + 1)
        /\ \A k : AndVar(k) = n + k
    <2>1. i \in Nat /\ Len(l) \in Nat /\ Len(a) \in Nat
      BY <1>4, <1>5
    <2>2. \A k : AndVar(k) = n + k
      BY <1>1, <1>6 DEF AndVar
    <2>3. M = n + Len(a)
      BY <1>1, <1>6, <2>2 DEF MaxVar
    <2>4. n \in Nat /\ M \in Nat /\ L = 0..(2 * M + 1)
      BY ONLY <1>2, <1>6, <2>1, <2>3
    <2> QED
      BY <2>2, <2>3, <2>4
  <1>8. ASSUME NEW lit \in L
        PROVE  lit \in Nat /\ Var(lit) \in 0..M
    <2>1. lit \in Nat /\ lit < 2 * (M + 1) /\ M + 1 \in Nat
      BY <1>7
    <2>2. Var(lit) \in Nat /\ Var(lit) < M + 1
      BY <2>1, Literals
    <2> QED
      BY <1>7, <2>1, <2>2
  <1>9. ASSUME NEW k \in 1..Len(a)
        PROVE  /\ a[k].rhs0 \in Signals /\ Var(a[k].rhs0) < AndVar(k)
               /\ a[k].rhs1 \in Signals /\ Var(a[k].rhs1) < AndVar(k)
    <2>1. a[k].rhs0 \in L /\ a[k].rhs1 \in L
      BY <1>5
    <2>2. a[k].rhs0 < 2 * (n + k) /\ a[k].rhs1 < 2 * (n + k) /\ n + k \in Nat
      BY <1>4, <1>6, <1>7, <1>5
    <2> QED
      BY <1>6, <1>7, <1>8, <2>1, <2>2, Literals DEF Signals
  <1>10. \A k \in 1..Len(l) : l[k] \in Signals
    BY <1>5, <1>6, <1>8 DEF Signals
  <1> QED
    BY <1>1, <1>3, <1>4, <1>5, <1>6, <1>7, <1>9, <1>10

\* The other literals of a model.
LEMMA ModelLits ==
    ASSUME model \in Models
    PROVE  /\ \A k \in 1..Len(model.outputs) : model.outputs[k] \in Signals
           /\ \A k \in 1..Len(model.bad) : model.bad[k] \in Signals
           /\ \A k \in 1..Len(model.constraints) : model.constraints[k] \in Signals
           /\ LoopLits \subseteq Signals
  <1>1. PICK L : L = 0..(2 * (model.inputs + Len(model.latches) + Len(model.ands)) + 1)
    OBVIOUS
  <1>2. /\ model.outputs \in Seq(L) /\ model.bad \in Seq(L) /\ model.constraints \in Seq(L)
        /\ model.fairness \in Seq(L) /\ model.justice \in Seq(Seq(L))
    BY <1>1, ModelsAssumption DEF IsModel
  <1>3. \A lit \in L : lit \in Signals
    <2> SUFFICES ASSUME NEW lit \in L PROVE lit \in Signals
      OBVIOUS
    <2>1. MaxVar \in Nat /\ L = 0..(2 * MaxVar + 1)
      BY <1>1, ModelFacts
    <2>2. lit \in Nat /\ lit < 2 * (MaxVar + 1) /\ MaxVar + 1 \in Nat
      BY <2>1
    <2>3. Var(lit) \in Nat /\ Var(lit) < MaxVar + 1
      BY <2>2, Literals
    <2> QED
      BY <2>1, <2>2, <2>3 DEF Signals
  <1>4. \A s \in Seq(L) : \A k \in 1..Len(s) : s[k] \in L
    BY ElementOfSeq
  <1>5. \A k \in 1..Len(model.justice) : model.justice[k] \in Seq(L)
    <2>1. PICK j0 : j0 = model.justice
      OBVIOUS
    <2> QED
      BY <1>2, <2>1, ElementOfSeq
  <1>6. LoopLits \subseteq L
    <2>1. \A k \in 1..Len(model.fairness) : model.fairness[k] \in L
      BY <1>2, <1>4
    <2>2. \A i \in 1..Len(model.justice) : \A k \in 1..Len(model.justice[i]) :
            model.justice[i][k] \in L
      BY <1>4, <1>5
    <2> QED
      BY <2>1, <2>2 DEF LoopLits
  <1> QED
    BY <1>2, <1>3, <1>4, <1>6

(***************************************************************************)
(* Evaluation in place.                                                    *)
(***************************************************************************)
Signed(v, lit) == IF lit % 2 = 1 THEN Not3(v) ELSE v

LEMMA DerefCode ==
    ASSUME NEW F \in Valuations, NEW lit \in Signals
    PROVE  /\ Deref(F, lit) \in Codes
           /\ CharOf(Deref(F, lit)) = Signed(CharOf(F[Var(lit)]), lit)
  <1>1. PICK v : v = Var(lit)
    OBVIOUS
  <1>2. v \in 0..MaxVar /\ F[v] \in Codes
    BY <1>1 DEF Signals, Valuations
  <1>3. Deref(F, lit) = IF lit % 2 = 1 THEN Inverted(F[v]) ELSE F[v]
    BY <1>1 DEF Deref
  <1> QED
    BY <1>1, <1>2, <1>3, CodeChars DEF Signed

\* The variables of the inputs, the latches and the ands.
LEMMA Variables ==
    ASSUME model \in Models
    PROVE  /\ AndVar(1) \in Nat /\ AndVar(1) > 0 /\ AndVar(1) <= MaxVar + 1
           /\ \A k \in 1..Len(model.ands) :
                AndVar(k) \in AndVar(1)..MaxVar /\ AndVar(k) = AndVar(1) + k - 1
           /\ \A v \in AndVar(1)..MaxVar :
                /\ v - AndVar(1) + 1 \in 1..Len(model.ands)
                /\ AndVar(v - AndVar(1) + 1) = v
           /\ \A k \in 1..Len(model.latches) :
                /\ LatchVar(k) \in Nat /\ LatchVar(k) > model.inputs
                /\ LatchVar(k) < AndVar(1) /\ LatchVar(k) - model.inputs = k
  <1>1. PICK i, l, a : i = model.inputs /\ l = Len(model.latches) /\ a = Len(model.ands)
    OBVIOUS
  <1>2. i \in Nat /\ l \in Nat /\ a \in Nat
    BY <1>1, ModelFacts
  <1>3. \A k : AndVar(k) = i + l + k /\ LatchVar(k) = i + k
    BY <1>1 DEF AndVar, LatchVar
  <1>4. MaxVar = i + l + a
    BY <1>1, <1>3 DEF MaxVar
  <1>5. PICK m, b : m = MaxVar /\ b = AndVar(1)
    OBVIOUS
  <1>6. m = i + l + a /\ b = i + l + 1
    BY <1>3, <1>4, <1>5
  <1>7. b \in Nat /\ b > 0 /\ b <= m + 1
    BY ONLY <1>2, <1>6
  <1>8. \A k \in 1..a : AndVar(k) \in b..m /\ AndVar(k) = b + k - 1
    BY ONLY <1>2, <1>3, <1>6
  <1>9. \A v \in b..m : v - b + 1 \in 1..a /\ AndVar(v - b + 1) = v
    BY ONLY <1>2, <1>3, <1>6
  <1>10. \A k \in 1..l : /\ LatchVar(k) \in Nat /\ LatchVar(k) > i
                          /\ LatchVar(k) < b /\ LatchVar(k) - i = k
    BY ONLY <1>2, <1>3, <1>6
  <1> QED
    BY <1>1, <1>5, <1>7, <1>8, <1>9, <1>10

\* F has the given inputs and latches, and every and has its value.
Evaluated(values, F) ==
    /\ F \in Valuations
    /\ \A v \in 0..MaxVar : v < AndVar(1) => F[v] = values[v]
    /\ \A k \in 1..Len(model.ands) :
         F[AndVar(k)] = AndOf(Deref(F, model.ands[k].rhs0), Deref(F, model.ands[k].rhs1))

LEMMA AfterAndsEvaluates ==
    ASSUME model \in Models, NEW values \in Valuations
    PROVE  Evaluated(values, AfterAnds(values))
  <1> DEFINE N == Len(model.ands)
             Step(F, k) == IF k = 0 THEN values
                           ELSE [F EXCEPT ![AndVar(k)] =
                                   AndOf(Deref(F, model.ands[k].rhs0),
                                         Deref(F, model.ands[k].rhs1))]
  <1>1. N \in Nat
    BY ModelFacts
  <1>2. ASSUME NEW F \in Valuations, NEW k \in 1..N
        PROVE  /\ Step(F, k) \in Valuations
               /\ \A v \in 0..MaxVar : v # AndVar(k) => Step(F, k)[v] = F[v]
               /\ Step(F, k)[AndVar(k)] = AndOf(Deref(F, model.ands[k].rhs0),
                                                Deref(F, model.ands[k].rhs1))
    <2>1. PICK c : c = AndOf(Deref(F, model.ands[k].rhs0), Deref(F, model.ands[k].rhs1))
      OBVIOUS
    <2>2. c \in Codes
      BY <2>1, ModelFacts, DerefCode, CodeOfAnd
    <2>3. Step(F, k) = [F EXCEPT ![AndVar(k)] = c]
      BY <1>1, <2>1
    <2>4. AndVar(k) \in 0..MaxVar
      BY Variables
    <2> HIDE DEF Step
    <2> QED
      BY <2>1, <2>2, <2>3, <2>4 DEF Valuations
  <1>3. PICK f : f = [k \in 0..N |-> Step(f[k - 1], k)]
    <2> DEFINE x == [k \in 0..N |-> IF k = 0 THEN 0 ELSE k - 1]
               g == [k \in 0..N |-> values]
               op == [t \in (0..N) \X Valuations \X Valuations |->
                        IF t[1] = 0 THEN values ELSE Step(t[2], t[1])]
    <2>1. /\ x \in [0..N -> Nat] /\ g \in [0..N -> Valuations]
          /\ \A n \in 0..N : n \notin {0} => x[n] < n
      BY <1>1
    <2>2. op \in [(0..N) \X Valuations \X Valuations -> Valuations]
      <3>1. \A t \in (0..N) \X Valuations \X Valuations :
              t[1] # 0 => t[1] \in 1..N /\ t[2] \in Valuations
        BY <1>1
      <3> HIDE DEF Step
      <3> QED
        BY <1>2, <3>1
    <2>3. ASSUME NEW n \in 0..N, NEW F \in Valuations
          PROVE  n # 0 => op[<<n, F, F>>] = Step(F, n)
      <3> HIDE DEF Step
      <3> QED
        OBVIOUS
    <2> HIDE DEF op, g, Step, N
    <2>4. \E f \in [0..N -> Valuations] : SolvesRecursion(f, N, {0}, g, x, x, op)
      <3> HIDE DEF x
      <3> QED
        BY <1>1, <2>1, <2>2, RecursionOnNat
    <2>5. PICK f \in [0..N -> Valuations] : SolvesRecursion(f, N, {0}, g, x, x, op)
      BY <2>4
    <2>6. ASSUME NEW n \in 0..N
          PROVE  f[n] = Step(f[n - 1], n)
      <3>1. CASE n = 0
        <4>1. f[0] = g[0]
          BY <1>1, <2>5, <3>1 DEF SolvesRecursion
        <4>2. Step(f[n - 1], n) = values /\ g[0] = values
          BY <1>1, <3>1 DEF Step, g
        <4> QED
          BY <3>1, <4>1, <4>2
      <3>2. CASE n # 0
        <4>1. f[n] = op[<<n, f[x[n]], f[x[n]]>>]
          BY <2>5, <3>2 DEF SolvesRecursion
        <4>2. x[n] = n - 1 /\ n - 1 \in 0..N
          BY <1>1, <3>2
        <4> HIDE DEF x
        <4> QED
          BY <2>3, <2>5, <3>2, <4>1, <4>2
      <3> QED
        BY <3>1, <3>2
    <2>7. f = [n \in 0..N |-> Step(f[n - 1], n)]
      BY <2>5, <2>6
    <2> QED
      BY <2>7
  <1>4. PICK h : /\ h = [k \in 0..N |-> Step(h[k - 1], k)]
                 /\ AfterAnds(values) = h[N]
    <2>1. PICK h : h = CHOOSE e : e = [k \in 0..N |-> Step(e[k - 1], k)]
      OBVIOUS
    <2>2. AfterAnds(values) = h[N]
      BY <2>1 DEF AfterAnds
    <2>3. h = [k \in 0..N |-> Step(h[k - 1], k)]
      <3> HIDE DEF Step, N
      <3> QED
        BY <1>3, <2>1
    <2> QED
      BY <2>2, <2>3
  <1>5. h[0] = values /\ \A k \in 1..N : h[k] = Step(h[k - 1], k)
    <2>1. h[0] = values
      BY <1>1, <1>4
    <2>2. \A k \in 0..N : h[k] = Step(h[k - 1], k)
      <3> HIDE DEF Step, N
      <3> QED
        BY <1>4
    <2> HIDE DEF Step
    <2> QED
      BY <1>1, <2>1, <2>2
  <1> HIDE DEF Step
  <1> DEFINE Done(F, k) ==
               /\ F \in Valuations
               /\ \A v \in 0..MaxVar : v < AndVar(1) => F[v] = values[v]
               /\ \A i \in 1..k :
                    F[AndVar(i)] = AndOf(Deref(F, model.ands[i].rhs0),
                                         Deref(F, model.ands[i].rhs1))
             T == {k \in Nat : k <= N => Done(h[k], k)}
  <1>6. 0 \in T
    BY <1>1, <1>5
  <1>7. ASSUME NEW k \in Nat, k \in T
        PROVE  k + 1 \in T
    <2> SUFFICES ASSUME k + 1 <= N
                 PROVE  Done(h[k + 1], k + 1)
      OBVIOUS
    <2>1. PICK F, G : F = h[k] /\ G = h[k + 1]
      OBVIOUS
    <2>2. Done(F, k) /\ k + 1 \in 1..N /\ G = Step(F, k + 1)
      BY <1>1, <1>5, <1>7, <2>1
    <2>3. G \in Valuations /\ \A v \in 0..MaxVar : v # AndVar(k + 1) => G[v] = F[v]
      BY <1>2, <2>2
    <2>4. \A v \in 0..MaxVar : v < AndVar(1) => G[v] = values[v]
      <3>1. AndVar(k + 1) >= AndVar(1) /\ AndVar(k + 1) \in Nat /\ AndVar(1) \in Nat
        BY <1>1, <2>2, Variables
      <3> QED
        BY <2>2, <2>3, <3>1
    <2>5. ASSUME NEW i \in 1..(k + 1)
          PROVE  /\ Deref(G, model.ands[i].rhs0) = Deref(F, model.ands[i].rhs0)
                 /\ Deref(G, model.ands[i].rhs1) = Deref(F, model.ands[i].rhs1)
      <3>1. i \in 1..N /\ i <= k + 1
        BY <1>1
      <3>2. /\ AndVar(i) = AndVar(1) + i - 1 /\ AndVar(k + 1) = AndVar(1) + (k + 1) - 1
            /\ AndVar(1) \in Nat
        BY <2>2, <3>1, Variables
      <3>3. /\ Var(model.ands[i].rhs0) \in 0..MaxVar /\ Var(model.ands[i].rhs0) < AndVar(i)
            /\ Var(model.ands[i].rhs1) \in 0..MaxVar /\ Var(model.ands[i].rhs1) < AndVar(i)
        BY <3>1, ModelFacts DEF Signals
      <3>4. MaxVar \in Nat
        BY ModelFacts
      <3>5. /\ Var(model.ands[i].rhs0) # AndVar(k + 1)
            /\ Var(model.ands[i].rhs1) # AndVar(k + 1)
        BY ONLY <1>7, <3>1, <3>2, <3>3, <3>4
      <3> QED
        BY <2>3, <3>3, <3>5 DEF Deref
    <2>6. ASSUME NEW i \in 1..(k + 1)
          PROVE  G[AndVar(i)] = AndOf(Deref(G, model.ands[i].rhs0),
                                      Deref(G, model.ands[i].rhs1))
      <3>1. CASE i = k + 1
        <4>1. G[AndVar(k + 1)] = AndOf(Deref(F, model.ands[k + 1].rhs0),
                                       Deref(F, model.ands[k + 1].rhs1))
          BY <1>2, <2>2
        <4> QED
          BY <2>5, <3>1, <4>1
      <3>2. CASE i # k + 1
        <4>1. i \in 1..k /\ i \in 1..N
          BY <1>1, <3>2
        <4>2. AndVar(i) # AndVar(k + 1) /\ AndVar(i) \in 0..MaxVar
          <5>1. /\ AndVar(i) = AndVar(1) + i - 1 /\ AndVar(i) \in AndVar(1)..MaxVar
                /\ AndVar(k + 1) = AndVar(1) + (k + 1) - 1 /\ AndVar(1) \in Nat
            BY <2>2, <4>1, Variables
          <5>2. MaxVar \in Nat
            BY ModelFacts
          <5> QED
            BY ONLY <1>7, <3>2, <4>1, <5>1, <5>2
        <4>3. F[AndVar(i)] = AndOf(Deref(F, model.ands[i].rhs0),
                                   Deref(F, model.ands[i].rhs1))
          BY <2>2, <4>1
        <4>4. G[AndVar(i)] = F[AndVar(i)]
          BY <2>3, <4>2
        <4> QED
          BY <2>5, <4>3, <4>4
      <3> QED
        BY <3>1, <3>2
    <2> QED
      BY <2>1, <2>3, <2>4, <2>6
  <1>8. N \in T
    <2> HIDE DEF T
    <2> QED
      BY <1>1, <1>6, <1>7, InductionOnNat
  <1>9. Done(h[N], N)
    <2> HIDE DEF Done
    <2> QED
      BY <1>1, <1>8
  <1> QED
    BY <1>4, <1>9 DEF Evaluated

(***************************************************************************)
(* Values in three-valued logic.                                           *)
(***************************************************************************)
LEMMA ThreeValues ==
    \A lit : \A a, b \in Three :
      /\ Signed(a, lit) \in Three /\ And3(a, b) \in Three
      /\ a # "x" => Signed(a, lit) # "x"
  BY DEF Three, Signed, Not3, And3

States3 == [1..Len(model.latches) -> Three]
Inputs3 == [1..model.inputs -> Three]

\* The operands of the and of a variable.
Left(v) == model.ands[v - AndVar(1) + 1].rhs0
Right(v) == model.ands[v - AndVar(1) + 1].rhs1

LEMMA Operands ==
    ASSUME model \in Models, NEW v \in AndVar(1)..MaxVar
    PROVE  /\ v \in 0..MaxVar
           /\ Left(v) \in Signals /\ Var(Left(v)) < v /\ Var(Left(v)) \in 0..MaxVar
           /\ Right(v) \in Signals /\ Var(Right(v)) < v /\ Var(Right(v)) \in 0..MaxVar
  <1>1. v - AndVar(1) + 1 \in 1..Len(model.ands) /\ AndVar(v - AndVar(1) + 1) = v
    BY Variables
  <1>2. v \in 0..MaxVar
    BY Variables, ModelFacts
  <1> QED
    BY <1>1, <1>2, ModelFacts DEF Left, Right, Signals

\* g gives each variable its value in a state under an input.
Valuation(state, input, g) ==
    /\ g \in Values3 /\ g[0] = "0"
    /\ \A v \in 1..model.inputs : g[v] = input[v]
    /\ \A k \in 1..Len(model.latches) : g[LatchVar(k)] = state[k]
    /\ \A v \in AndVar(1)..MaxVar :
         g[v] = And3(Signed(g[Var(Left(v))], Left(v)), Signed(g[Var(Right(v))], Right(v)))

LEMMA ValueOfValuation ==
    ASSUME model \in Models, NEW state \in States3, NEW input \in Inputs3
    PROVE  \E g : /\ Valuation(state, input, g)
                  /\ \A lit : Value(state, input, lit) = Signed(g[Var(lit)], lit)
  <1> DEFINE M == MaxVar
             B == AndVar(1)
             Source(v) == IF v = 0 THEN "0"
                          ELSE IF v <= model.inputs THEN input[v] ELSE state[v - model.inputs]
             Body(f, v) == IF v = 0 THEN "0"
                           ELSE IF v <= model.inputs THEN input[v]
                           ELSE IF v < B THEN state[v - model.inputs]
                           ELSE And3(Signed(f[Var(Left(v))], Left(v)),
                                     Signed(f[Var(Right(v))], Right(v)))
  <1>1. /\ M \in Nat /\ B \in Nat /\ B > 0 /\ B <= M + 1 /\ model.inputs \in Nat
        /\ B = model.inputs + Len(model.latches) + 1 /\ Len(model.latches) \in Nat
    BY ModelFacts, Variables DEF AndVar
  <1>2. \A v \in 0..M : v < B => Source(v) \in Three
    <2>1. \A v \in 0..M : v # 0 /\ v <= model.inputs => v \in 1..model.inputs
      BY <1>1
    <2>2. \A v \in 0..M : v < B /\ ~(v <= model.inputs) =>
            v - model.inputs \in 1..Len(model.latches)
      BY <1>1
    <2> QED
      BY <2>1, <2>2 DEF States3, Inputs3, Three
  <1>3. PICK f \in [0..M -> Three] : \A v \in 0..M : f[v] = Body(f, v)
    <2> DEFINE leaves == {v \in 0..M : v < B}
               g == [v \in 0..M |-> IF v < B THEN Source(v) ELSE "0"]
               x == [v \in 0..M |-> IF v < B THEN 0 ELSE Var(Left(v))]
               y == [v \in 0..M |-> IF v < B THEN 0 ELSE Var(Right(v))]
               op == [t \in (0..M) \X Three \X Three |->
                        And3(Signed(t[2], Left(t[1])), Signed(t[3], Right(t[1])))]
    <2>1. g \in [0..M -> Three]
      <3>1. \A v \in 0..M : (IF v < B THEN Source(v) ELSE "0") \in Three
        <4> HIDE DEF Source
        <4> QED
          BY <1>2 DEF Three
      <3> HIDE DEF Source, M, B
      <3> QED
        BY <3>1
    <2>2. op \in [(0..M) \X Three \X Three -> Three]
      BY ThreeValues
    <2>3. ASSUME NEW v \in 0..M, ~(v < B)
          PROVE  /\ x[v] \in 0..M /\ x[v] < v /\ x[v] = Var(Left(v))
                 /\ y[v] \in 0..M /\ y[v] < v /\ y[v] = Var(Right(v))
      <3>1. v \in AndVar(1)..MaxVar
        BY <1>1, <2>3
      <3> QED
        BY <2>3, <3>1, Operands
    <2>4. x \in [0..M -> Nat] /\ y \in [0..M -> Nat]
      <3>1. \A v \in 0..M : ~(v < B) => Var(Left(v)) \in Nat /\ Var(Right(v)) \in Nat
        <4>1. \A v \in 0..M : ~(v < B) => v \in AndVar(1)..MaxVar
          BY <1>1
        <4> QED
          BY <1>1, <4>1, Operands
      <3> HIDE DEF M, B
      <3> QED
        BY <3>1
    <2>5. ASSUME NEW v \in 0..M, NEW a \in Three, NEW b \in Three
          PROVE  op[<<v, a, b>>] = And3(Signed(a, Left(v)), Signed(b, Right(v)))
      OBVIOUS
    <2>6. \A v \in 0..M : v \in leaves <=> v < B
      OBVIOUS
    <2> HIDE DEF leaves, x, y, op, M, B
    <2>7. PICK f \in [0..M -> Three] : SolvesRecursion(f, M, leaves, g, x, y, op)
      <3> HIDE DEF g
      <3>1. \A v \in 0..M : v \notin leaves => x[v] < v /\ y[v] < v
        BY <2>3, <2>6
      <3> QED
        BY <1>1, <2>1, <2>2, <2>4, <3>1, RecursionOnNat
    <2>8. ASSUME NEW v \in 0..M
          PROVE  f[v] = Body(f, v)
      <3>1. CASE v < B
        <4>1. f[v] = g[v]
          BY <2>6, <2>7, <3>1 DEF SolvesRecursion
        <4>2. g[v] = Source(v)
          BY <3>1
        <4>3. Body(f, v) = Source(v)
          BY <3>1
        <4> QED
          BY <4>1, <4>2, <4>3
      <3>2. CASE ~(v < B)
        <4>1. f[v] = op[<<v, f[x[v]], f[y[v]]>>]
          <5> HIDE DEF g
          <5> QED
            BY <2>6, <2>7, <3>2 DEF SolvesRecursion
        <4>2. /\ f[x[v]] \in Three /\ f[y[v]] \in Three
              /\ x[v] = Var(Left(v)) /\ y[v] = Var(Right(v))
          BY <2>3, <3>2
        <4>3. f[v] = And3(Signed(f[Var(Left(v))], Left(v)), Signed(f[Var(Right(v))], Right(v)))
          BY <2>5, <4>1, <4>2
        <4>4. v # 0 /\ ~(v <= model.inputs)
          BY <1>1, <3>2
        <4> QED
          BY <3>2, <4>3, <4>4
      <3> QED
        BY <3>1, <3>2
    <2> QED
      BY <2>8
  <1>4. PICK h : /\ h = [v \in 0..M |-> Body(h, v)]
                 /\ \A lit : Value(state, input, lit) = Signed(h[Var(lit)], lit)
    <2>1. PICK h : h = CHOOSE e : e = [v \in 0..M |-> Body(e, v)]
      OBVIOUS
    <2>2. \A lit : Value(state, input, lit) = Signed(h[Var(lit)], lit)
      BY <2>1 DEF Value, Signed, Left, Right
    <2>3. f = [v \in 0..M |-> Body(f, v)]
      <3> HIDE DEF Body, M
      <3> QED
        BY <1>3
    <2>4. h = [v \in 0..M |-> Body(h, v)]
      <3> HIDE DEF Body, M
      <3> QED
        BY <2>1, <2>3
    <2> QED
      BY <2>2, <2>4
  <1>5. \A v \in 0..M : h[v] = Body(h, v)
    <2> HIDE DEF Body, M
    <2> QED
      BY <1>4
  <1> SUFFICES Valuation(state, input, h)
    BY <1>4
  <1>6. ASSUME NEW v \in 0..M, v < B
        PROVE  h[v] = Source(v) /\ h[v] \in Three
    BY <1>2, <1>5, <1>6
  <1>7. ASSUME NEW v \in AndVar(1)..MaxVar
        PROVE  h[v] = And3(Signed(h[Var(Left(v))], Left(v)), Signed(h[Var(Right(v))], Right(v)))
    BY <1>1, <1>5
  <1>8. \A v \in 0..M : h[v] \in Three
    <2> DEFINE T == {n \in Nat : \A v \in 0..M : v < n => h[v] \in Three}
    <2>1. 0 \in T
      OBVIOUS
    <2>2. ASSUME NEW n \in Nat, n \in T
          PROVE  n + 1 \in T
      <3> SUFFICES ASSUME n \in 0..M PROVE h[n] \in Three
        BY <1>1, <2>2
      <3>1. CASE n < B
        BY <1>6, <3>1
      <3>2. CASE ~(n < B)
        <4>1. n \in AndVar(1)..MaxVar
          BY <1>1, <3>2
        <4>2. PICK a, b : a = h[Var(Left(n))] /\ b = h[Var(Right(n))]
          OBVIOUS
        <4>3. a \in Three /\ b \in Three
          BY <2>2, <4>1, <4>2, Operands
        <4>4. PICK c, d : c = Signed(a, Left(n)) /\ d = Signed(b, Right(n))
          OBVIOUS
        <4>5. c \in Three /\ d \in Three
          BY <4>3, <4>4, ThreeValues
        <4>6. h[n] = And3(c, d)
          BY <1>7, <4>1, <4>2, <4>4
        <4> QED
          BY <4>5, <4>6, ThreeValues
      <3> QED
        BY <3>1, <3>2
    <2>3. M + 1 \in T
      <3> HIDE DEF T
      <3> QED
        BY <1>1, <2>1, <2>2, InductionOnNat
    <2> QED
      BY <1>1, <2>3
  <1>9. h \in Values3
    <2>1. h = [v \in 0..M |-> h[v]]
      <3> HIDE DEF Body, M
      <3> QED
        BY <1>4, <1>5
    <2> QED
      BY <1>8, <2>1 DEF Values3
  <1>10. h[0] = "0" /\ \A v \in 1..model.inputs : h[v] = input[v]
    BY <1>1, <1>6
  <1>11. ASSUME NEW k \in 1..Len(model.latches)
         PROVE  h[LatchVar(k)] = state[k]
    <2>1. LatchVar(k) \in 0..M /\ LatchVar(k) < B
      BY <1>1, Variables
    <2>2. LatchVar(k) # 0 /\ ~(LatchVar(k) <= model.inputs) /\ LatchVar(k) - model.inputs = k
      BY <1>1, Variables
    <2> QED
      BY <1>6, <2>1, <2>2
  <1> QED
    BY <1>7, <1>9, <1>10, <1>11 DEF Valuation

\* What is more precise: a value, and the values of a recursion.
LEMMA MorePrecise ==
    \A lit : \A a, b, c, d \in Three :
       a \in {"x", c} /\ b \in {"x", d} =>
         /\ Signed(a, lit) \in {"x", Signed(c, lit)}
         /\ And3(a, b) \in {"x", And3(c, d)}
  <1> SUFFICES ASSUME NEW a \in Three, NEW b \in Three, NEW c \in Three, NEW d \in Three, NEW lit,
                      a \in {"x", c}, b \in {"x", d}
               PROVE  /\ Signed(a, lit) \in {"x", Signed(c, lit)}
                      /\ And3(a, b) \in {"x", And3(c, d)}
    OBVIOUS
  <1>1. Signed(a, lit) \in {"x", Signed(c, lit)}
    BY DEF Three, Signed, Not3
  <1>2. And3(a, b) \in {"x", And3(c, d)}
    BY DEF Three, And3
  <1> QED
    BY <1>1, <1>2

LEMMA MonotoneValuation ==
    ASSUME model \in Models, NEW state, NEW input, NEW instance, NEW g, NEW h,
           Valuation(state, input, g), Valuation(state, instance, h),
           \A k \in 1..model.inputs : input[k] \in {"x", instance[k]}
    PROVE  \A v \in 0..MaxVar : g[v] \in {"x", h[v]}
  <1> DEFINE T == {n \in Nat : \A v \in 0..MaxVar : v < n => g[v] \in {"x", h[v]}}
  <1>1. 0 \in T
    OBVIOUS
  <1>2. ASSUME NEW n \in Nat, n \in T
        PROVE  n + 1 \in T
    <2> SUFFICES ASSUME n \in 0..MaxVar PROVE g[n] \in {"x", h[n]}
      BY ModelFacts, <1>2
    <2>1. CASE n = 0
      BY <2>1 DEF Valuation
    <2>2. CASE n \in 1..model.inputs
      BY <2>2 DEF Valuation
    <2>3. CASE n > model.inputs /\ n < AndVar(1)
      <3>1. n - model.inputs \in 1..Len(model.latches) /\ LatchVar(n - model.inputs) = n
        BY <2>3, ModelFacts DEF AndVar, LatchVar
      <3> QED
        BY <3>1 DEF Valuation
    <2>4. CASE n >= AndVar(1)
      <3>1. n \in AndVar(1)..MaxVar
        BY <2>4, ModelFacts, Variables
      <3>2. PICK l, r : l = Var(Left(n)) /\ r = Var(Right(n))
        OBVIOUS
      <3>3. /\ l \in 0..MaxVar /\ l < n /\ r \in 0..MaxVar /\ r < n
        BY <3>1, <3>2, Operands
      <3>4. /\ g[l] \in Three /\ g[r] \in Three /\ h[l] \in Three /\ h[r] \in Three
            /\ g[l] \in {"x", h[l]} /\ g[r] \in {"x", h[r]}
        BY <1>2, <3>3 DEF Valuation, Values3
      <3>5. /\ Signed(g[l], Left(n)) \in {"x", Signed(h[l], Left(n))}
            /\ Signed(g[r], Right(n)) \in {"x", Signed(h[r], Right(n))}
        BY <3>4, MorePrecise
      <3>6. /\ g[n] = And3(Signed(g[l], Left(n)), Signed(g[r], Right(n)))
            /\ h[n] = And3(Signed(h[l], Left(n)), Signed(h[r], Right(n)))
        BY <3>1, <3>2 DEF Valuation
      <3>7. PICK a, b, c, d : /\ a = Signed(g[l], Left(n)) /\ b = Signed(g[r], Right(n))
                              /\ c = Signed(h[l], Left(n)) /\ d = Signed(h[r], Right(n))
        OBVIOUS
      <3>8. a \in Three /\ b \in Three /\ c \in Three /\ d \in Three
        BY <3>4, <3>7, ThreeValues
      <3>9. And3(a, b) \in {"x", And3(c, d)}
        BY <3>5, <3>7, <3>8, MorePrecise
      <3> QED
        BY <3>6, <3>7, <3>9
    <2> QED
      BY <2>1, <2>2, <2>3, <2>4, ModelFacts, Variables
  <1>3. MaxVar + 1 \in T
    <2> HIDE DEF T
    <2> QED
      BY ModelFacts, <1>1, <1>2, InductionOnNat
  <1> QED
    BY ModelFacts, <1>3

LEMMA UniqueValuation ==
    ASSUME model \in Models, NEW state, NEW input, NEW g, NEW h,
           Valuation(state, input, g), Valuation(state, input, h)
    PROVE  g = h
  <1>1. \A k \in 1..model.inputs : input[k] \in {"x", input[k]}
    OBVIOUS
  <1>2. \A v \in 0..MaxVar : g[v] \in {"x", h[v]} /\ h[v] \in {"x", g[v]}
    BY <1>1, MonotoneValuation
  <1>3. \A v \in 0..MaxVar : g[v] = h[v]
    BY <1>2
  <1>4. g = [v \in 0..MaxVar |-> g[v]] /\ h = [v \in 0..MaxVar |-> h[v]]
    BY DEF Valuation, Values3
  <1>5. [v \in 0..MaxVar |-> g[v]] = [v \in 0..MaxVar |-> h[v]]
    BY <1>3
  <1> QED
    BY <1>4, <1>5

\* The characters of the latches.
CharsOf(values) == [k \in 1..Len(model.latches) |-> CharOf(values[LatchVar(k)])]
InputsOf(values) == [k \in 1..model.inputs |-> CharOf(values[k])]

\* What is evaluated on codes is the valuation in characters.
LEMMA CodesAreValues ==
    ASSUME model \in Models, NEW values \in Valuations, values[0] = Zero,
           NEW F, Evaluated(values, F)
    PROVE  /\ CharsOf(values) \in States3 /\ InputsOf(values) \in Inputs3
           /\ \A lit \in Signals :
                CharOf(Deref(F, lit)) = Value(CharsOf(values), InputsOf(values), lit)
  <1> DEFINE G == [v \in 0..MaxVar |-> CharOf(F[v])]
             state == CharsOf(values)
             input == InputsOf(values)
  <1>1. \A v \in 0..MaxVar : values[v] \in Codes /\ F[v] \in Codes
    BY DEF Valuations, Evaluated
  <1>2. MaxVar \in Nat /\ AndVar(1) \in Nat /\ AndVar(1) <= MaxVar + 1 /\ model.inputs \in Nat
        /\ model.inputs < AndVar(1) /\ AndVar(1) > 0
    BY ModelFacts, Variables DEF AndVar
  <1>3. \A k \in 1..Len(model.latches) : LatchVar(k) \in 0..MaxVar /\ LatchVar(k) < AndVar(1)
    BY <1>2, Variables
  <1>4. \A k \in 1..model.inputs : k \in 0..MaxVar /\ k < AndVar(1)
    BY <1>2
  <1>5. state \in States3
    BY <1>1, <1>3, CodeChars DEF CharsOf, States3
  <1>6. input \in Inputs3
    BY <1>1, <1>4, CodeChars DEF InputsOf, Inputs3
  <1>7. G \in Values3
    BY <1>1, CodeChars DEF Values3
  <1>8. \A v \in 0..MaxVar : G[v] = CharOf(F[v])
    OBVIOUS
  <1> HIDE DEF G
  <1>9. \A lit \in Signals : CharOf(Deref(F, lit)) = Signed(G[Var(lit)], lit)
    BY <1>8, DerefCode DEF Signals, Evaluated
  <1>10. Valuation(state, input, G)
    <2>1. \A v \in 0..MaxVar : v < AndVar(1) => G[v] = CharOf(values[v])
      BY <1>8 DEF Evaluated
    <2>2. G[0] = "0"
      <3>1. 0 \in 0..MaxVar /\ 0 < AndVar(1)
        BY <1>2
      <3>2. values[0] \in Codes /\ G[0] = CharOf(values[0])
        BY <1>1, <2>1, <3>1
      <3> QED
        BY <3>2, CodeChars
    <2>3. \A v \in 1..model.inputs : G[v] = input[v]
      BY <1>4, <2>1 DEF InputsOf
    <2>4. \A k \in 1..Len(model.latches) : G[LatchVar(k)] = state[k]
      BY <1>3, <2>1 DEF CharsOf
    <2>5. ASSUME NEW v \in AndVar(1)..MaxVar
          PROVE  G[v] = And3(Signed(G[Var(Left(v))], Left(v)), Signed(G[Var(Right(v))], Right(v)))
      <3>1. PICK k : k = v - AndVar(1) + 1
        OBVIOUS
      <3>2. k \in 1..Len(model.ands) /\ AndVar(k) = v
        BY <3>1, Variables
      <3>3. PICK l, r : l = Deref(F, Left(v)) /\ r = Deref(F, Right(v))
        OBVIOUS
      <3>4. F[v] = AndOf(l, r)
        BY <3>1, <3>2, <3>3 DEF Evaluated, Left, Right
      <3>5. Left(v) \in Signals /\ Right(v) \in Signals /\ v \in 0..MaxVar
        BY Operands
      <3>6. l \in Codes /\ r \in Codes
        BY <3>3, <3>5, DerefCode DEF Evaluated
      <3>7. CharOf(F[v]) = And3(CharOf(l), CharOf(r))
        BY <3>4, <3>6, CodeOfAnd
      <3> QED
        BY <1>8, <1>9, <3>3, <3>5, <3>7
    <2> QED
      BY <1>7, <2>2, <2>3, <2>4, <2>5 DEF Valuation
  <1>11. PICK g : /\ Valuation(state, input, g)
                  /\ \A lit : Value(state, input, lit) = Signed(g[Var(lit)], lit)
    BY <1>5, <1>6, ValueOfValuation
  <1>12. G = g
    BY <1>10, <1>11, UniqueValuation
  <1> QED
    BY <1>5, <1>6, <1>9, <1>11, <1>12

(***************************************************************************)
(* A line.                                                                 *)
(***************************************************************************)
Outputs3 == [1..Len(model.outputs) -> Three]
LineType == [state : States3, input : Inputs3, output : Outputs3, next : States3]
ValueIn(l, lit) == Value(l.state, l.input, lit)

\* A line has the outputs and the next state of its state and inputs, violates no
\* constraint, and agrees with every instance of its inputs.
TrueLine(l) ==
    /\ l \in LineType
    /\ \A k \in 1..Len(model.outputs) :
         ~IsLatch(model.outputs[k]) => l.output[k] = ValueIn(l, model.outputs[k])
    /\ \A k \in 1..Len(model.latches) : l.next[k] = ValueIn(l, model.latches[k])
    /\ \A k \in 1..Len(model.constraints) : ValueIn(l, model.constraints[k]) # "0"

\* The instances of a line with x have the outputs that are not x.
AgreesWith(l) ==
    \A k \in 1..Len(model.outputs), v \in [1..model.inputs -> {"0", "1"}] :
      (\A i \in 1..model.inputs : l.input[i] \in {"x", v[i]}) =>
        IsLatch(model.outputs[k]) \/ l.output[k] \in {"x", Value(l.state, v, model.outputs[k])}

LEMMA TrueLinesAgree ==
    ASSUME model \in Models, NEW l, TrueLine(l)
    PROVE  AgreesWith(l)
  <1> SUFFICES ASSUME NEW k \in 1..Len(model.outputs), NEW v \in [1..model.inputs -> {"0", "1"}],
                      \A i \in 1..model.inputs : l.input[i] \in {"x", v[i]},
                      ~IsLatch(model.outputs[k])
               PROVE  l.output[k] \in {"x", Value(l.state, v, model.outputs[k])}
    BY DEF AgreesWith
  <1>1. PICK o : o = model.outputs[k]
    OBVIOUS
  <1>2. o \in Signals /\ l.output[k] = Value(l.state, l.input, o)
    BY <1>1, ModelLits DEF TrueLine, ValueIn
  <1>3. l.state \in States3 /\ l.input \in Inputs3 /\ v \in Inputs3
    BY DEF TrueLine, LineType, Inputs3, Three
  <1>4. PICK g : /\ Valuation(l.state, l.input, g)
                 /\ \A lit : Value(l.state, l.input, lit) = Signed(g[Var(lit)], lit)
    BY <1>3, ValueOfValuation
  <1>5. PICK h : /\ Valuation(l.state, v, h)
                 /\ \A lit : Value(l.state, v, lit) = Signed(h[Var(lit)], lit)
    BY <1>3, ValueOfValuation
  <1>6. \A n \in 0..MaxVar : g[n] \in {"x", h[n]}
    BY <1>4, <1>5, MonotoneValuation
  <1>7. Var(o) \in 0..MaxVar
    BY <1>2 DEF Signals
  <1>8. g[Var(o)] \in Three /\ h[Var(o)] \in Three
    BY <1>4, <1>5, <1>7 DEF Valuation, Values3
  <1>9. Signed(g[Var(o)], o) \in {"x", Signed(h[Var(o)], o)}
    BY <1>6, <1>7, <1>8, MorePrecise
  <1> QED
    BY <1>1, <1>2, <1>4, <1>5, <1>9

\* The line printed for a vector that violates no constraint, and what the codes
\* of the variables say of it.
LEMMA PrintedLine ==
    ASSUME model \in Models, current \in Valuations, current[0] = Zero,
           NEW before, before = AfterAnds(current), ~Violated(before),
           NEW after, after = AfterLatches(before),
           NEW l, l = Line(before, after)
    PROVE  /\ TrueLine(l)
           /\ l.state = CharsOf(current) /\ l.state = CharsOf(before) /\ l.next = CharsOf(after)
           /\ before \in Valuations /\ after \in Valuations /\ after[0] = Zero
           /\ \A lit \in Signals : /\ Deref(before, lit) \in Codes
                                   /\ CharOf(Deref(before, lit)) = ValueIn(l, lit)
  <1>1. Evaluated(current, before)
    BY AfterAndsEvaluates
  <1>2. PICK state, input : state = CharsOf(current) /\ input = InputsOf(current)
    OBVIOUS
  <1>3. /\ state \in States3 /\ input \in Inputs3
        /\ \A lit \in Signals : CharOf(Deref(before, lit)) = Value(state, input, lit)
    BY <1>1, <1>2, CodesAreValues
  <1>4. MaxVar \in Nat /\ AndVar(1) \in Nat /\ AndVar(1) <= MaxVar + 1 /\ model.inputs \in Nat
        /\ model.inputs < AndVar(1) /\ AndVar(1) > 0
        /\ AndVar(1) = model.inputs + Len(model.latches) + 1 /\ Len(model.latches) \in Nat
    BY ModelFacts, Variables DEF AndVar
  <1>5. before \in Valuations /\ \A v \in 0..MaxVar : before[v] \in Codes
    BY <1>1 DEF Evaluated, Valuations
  <1>6. \A v \in 0..MaxVar : v < AndVar(1) => before[v] = current[v]
    BY <1>1 DEF Evaluated
  <1>7. \A k \in 1..Len(model.latches) : /\ LatchVar(k) \in 0..MaxVar /\ LatchVar(k) < AndVar(1)
                                         /\ LatchVar(k) > model.inputs /\ LatchVar(k) - model.inputs = k
    BY <1>4, Variables
  <1>8. \A lit \in Signals : Deref(before, lit) \in Codes
    BY <1>5, DerefCode
  <1>9. /\ after = [v \in 0..MaxVar |->
                      IF v > model.inputs /\ v < AndVar(1)
                      THEN Deref(before, model.latches[v - model.inputs]) ELSE before[v]]
    BY <1>5 DEF AfterLatches, Valuations
  <1>10. \A v \in 0..MaxVar : ~(v > model.inputs /\ v < AndVar(1)) => after[v] = before[v]
    BY <1>9
  <1>11. \A k \in 1..Len(model.latches) : after[LatchVar(k)] = Deref(before, model.latches[k])
    BY <1>7, <1>9
  <1>12. after \in Valuations
    <2>1. ASSUME NEW v \in 0..MaxVar
          PROVE  (IF v > model.inputs /\ v < AndVar(1)
                  THEN Deref(before, model.latches[v - model.inputs]) ELSE before[v]) \in Codes
      <3>1. CASE v > model.inputs /\ v < AndVar(1)
        <4>1. v - model.inputs \in 1..Len(model.latches)
          BY <1>4, <3>1
        <4> QED
          BY <1>8, <3>1, <4>1, ModelFacts
      <3> QED
        BY <1>5, <3>1
    <2> QED
      BY <1>9, <2>1 DEF Valuations
  <1>13. after[0] = Zero
    BY <1>4, <1>6, <1>10
  <1>14. ASSUME NEW F, NEW v \in Nat
         PROVE  Put(F, 2 * v) = CharOf(F[v])
    <2>1. PICK w : w = 2 * v
      OBVIOUS
    <2>2. Var(w) = v /\ w % 2 = 0
      BY <2>1, Literals
    <2>3. Put(F, w) = CharOf(IF w % 2 = 1 THEN Inverted(F[Var(w)]) ELSE F[Var(w)])
      BY DEF Put, Deref
    <2> QED
      BY <2>1, <2>2, <2>3
  <1>16. /\ l.state = [k \in 1..Len(model.latches) |-> Put(before, 2 * LatchVar(k))]
         /\ l.input = [k \in 1..model.inputs |-> Put(after, 2 * k)]
         /\ l.output = [k \in 1..Len(model.outputs) |-> Put(after, model.outputs[k])]
         /\ l.next = [k \in 1..Len(model.latches) |-> Put(after, 2 * LatchVar(k))]
         /\ l = [state |-> l.state, input |-> l.input, output |-> l.output, next |-> l.next]
    BY DEF Line
  <1>17. l.state = state /\ l.state = CharsOf(before)
    <2>1. \A k \in 1..Len(model.latches) : /\ Put(before, 2 * LatchVar(k)) = CharOf(before[LatchVar(k)])
                                           /\ before[LatchVar(k)] = current[LatchVar(k)]
      <3> SUFFICES ASSUME NEW k \in 1..Len(model.latches)
                   PROVE  /\ Put(before, 2 * LatchVar(k)) = CharOf(before[LatchVar(k)])
                          /\ before[LatchVar(k)] = current[LatchVar(k)]
        OBVIOUS
      <3>1. PICK v : v = LatchVar(k)
        OBVIOUS
      <3>2. v \in 0..MaxVar /\ v < AndVar(1)
        BY <1>7, <3>1
      <3>3. v \in Nat
        BY <3>2
      <3> QED
        BY <1>6, <1>14, <3>1, <3>2, <3>3
    <2>2. /\ state = [k \in 1..Len(model.latches) |-> CharOf(current[LatchVar(k)])]
          /\ CharsOf(before) = [k \in 1..Len(model.latches) |-> CharOf(before[LatchVar(k)])]
      BY <1>2 DEF CharsOf
    <2> QED
      BY <1>16, <2>1, <2>2
  <1>18. l.input = input
    <2>1. ASSUME NEW k \in 1..model.inputs
          PROVE  Put(after, 2 * k) = CharOf(current[k])
      <3>1. k \in Nat /\ k \in 0..MaxVar /\ k < AndVar(1) /\ ~(k > model.inputs)
        BY <1>4
      <3>2. after[k] = current[k]
        BY <1>6, <1>10, <3>1
      <3> QED
        BY <1>14, <3>1, <3>2
    <2>2. input = [k \in 1..model.inputs |-> CharOf(current[k])]
      BY <1>2 DEF InputsOf
    <2> QED
      BY <1>16, <2>1, <2>2
  <1>19. l.next = CharsOf(after) /\ l.next \in States3
    <2>1. ASSUME NEW k \in 1..Len(model.latches)
          PROVE  /\ Put(after, 2 * LatchVar(k)) = CharOf(after[LatchVar(k)])
                 /\ CharOf(after[LatchVar(k)]) \in Three
      <3>1. PICK v : v = LatchVar(k)
        OBVIOUS
      <3>2. v \in 0..MaxVar /\ v \in Nat
        BY <1>4, <1>7, <3>1
      <3>3. after[v] \in Codes
        BY <1>12, <3>2 DEF Valuations
      <3> QED
        BY <1>14, <3>1, <3>2, <3>3, CodeChars
    <2> QED
      BY <1>16, <2>1 DEF CharsOf, States3
  <1>20. \A lit \in Signals : CharOf(Deref(before, lit)) = ValueIn(l, lit)
    BY <1>3, <1>17, <1>18 DEF ValueIn
  <1>21. TrueLine(l)
    <2>1. l.output \in Outputs3
      <3>1. \A k \in 1..Len(model.outputs) : Put(after, model.outputs[k]) \in Three
        BY <1>12, ModelLits, DerefCode, CodeChars DEF Put
      <3> QED
        BY <1>16, <3>1 DEF Outputs3
    <2>2. l \in LineType
      BY <1>3, <1>16, <1>17, <1>18, <1>19, <2>1 DEF LineType
    <2>3. ASSUME NEW k \in 1..Len(model.outputs), ~IsLatch(model.outputs[k])
          PROVE  l.output[k] = ValueIn(l, model.outputs[k])
      <3>1. PICK o : o = model.outputs[k]
        OBVIOUS
      <3>2. o \in Signals /\ Var(o) \in 0..MaxVar
        BY <3>1, ModelLits DEF Signals
      <3>3. after[Var(o)] = before[Var(o)]
        BY <1>10, <2>3, <3>1, <3>2 DEF IsLatch
      <3>4. Put(after, o) = CharOf(Deref(before, o))
        BY <3>3 DEF Put, Deref
      <3> QED
        BY <1>16, <1>20, <3>1, <3>2, <3>4
    <2>4. \A k \in 1..Len(model.latches) : l.next[k] = ValueIn(l, model.latches[k])
      <3>1. \A k \in 1..Len(model.latches) : l.next[k] = CharOf(after[LatchVar(k)])
        BY <1>19 DEF CharsOf
      <3> QED
        BY <1>11, <1>20, <3>1, ModelFacts
    <2>5. ASSUME NEW k \in 1..Len(model.constraints)
          PROVE  ValueIn(l, model.constraints[k]) # "0"
      <3>1. PICK c : c = Deref(before, model.constraints[k])
        OBVIOUS
      <3>2. c \in Codes /\ c # Zero /\ CharOf(c) = ValueIn(l, model.constraints[k])
        BY <1>8, <1>20, <3>1, ModelLits DEF Violated
      <3> QED
        BY <3>2, CodeChars
    <2> QED
      BY <2>2, <2>3, <2>4, <2>5 DEF TrueLine
  <1> QED
    BY <1>2, <1>5, <1>8, <1>12, <1>13, <1>17, <1>19, <1>20, <1>21

(***************************************************************************)
(* The invariant.                                                          *)
(***************************************************************************)
LatchCodes == [1..Len(model.latches) -> Codes]
ResetState == [k \in 1..Len(model.latches) |-> ResetChar(k)]
StateChars(s) == [k \in 1..Len(model.latches) |-> CharOf(s[k])]

\* The lines chain from the reset state to the state the latches are in.
Trace ==
    /\ lines \in Seq(LineType)
    /\ \A i \in 1..Len(lines) : TrueLine(lines[i])
    /\ \A i \in 1..Len(lines) :
         lines[i].state = IF i = 1 THEN ResetState ELSE lines[i - 1].next
    /\ CharsOf(current) = IF lines = <<>> THEN ResetState ELSE lines[Len(lines)].next

\* The bad states that some line reached.
BadReached ==
    {k \in 1..Len(model.bad) : \E i \in 1..Len(lines) : ValueAt(i, model.bad[k]) = "1"}

\* When loops matter, the states of all lines are remembered, and of each literal
\* of fairness and justice the last line where it was 1.
Loops ==
    /\ states \in Seq(LatchCodes)
    /\ FindLoop =>
         /\ Len(states) = Len(lines)
         /\ \A i \in 1..Len(lines) : lines[i].state = StateChars(states[i])
         /\ \A lit \in LoopLits, i \in 1..Len(lines) :
              last[lit] >= i <=> \E h \in i..Len(lines) : ValueAt(h, lit) = "1"

AigInv ==
    /\ model \in Models /\ AigSimTypeOK /\ current[0] = Zero
    /\ Trace /\ Loops
    /\ bad = BadReached
    /\ status \in {"done", "violated"} => told = bad
    /\ JusticeWitnessed

LEMMA RigidValues ==
    ASSUME model' = model
    PROVE  /\ \A s, i, lit : Value(s, i, lit)' = Value(s, i, lit)
           /\ \A l : TrueLine(l)' <=> TrueLine(l)
           /\ \A i, lit : ValueAt(i, lit)' = ValueIn(lines'[i], lit)
           /\ LineType' = LineType /\ LatchCodes' = LatchCodes /\ ResetState' = ResetState
           /\ \A s : StateChars(s)' = StateChars(s)
           /\ \A v : CharsOf(v)' = CharsOf(v)
           /\ LoopLits' = LoopLits /\ (FindLoop' <=> FindLoop) /\ MaxVar' = MaxVar
  <1>1. \A s, i, lit : Value(s, i, lit)' = Value(s, i, lit)
    BY DEF Value, Var, MaxVar, AndVar
  <1>2. LineType' = LineType
    BY DEF LineType, States3, Inputs3, Outputs3
  <1>3. \A l : TrueLine(l)' <=> TrueLine(l)
    BY <1>1, <1>2 DEF TrueLine, ValueIn, IsLatch, Var, AndVar
  <1>4. \A i, lit : ValueAt(i, lit)' = ValueIn(lines'[i], lit)
    BY <1>1 DEF ValueAt, ValueIn
  <1>5. LatchCodes' = LatchCodes
    BY DEF LatchCodes
  <1>6. ResetState' = ResetState
    BY DEF ResetState, ResetChar
  <1>7. \A s : StateChars(s)' = StateChars(s)
    BY DEF StateChars
  <1>8. \A v : CharsOf(v)' = CharsOf(v)
    BY DEF CharsOf, LatchVar
  <1>9. LoopLits' = LoopLits /\ (FindLoop' <=> FindLoop)
    BY DEF LoopLits, FindLoop
  <1>10. MaxVar' = MaxVar
    BY DEF MaxVar, AndVar
  <1> QED
    BY <1>1, <1>2, <1>3, <1>4, <1>5, <1>6, <1>7, <1>8, <1>9, <1>10

\* A step that prints no line and leaves the latches alone.
LEMMA NoLinePrinted ==
    ASSUME AigInv, UNCHANGED <<model, lines, loopVars>>, CharsOf(current') = CharsOf(current)
    PROVE  Trace' /\ Loops' /\ BadReached' = BadReached
  <1>1. Trace'
    <2>1. CharsOf(current)' = CharsOf(current')
      BY DEF CharsOf, LatchVar
    <2> QED
      BY <2>1, RigidValues DEF AigInv, Trace
  <1>2. \A i, lit : ValueAt(i, lit)' = ValueAt(i, lit)
    BY RigidValues DEF ValueAt, ValueIn
  <1>3. Loops'
    BY <1>2, RigidValues DEF AigInv, Loops, loopVars
  <1>4. BadReached' = BadReached
    BY <1>2 DEF BadReached
  <1> QED
    BY <1>1, <1>3, <1>4

LEMMA AigInit == Init => AigInv
  <1> SUFFICES ASSUME Init PROVE AigInv
    OBVIOUS
  <1>1. /\ model \in Models /\ lines = <<>> /\ states = <<>> /\ bad = {} /\ told = {}
        /\ status = "running" /\ toldJustice = {}
        /\ current = [v \in 0..MaxVar |-> IF v > model.inputs /\ v < AndVar(1)
                                         THEN ResetValue(v - model.inputs) ELSE Zero]
    BY DEF Init
  <1>2. /\ MaxVar \in Nat /\ AndVar(1) \in Nat /\ AndVar(1) <= MaxVar + 1 /\ model.inputs \in Nat
        /\ model.inputs < AndVar(1) /\ MaxChars(model) \in Nat
    BY <1>1, ModelFacts, Variables DEF AndVar
  <1>3. \A k : ResetValue(k) \in Codes /\ CharOf(ResetValue(k)) = ResetChar(k)
    BY DEF ResetValue, ResetChar, CharOf, Codes, Zero, One, X
  <1>4. current[0] = Zero /\ current \in [0..MaxVar -> Codes]
    <2>1. Zero \in Codes
      BY DEF Codes, Zero
    <2> QED
      BY <1>1, <1>2, <1>3, <2>1
  <1>5. AigSimTypeOK
    <2>1. last \in [LoopLits -> 0..Len(states)]
      BY <1>1 DEF Init
    <2>2. j \in 1..(model.inputs + 1) /\ chars \in 0..MaxChars(model)
      BY <1>2 DEF Init
    <2>3. ch \in Chars /\ comment \in BOOLEAN
      BY DEF Init, Chars
    <2> QED
      BY <1>1, <1>4, <2>1, <2>2, <2>3 DEF AigSimTypeOK
  <1>6. CharsOf(current) = ResetState
    <2>1. ASSUME NEW k \in 1..Len(model.latches)
          PROVE  current[LatchVar(k)] = ResetValue(k)
      <3>1. /\ LatchVar(k) \in 0..MaxVar /\ LatchVar(k) > model.inputs
            /\ LatchVar(k) < AndVar(1) /\ LatchVar(k) - model.inputs = k
        BY <1>1, <1>2, Variables
      <3> QED
        BY <1>1, <3>1
    <2> QED
      BY <1>3, <2>1 DEF CharsOf, ResetState
  <1>7. Trace
    BY <1>1, <1>6 DEF Trace
  <1>8. Loops
    BY <1>1 DEF Loops
  <1>9. BadReached = {}
    BY <1>1 DEF BadReached
  <1> QED
    BY <1>1, <1>4, <1>5, <1>7, <1>8, <1>9 DEF AigInv, JusticeWitnessed

(***************************************************************************)
(* Steps that read.                                                        *)
(***************************************************************************)
LEMMA ReadChar ==
    ASSUME AigInv, Getc
    PROVE  chars' \in 0..MaxChars(model) /\ ch' \in Chars /\ status = "running"
  <1>1. MaxChars(model) \in Nat /\ chars \in 0..MaxChars(model)
    BY ModelFacts DEF AigInv, AigSimTypeOK
  <1> QED
    BY <1>1 DEF Getc

\* The variables keep their types in a step that prints nothing, when those it
\* changes do.
LEMMA SameTypes ==
    ASSUME AigInv, UNCHANGED <<model, bad, loopVars>>,
           current' \in [0..MaxVar -> Codes], j' \in 1..(model.inputs + 1),
           ch' \in Chars, comment' \in BOOLEAN,
           told' \subseteq bad, toldJustice' \subseteq 1..Len(model.justice),
           status' \in {"running", "done", "violated", "died"}, chars' \in 0..MaxChars(model)
    PROVE  AigSimTypeOK'
  <1>1. MaxVar' = MaxVar /\ LoopLits' = LoopLits
    BY RigidValues
  <1> QED
    BY <1>1 DEF AigInv, AigSimTypeOK, loopVars

\* Reading on, and dying.
LEMMA KeepsReading ==
    ASSUME AigInv, Getc, UNCHANGED <<model, lines, loopVars, bad, toldVars>>,
           current' \in Valuations, current'[0] = Zero, CharsOf(current') = CharsOf(current),
           j' \in 1..(model.inputs + 1), comment' \in BOOLEAN, status' \in {"running", "died"}
    PROVE  AigInv'
  <1>1. chars' \in 0..MaxChars(model) /\ ch' \in Chars
    BY ReadChar
  <1>2. AigSimTypeOK'
    BY <1>1, SameTypes DEF AigInv, AigSimTypeOK, toldVars, Valuations
  <1>3. Trace' /\ Loops' /\ BadReached' = BadReached
    BY NoLinePrinted
  <1> QED
    BY <1>2, <1>3 DEF AigInv, JusticeWitnessed

LEMMA ReadInputKeeps ==
    ASSUME AigInv, ReadInput
    PROVE  AigInv'
  <1>1. PICK c \in Codes : current' = [current EXCEPT ![j] = c]
    BY DEF ReadInput, Codes, Zero, One, X
  <1>2. /\ model.inputs \in Nat /\ j \in 1..model.inputs /\ j' = j + 1 /\ MaxVar \in Nat
        /\ AndVar(1) \in Nat /\ model.inputs < AndVar(1) /\ AndVar(1) <= MaxVar + 1
    <2>1. /\ model \in Models /\ j \in 1..(model.inputs + 1)
          /\ j <= model.inputs /\ j' = j + 1
      BY DEF ReadInput, AigInv, AigSimTypeOK
    <2>2. /\ model.inputs \in Nat /\ Len(model.latches) \in Nat /\ MaxVar \in Nat
          /\ AndVar(1) \in Nat /\ AndVar(1) <= MaxVar + 1
      BY <2>1, ModelFacts, Variables
    <2>3. model.inputs < AndVar(1)
      BY <2>2 DEF AndVar
    <2> QED
      BY <2>1, <2>2, <2>3
  <1>3. current \in Valuations /\ current[0] = Zero /\ 0 \in 0..MaxVar /\ j \in 0..MaxVar
    BY <1>2 DEF AigInv, AigSimTypeOK, Valuations
  <1>4. current' \in Valuations /\ current'[0] = Zero
    BY <1>1, <1>2, <1>3 DEF Valuations
  <1>5. CharsOf(current') = CharsOf(current)
    <2>1. \A k \in 1..Len(model.latches) : LatchVar(k) \in 0..MaxVar /\ LatchVar(k) # j
      BY <1>2, Variables DEF AigInv
    <2>2. \A k \in 1..Len(model.latches) : current'[LatchVar(k)] = current[LatchVar(k)]
      BY <1>1, <1>3, <2>1 DEF Valuations
    <2> QED
      BY <2>2 DEF CharsOf
  <1>6. j' \in 1..(model.inputs + 1)
    BY <1>2
  <1> QED
    BY <1>4, <1>5, <1>6, KeepsReading DEF ReadInput, AigInv, AigSimTypeOK, Getc

LEMMA OthersKeep ==
    ASSUME AigInv, Skip \/ DieReading
    PROVE  AigInv'
  <1>1. /\ Getc /\ UNCHANGED <<model, current, j, lines, loopVars, bad, toldVars>>
        /\ comment' \in BOOLEAN /\ status' \in {"running", "died"}
    <2>1. Skip => comment' \in BOOLEAN
      BY DEF Skip
    <2> QED
      BY <2>1 DEF Skip, DieReading, Getc, AigInv, AigSimTypeOK
  <1>2. current \in Valuations /\ current[0] = Zero /\ j \in 1..(model.inputs + 1)
    BY DEF AigInv, AigSimTypeOK, Valuations
  <1> QED
    BY <1>1, <1>2, KeepsReading

LEMMA ViolateKeeps ==
    ASSUME AigInv, ViolateConstraint
    PROVE  AigInv'
  <1>1. /\ Getc /\ current' = AfterAnds(current) /\ told' = bad /\ status' = "violated"
        /\ UNCHANGED <<model, j, comment, bad, loopVars, lines, toldJustice>>
    BY DEF ViolateConstraint, NewLine
  <1>2. current \in Valuations /\ current[0] = Zero /\ model \in Models
    BY DEF AigInv, AigSimTypeOK, Valuations
  <1>3. Evaluated(current, current')
    BY <1>1, <1>2, AfterAndsEvaluates
  <1>4. \A v \in 0..MaxVar : v < AndVar(1) => current'[v] = current[v]
    BY <1>3 DEF Evaluated
  <1>5. MaxVar \in Nat /\ AndVar(1) \in Nat /\ AndVar(1) > 0 /\ AndVar(1) <= MaxVar + 1
    BY <1>2, ModelFacts, Variables
  <1>6. current' \in Valuations /\ current'[0] = Zero
    BY <1>2, <1>3, <1>4, <1>5 DEF Evaluated
  <1>7. CharsOf(current') = CharsOf(current)
    <2>1. \A k \in 1..Len(model.latches) : current'[LatchVar(k)] = current[LatchVar(k)]
      BY <1>2, <1>4, <1>5, Variables
    <2> QED
      BY <2>1 DEF CharsOf
  <1>8. chars' \in 0..MaxChars(model) /\ ch' \in Chars
    BY <1>1, ReadChar
  <1>9. AigSimTypeOK'
    BY <1>1, <1>6, <1>8, SameTypes DEF AigInv, AigSimTypeOK, Valuations
  <1>10. Trace' /\ Loops' /\ BadReached' = BadReached
    BY <1>1, <1>7, NoLinePrinted
  <1> QED
    BY <1>1, <1>2, <1>6, <1>9, <1>10 DEF AigInv, JusticeWitnessed

(***************************************************************************)
(* A vector.                                                               *)
(***************************************************************************)
LEMMA SimulateKeeps ==
    ASSUME AigInv, Simulate
    PROVE  AigInv'
  <1>1. PICK before : before = AfterAnds(current)
    OBVIOUS
  <1>2. PICK after : after = AfterLatches(before)
    OBVIOUS
  <1>3. PICK l : l = Line(before, after)
    OBVIOUS
  <1>4. /\ Getc /\ ~Violated(before) /\ RememberFor(before)
        /\ bad' = bad \cup {k \in 1..Len(model.bad) : Deref(before, model.bad[k]) = One}
        /\ current' = after /\ lines' = Append(lines, l) /\ j' = 1
        /\ UNCHANGED <<model, comment, toldVars, status>>
    BY <1>1, <1>2, <1>3 DEF Simulate, NewLine
  <1>5. model \in Models /\ current \in Valuations /\ current[0] = Zero
    BY DEF AigInv, AigSimTypeOK, Valuations
  <1>6. /\ TrueLine(l)
        /\ l.state = CharsOf(current) /\ l.state = CharsOf(before) /\ l.next = CharsOf(after)
        /\ before \in Valuations /\ after \in Valuations /\ after[0] = Zero
        /\ \A lit \in Signals : /\ Deref(before, lit) \in Codes
                                /\ CharOf(Deref(before, lit)) = ValueIn(l, lit)
    BY <1>1, <1>2, <1>3, <1>4, <1>5, PrintedLine
  <1>7. \A lit \in Signals : (Deref(before, lit) = One) <=> (ValueIn(l, lit) = "1")
    BY <1>6, CodeChars
  <1>8. PICK n : n = Len(lines)
    OBVIOUS
  <1>9. /\ n \in Nat /\ lines' \in Seq(LineType) /\ Len(lines') = n + 1 /\ lines'[n + 1] = l
        /\ \A i \in 1..n : lines'[i] = lines[i]
    <2>1. lines \in Seq(LineType) /\ l \in LineType
      BY <1>6 DEF AigInv, Trace, TrueLine
    <2> QED
      BY ONLY <1>4, <1>8, <2>1
  <1>10. Trace'
    <2>1. \A i \in 1..(n + 1) : i = n + 1 \/ i \in 1..n
      BY <1>9
    <2>2. \A i \in 1..(n + 1) : TrueLine(lines'[i])
      BY <1>6, <1>8, <1>9, <2>1 DEF AigInv, Trace
    <2>3. l.state = IF n + 1 = 1 THEN ResetState ELSE lines[n].next
      <3>1. n = 0 <=> lines = <<>>
        <4>1. lines \in Seq(LineType)
          BY DEF AigInv, Trace
        <4> QED
          BY ONLY <1>8, <4>1, EmptySeq
      <3> QED
        BY <1>6, <1>8, <1>9, <3>1 DEF AigInv, Trace
    <2>4. ASSUME NEW i \in 1..(n + 1)
          PROVE  lines'[i].state = IF i = 1 THEN ResetState ELSE lines'[i - 1].next
      <3>1. CASE i = n + 1
        <4>1. n # 0 => n \in 1..n
          BY <1>9
        <4> QED
          BY <1>9, <2>3, <3>1, <4>1
      <3>2. CASE i \in 1..n
        <4>1. i # 1 => i - 1 \in 1..n
          BY <1>9, <3>2
        <4> QED
          BY <1>8, <1>9, <3>2, <4>1 DEF AigInv, Trace
      <3> QED
        BY <2>1, <3>1, <3>2
    <2>5. lines' # <<>>
      BY <1>9
    <2>6. CharsOf(current)' = CharsOf(current')
      BY <1>4 DEF CharsOf, LatchVar
    <2>7. CharsOf(current') = lines'[Len(lines')].next
      BY <1>4, <1>6, <1>9
    <2> QED
      BY <1>4, <1>9, <2>2, <2>4, <2>5, <2>6, <2>7, RigidValues DEF Trace
  <1>11. \A i, lit : i \in 1..n => ValueAt(i, lit)' = ValueAt(i, lit)
    BY <1>4, <1>9, RigidValues DEF ValueAt, ValueIn
  <1>12. \A lit : ValueAt(n + 1, lit)' = ValueIn(l, lit)
    BY <1>4, <1>9, RigidValues
  <1>13. bad' = BadReached'
    <2>1. \A i : i \in 1..(n + 1) <=> i = n + 1 \/ i \in 1..n
      BY <1>9
    <2>2. BadReached' = {k \in 1..Len(model.bad) :
                           \E i \in 1..(n + 1) : ValueIn(lines'[i], model.bad[k]) = "1"}
      BY <1>4, <1>9, RigidValues DEF BadReached
    <2>3. BadReached' = {k \in 1..Len(model.bad) :
                           \/ \E i \in 1..n : ValueAt(i, model.bad[k]) = "1"
                           \/ ValueIn(l, model.bad[k]) = "1"}
      <3>1. ASSUME NEW lit
            PROVE  (\E i \in 1..(n + 1) : ValueIn(lines'[i], lit) = "1") <=>
                     ((\E i \in 1..n : ValueAt(i, lit) = "1") \/ ValueIn(l, lit) = "1")
        <4>1. \A i \in 1..n : ValueIn(lines'[i], lit) = ValueAt(i, lit)
          BY <1>9 DEF ValueAt, ValueIn
        <4>2. ValueIn(lines'[n + 1], lit) = ValueIn(l, lit)
          BY <1>9
        <4> QED
          BY <2>1, <4>1, <4>2
      <3> QED
        BY <2>2, <3>1
    <2>4. bad = {k \in 1..Len(model.bad) : \E i \in 1..n : ValueAt(i, model.bad[k]) = "1"}
      BY <1>8 DEF AigInv, BadReached
    <2>5. \A k \in 1..Len(model.bad) :
            (Deref(before, model.bad[k]) = One) <=> (ValueIn(l, model.bad[k]) = "1")
      BY <1>5, <1>7, ModelLits
    <2> QED
      BY <1>4, <2>3, <2>4, <2>5
  <1>14. /\ Len(states) \in Nat
         /\ states' \in Seq(LatchCodes) /\ Len(states') \in Nat
         /\ last' \in [LoopLits -> 0..Len(states')]
         /\ FindLoop =>
              /\ Len(states) = n /\ Len(states') = n + 1
              /\ states'[n + 1] = LatchValues(before)
              /\ \A i \in 1..n : states'[i] = states[i]
              /\ \A lit \in LoopLits :
                   last'[lit] = IF Deref(before, lit) = One THEN n + 1 ELSE last[lit]
    <2>1. states \in Seq(LatchCodes) /\ Len(states) \in Nat
      BY DEF AigInv, Loops
    <2>2. last \in [LoopLits -> 0..Len(states)]
      BY DEF AigInv, AigSimTypeOK
    <2>3. CASE ~FindLoop
      BY <1>4, <2>1, <2>2, <2>3 DEF RememberFor, loopVars
    <2>4. CASE FindLoop
      <3>1. /\ states' = Append(states, LatchValues(before)) /\ Len(states) = n
            /\ last' = [lit \in DOMAIN last |->
                          IF Deref(before, lit) = One THEN Len(states) + 1 ELSE last[lit]]
        BY <1>4, <1>8, <2>4 DEF RememberFor, AigInv, Loops
      <3>2. LatchValues(before) \in LatchCodes
        <4>1. \A k \in 1..Len(model.latches) : LatchVar(k) \in 0..MaxVar
          BY <1>5, Variables, ModelFacts
        <4> QED
          BY <1>6, <4>1 DEF LatchValues, LatchCodes, Valuations
      <3>3. /\ states' \in Seq(LatchCodes) /\ Len(states') = n + 1
            /\ states'[n + 1] = LatchValues(before)
            /\ \A i \in 1..n : states'[i] = states[i]
        BY ONLY <2>1, <3>1, <3>2
      <3>4. /\ last' \in [LoopLits -> 0..(n + 1)]
            /\ \A lit \in LoopLits :
                 last'[lit] = IF Deref(before, lit) = One THEN n + 1 ELSE last[lit]
        BY <1>9, <2>2, <3>1
      <3> QED
        BY <1>9, <2>1, <3>1, <3>3, <3>4
    <2> QED
      BY <2>3, <2>4
  <1>15. Loops'
    <2> SUFFICES ASSUME FindLoop
                 PROVE  /\ \A i \in 1..(n + 1) : lines'[i].state = StateChars(states'[i])
                        /\ \A lit \in LoopLits, i \in 1..(n + 1) :
                             last'[lit] >= i <=> \E h \in i..(n + 1) : ValueAt(h, lit)' = "1"
      BY <1>4, <1>9, <1>14, RigidValues DEF Loops
    <2>1. \A i \in 1..(n + 1) : i = n + 1 \/ i \in 1..n
      BY <1>9
    <2>2. StateChars(LatchValues(before)) = CharsOf(before)
      BY DEF StateChars, LatchValues, CharsOf
    <2>3. \A i \in 1..(n + 1) : lines'[i].state = StateChars(states'[i])
      BY <1>6, <1>8, <1>9, <1>14, <2>1, <2>2 DEF AigInv, Loops
    <2>4. ASSUME NEW lit \in LoopLits, NEW i \in 1..(n + 1)
          PROVE  last'[lit] >= i <=> \E h \in i..(n + 1) : ValueAt(h, lit)' = "1"
      <3>1. lit \in Signals /\ last[lit] \in 0..n
        BY <1>5, <1>14, ModelLits DEF AigInv, AigSimTypeOK
      <3>2. CASE Deref(before, lit) = One
        <4>1. last'[lit] = n + 1 /\ ValueAt(n + 1, lit)' = "1" /\ n + 1 \in i..(n + 1)
          BY <1>7, <1>9, <1>12, <1>14, <3>1, <3>2
        <4> QED
          BY <1>9, <4>1
      <3>3. CASE Deref(before, lit) # One
        <4>1. last'[lit] = last[lit] /\ ValueAt(n + 1, lit)' # "1"
          BY <1>7, <1>12, <1>14, <3>1, <3>3
        <4>2. CASE i = n + 1
          <5>1. \A h \in i..(n + 1) : h = n + 1
            BY <1>9, <4>2
          <5>2. ~(last'[lit] >= i)
            BY <1>9, <3>1, <4>1, <4>2
          <5> QED
            BY <4>1, <5>1, <5>2
        <4>3. CASE i \in 1..n
          <5>1. last[lit] >= i <=> \E h \in i..n : ValueAt(h, lit) = "1"
            BY <1>8, <4>3 DEF AigInv, Loops
          <5>2. \A h : h \in i..(n + 1) <=> h = n + 1 \/ h \in i..n
            BY <1>9
          <5>3. \A h \in i..n : ValueAt(h, lit)' = ValueAt(h, lit)
            BY <1>9, <1>11, <4>3
          <5> QED
            BY <4>1, <5>1, <5>2, <5>3
        <4> QED
          BY <2>1, <4>2, <4>3
      <3> QED
        BY <3>2, <3>3
    <2> QED
      BY <2>3, <2>4
  <1>16. AigSimTypeOK'
    <2>1. chars' \in 0..MaxChars(model) /\ ch' \in Chars /\ status = "running"
      BY <1>4, ReadChar
    <2>2. current' \in [0..MaxVar -> Codes] /\ j' \in 1..(model.inputs + 1)
      BY <1>4, <1>5, <1>6, ModelFacts DEF Valuations
    <2>3. bad' \subseteq 1..Len(model.bad) /\ told \subseteq bad'
      BY <1>4 DEF AigInv, AigSimTypeOK
    <2>4. \A i \in 1..Len(states') : states'[i] \in LatchCodes
      BY <1>14
    <2> QED
      BY <1>4, <1>14, <2>1, <2>2, <2>3, <2>4, RigidValues
         DEF AigInv, AigSimTypeOK, toldVars, LatchCodes
  <1> QED
    <2>1. status' = "running"
      BY <1>4 DEF Getc
    <2> QED
      BY <1>4, <1>5, <1>6, <1>10, <1>13, <1>15, <1>16, <2>1 DEF AigInv, JusticeWitnessed

(***************************************************************************)
(* The end of the trace.                                                   *)
(***************************************************************************)
\* Latch codes without x are determined by their characters.
LEMMA CodesOfChars ==
    ASSUME NEW s \in LatchCodes, NEW t \in LatchCodes, StateChars(s) = StateChars(t),
           \A k \in 1..Len(model.latches) : StateChars(s)[k] # "x"
    PROVE  s = t
  <1>1. ASSUME NEW k \in 1..Len(model.latches)
        PROVE  s[k] = t[k]
    <2>1. PICK c, d : c = s[k] /\ d = t[k]
      OBVIOUS
    <2>2. c \in Codes /\ d \in Codes
      BY <2>1 DEF LatchCodes
    <2>3. StateChars(s)[k] = CharOf(c) /\ StateChars(t)[k] = CharOf(d)
      BY <2>1 DEF StateChars
    <2>4. CharOf(c) = CharOf(d) /\ CharOf(c) # "x"
      BY <2>3
    <2>5. CharOf(c) \in Three
      BY <2>2, CodeChars
    <2>6. (c = Zero /\ d = Zero) \/ (c = One /\ d = One)
      BY <2>2, <2>4, <2>5, CodeChars DEF Three
    <2> QED
      BY <2>1, <2>6
  <1> QED
    BY <1>1 DEF LatchCodes

\* The states from which the trace can be closed to a fair loop.
InLoop(start, lit) == \E i \in start..Len(lines) : ValueAt(i, lit) = "1"
Closes ==
    {i \in 1..Len(lines) :
       /\ lines[i].state = lines[Len(lines)].next
       /\ \A k \in 1..Len(model.fairness) : InLoop(i, model.fairness[k])}

Witnessed ==
    {prop \in 1..Len(model.justice) :
       \E start \in Closes : \A k \in 1..Len(model.justice[prop]) :
                               InLoop(start, model.justice[prop][k])}

LEMMA TrailerOfLoop ==
    ASSUME AigInv, NoX
    PROVE  \A prop \in 1..Len(model.justice) :
             (/\ LoopPoint # 0
              /\ \A k \in 1..Len(model.justice[prop]) : last[model.justice[prop][k]] >= LoopPoint)
             <=> \E start \in Closes :
                   \A k \in 1..Len(model.justice[prop]) : InLoop(start, model.justice[prop][k])
  <1> SUFFICES ASSUME NEW prop \in 1..Len(model.justice)
               PROVE  (/\ LoopPoint # 0
                       /\ \A k \in 1..Len(model.justice[prop]) :
                            last[model.justice[prop][k]] >= LoopPoint)
                      <=> \E start \in Closes :
                            \A k \in 1..Len(model.justice[prop]) :
                              InLoop(start, model.justice[prop][k])
    OBVIOUS
  <1>1. FindLoop
    BY DEF FindLoop
  <1>2. PICK n : n = Len(lines)
    OBVIOUS
  <1>3. /\ n \in Nat /\ Len(states) = n /\ model \in Models
        /\ \A i \in 1..n : lines[i].state = StateChars(states[i]) /\ states[i] \in LatchCodes
        /\ \A lit \in LoopLits, i \in 1..n : last[lit] >= i <=> InLoop(i, lit)
    <2>1. lines \in Seq(LineType) /\ states \in Seq(LatchCodes)
      BY DEF AigInv, Trace, Loops
    <2>2. n \in Nat
      BY ONLY <1>2, <2>1, LenProperties
    <2> QED
      BY <1>1, <1>2, <2>1, <2>2 DEF AigInv, Loops, InLoop
  <1>4. \A lit \in LoopLits : last[lit] \in Nat
    BY <1>3 DEF AigInv, AigSimTypeOK
  <1>5. LatchValues(current) \in LatchCodes
    <2>1. model \in Models
      BY DEF AigInv
    <2>2. \A k \in 1..Len(model.latches) : LatchVar(k) \in 0..MaxVar
      BY <2>1, Variables, ModelFacts
    <2> QED
      BY <2>2 DEF LatchValues, LatchCodes, AigInv, AigSimTypeOK
  <1>6. n # 0 => StateChars(LatchValues(current)) = lines[n].next
    <2>1. StateChars(LatchValues(current)) = CharsOf(current)
      BY DEF StateChars, LatchValues, CharsOf
    <2>2. n # 0 => lines # <<>>
      BY <1>2
    <2> QED
      BY <1>2, <2>1, <2>2 DEF AigInv, Trace
  <1>7. \A i \in 1..n : (states[i] = LatchValues(current)) <=> (lines[i].state = lines[n].next)
    <2> SUFFICES ASSUME NEW i \in 1..n
                 PROVE  (states[i] = LatchValues(current)) <=> (lines[i].state = lines[n].next)
      OBVIOUS
    <2>1. n # 0
      BY <1>3
    <2>2. \A k \in 1..Len(model.latches) : lines[i].state[k] # "x"
      BY <1>2 DEF NoX
    <2> QED
      BY <1>3, <1>5, <1>6, <2>1, <2>2, CodesOfChars
  <1>8. \A k \in 1..Len(model.fairness) : model.fairness[k] \in LoopLits
    BY DEF LoopLits
  <1>9. \A k \in 1..Len(model.justice[prop]) : model.justice[prop][k] \in LoopLits
    BY DEF LoopLits
  <1> DEFINE closes == {i \in 1..Len(states) :
                          /\ states[i] = LatchValues(current)
                          /\ \A k \in 1..Len(model.fairness) : last[model.fairness[k]] >= i}
  <1>10. closes = Closes
    <2>1. \A i \in 1..n : (\A k \in 1..Len(model.fairness) : last[model.fairness[k]] >= i)
                          <=> (\A k \in 1..Len(model.fairness) : InLoop(i, model.fairness[k]))
      BY <1>3, <1>8
    <2> QED
      BY <1>2, <1>3, <1>7, <2>1 DEF Closes
  <1>11. LoopPoint = IF closes = {} THEN 0 ELSE CHOOSE i \in closes : \A h \in closes : i <= h
    BY DEF LoopPoint
  <1> HIDE DEF closes
  <1>12. \A i \in Closes : i \in 1..n /\ i # 0
    BY <1>2, <1>3 DEF Closes
  <1>13. CASE Closes = {}
    BY <1>10, <1>11, <1>13
  <1>14. CASE Closes # {}
    <2>1. PICK L : L = LoopPoint
      OBVIOUS
    <2>2. L \in Closes /\ \A h \in Closes : L <= h
      <3>1. \E m \in Closes : \A h \in Closes : m <= h
        <4>1. Closes \in SUBSET Nat
          BY <1>3, <1>12
        <4> QED
          BY <1>14, <4>1, LeastNatural
      <3> QED
        BY <1>10, <1>11, <1>14, <2>1, <3>1
    <2>3. L \in 1..n /\ L # 0
      BY <1>12, <2>2
    <2>4. \A k \in 1..Len(model.justice[prop]), i \in 1..n :
            last[model.justice[prop][k]] >= i <=> InLoop(i, model.justice[prop][k])
      BY <1>3, <1>9
    <2>5. ASSUME NEW start \in Closes, NEW k \in 1..Len(model.justice[prop]),
                 InLoop(start, model.justice[prop][k])
          PROVE  last[model.justice[prop][k]] >= L
      <3>1. last[model.justice[prop][k]] >= start /\ start \in 1..n /\ L <= start
        BY <1>12, <2>2, <2>4, <2>5
      <3>2. PICK m : m = last[model.justice[prop][k]]
        OBVIOUS
      <3>3. m \in Nat
        BY <1>4, <1>9, <3>2
      <3> QED
        BY <1>3, <2>3, <3>1, <3>2, <3>3
    <2> QED
      BY <2>1, <2>2, <2>3, <2>4, <2>5
  <1> QED
    BY <1>13, <1>14

LEMMA EndKeeps ==
    ASSUME AigInv, EndOfTrace
    PROVE  AigInv'
  <1>1. /\ Getc /\ told' = bad /\ status' = "done"
        /\ toldJustice' = {i \in 1..Len(model.justice) :
                             /\ LoopPoint # 0
                             /\ \A k \in 1..Len(model.justice[i]) :
                                  last[model.justice[i][k]] >= LoopPoint}
        /\ UNCHANGED <<model, current, j, comment, bad, loopVars, lines>>
    BY DEF EndOfTrace
  <1>2. chars' \in 0..MaxChars(model) /\ ch' \in Chars
    BY <1>1, ReadChar
  <1>3. AigSimTypeOK'
    <2>1. toldJustice' \subseteq 1..Len(model.justice)
      BY <1>1
    <2> QED
      BY <1>1, <1>2, <2>1, SameTypes DEF AigInv, AigSimTypeOK
  <1>4. CharsOf(current') = CharsOf(current)
    BY <1>1 DEF CharsOf
  <1>5. Trace' /\ Loops' /\ BadReached' = BadReached
    BY <1>1, <1>4, NoLinePrinted
  <1>6. JusticeWitnessed'
    <2>1. (NoX' <=> NoX) /\ Len(lines') = Len(lines)
      BY <1>1 DEF NoX
    <2>2. \A i, lit : ValueAt(i, lit)' = ValueAt(i, lit)
      BY <1>1, RigidValues DEF ValueAt, ValueIn
    <2>3. \A start, lit : InLoop(start, lit)' = InLoop(start, lit)
      BY <1>1, <2>2 DEF InLoop
    <2>4. Witnessed' = Witnessed
      BY <1>1, <2>3 DEF Witnessed, Closes
    <2>5. JusticeWitnessed' <=> (status' = "done" /\ NoX' => toldJustice' = Witnessed')
      BY DEF JusticeWitnessed, Witnessed, Closes, InLoop
    <2>6. NoX => toldJustice' = Witnessed
      BY <1>1, TrailerOfLoop DEF Witnessed
    <2> QED
      BY <2>1, <2>4, <2>5, <2>6
  <1> QED
    BY <1>1, <1>3, <1>5, <1>6 DEF AigInv

(***************************************************************************)
(* The theorems.                                                           *)
(***************************************************************************)
LEMMA AigInductive == Spec => []AigInv
  <1>1. AigInv /\ [Next]_vars => AigInv'
    <2> SUFFICES ASSUME AigInv, [Next]_vars PROVE AigInv'
      OBVIOUS
    <2>1. CASE UNCHANGED vars
      <3>1. CharsOf(current') = CharsOf(current)
        BY <2>1 DEF CharsOf, vars
      <3>2. UNCHANGED <<model, current, j, ch, comment, bad, states, last, loopVars, lines,
                        told, toldJustice, toldVars, status, chars>>
        BY <2>1 DEF vars, loopVars, toldVars
      <3>3. Trace' /\ Loops' /\ BadReached' = BadReached
        BY <3>1, <3>2, NoLinePrinted
      <3>4. AigSimTypeOK'
        BY <3>2, SameTypes DEF AigInv, AigSimTypeOK
      <3>5. JusticeWitnessed'
        <4>1. \A i, lit : ValueAt(i, lit)' = ValueAt(i, lit)
          BY <3>2, RigidValues DEF ValueAt, ValueIn
        <4>2. NoX' <=> NoX
          BY <3>2 DEF NoX
        <4>3. \A start, lit : InLoop(start, lit)' = InLoop(start, lit)
          BY <3>2, <4>1 DEF InLoop
        <4>4. Witnessed' = Witnessed
          BY <3>2, <4>3 DEF Witnessed, Closes
        <4>5. JusticeWitnessed' <=> (status' = "done" /\ NoX' => toldJustice' = Witnessed')
          BY DEF JusticeWitnessed, Witnessed, Closes, InLoop
        <4>6. JusticeWitnessed <=> (status = "done" /\ NoX => toldJustice = Witnessed)
          BY DEF JusticeWitnessed, Witnessed, Closes, InLoop
        <4> QED
          BY <3>2, <4>2, <4>4, <4>5, <4>6 DEF AigInv
      <3> QED
        BY <3>2, <3>3, <3>4, <3>5 DEF AigInv
    <2>2. CASE Next
      BY <2>1, <2>2, OthersKeep, ReadInputKeeps, SimulateKeeps, ViolateKeeps, EndKeeps
         DEF Next, Ended
    <2> QED
      BY <2>1, <2>2
  <1> QED
    BY <1>1, AigInit, PTL DEF Spec

\* Type correctness for every model: no code other than the four comes up, and
\* what is remembered of a literal is a line that was printed.
THEOREM AigSimTypeAlwaysOK == Spec => []AigSimTypeOK
  <1>1. AigInv => AigSimTypeOK
    BY DEF AigInv
  <1> QED
    BY <1>1, AigInductive, PTL

\* For every model aiger_reencode can make and every stimulus, what is printed is
\* an initialised and consistent trace in three-valued logic: evaluating the ands
\* once, in place and in their order, gives every output and next state its value.
THEOREM TracesAlwaysConsistent == Spec => []ConsistentTrace
  <1>1. AigInv => ConsistentTrace
    <2> SUFFICES ASSUME AigInv, NEW i \in 1..Len(lines)
                 PROVE  /\ lines[i].state = IF i = 1
                                           THEN [k \in 1..Len(model.latches) |-> ResetChar(k)]
                                           ELSE lines[i - 1].next
                        /\ TrueLine(lines[i])
      BY DEF ConsistentTrace, TrueLine, ValueAt, ValueIn
    <2> QED
      BY DEF AigInv, Trace, ResetState
  <1> QED
    BY <1>1, AigInductive, PTL

\* The trailer names exactly the bad states that a printed transition reached.
THEOREM TrailerAlwaysTells == Spec => []TrailerTellsOutputs
  <1>1. AigInv => TrailerTellsOutputs
    BY DEF AigInv, TrailerTellsOutputs, BadReached
  <1> QED
    BY <1>1, AigInductive, PTL

\* The value printed for an output of a vector with x is the one of every instance
\* of the vector, whatever the depth of the network.
THEOREM InstancesAlwaysAgree == Spec => []InstancesAgree
  <1>1. AigInv => InstancesAgree
    <2> SUFFICES ASSUME AigInv, NEW i \in 1..Len(lines)
                 PROVE  AgreesWith(lines[i])
      BY DEF InstancesAgree, AgreesWith
    <2> QED
      BY TrueLinesAgree DEF AigInv, Trace
  <1> QED
    BY <1>1, AigInductive, PTL

\* In a trace without x, the trailer names exactly the justice properties that a
\* fair loop of the trace witnesses: the first closing point is enough.
THEOREM JusticeAlwaysWitnessed == Spec => []JusticeWitnessed
  <1>1. AigInv => JusticeWitnessed
    BY DEF AigInv
  <1> QED
    BY <1>1, AigInductive, PTL

(***************************************************************************)
(*                                                                         *)
(*                        the program on mockturtle                        *)
(*                                                                         *)
(***************************************************************************)

(***************************************************************************)
(* Signals.                                                                *)
(***************************************************************************)
LEMMA MockSignals ==
    ASSUME NEW s \in Nat
    PROVE  /\ NodeOf(s) \in Nat /\ Complemented(s) \in {0, 1}
           /\ Complemented(s) = s - 2 * NodeOf(s)
  <1>1. s \div 2 \in Nat /\ s % 2 \in 0..1
    OBVIOUS
  <1>2. s % 2 = s - 2 * (s \div 2)
    OBVIOUS
  <1> QED
    BY <1>1, <1>2 DEF NodeOf, Complemented

LEMMA NodeSignal ==
    ASSUME NEW n \in Nat
    PROVE  2 * n \in Nat /\ NodeOf(2 * n) = n /\ Complemented(2 * n) = 0
  <1>1. (2 * n) \div 2 = n /\ (2 * n) % 2 = 0
    OBVIOUS
  <1> QED
    BY <1>1 DEF NodeOf, Complemented

LEMMA Complements ==
    ASSUME NEW s \in Nat
    PROVE  /\ Complement(s) \in Nat /\ NodeOf(Complement(s)) = NodeOf(s)
           /\ (Complemented(Complement(s)) = 1) <=> (Complemented(s) # 1)
  <1> DEFINE n == NodeOf(s)
  <1>1. n \in Nat /\ Complemented(s) \in {0, 1} /\ Complemented(s) = s - 2 * n
    BY MockSignals
  <1> HIDE DEF n
  <1>2. CASE Complemented(s) = 0
    <2>1. Complement(s) = 2 * n + 1
      BY <1>1, <1>2 DEF Complement
    <2>2. (2 * n + 1) \div 2 = n /\ (2 * n + 1) % 2 = 1
      BY <1>1
    <2> QED
      BY <1>1, <1>2, <2>1, <2>2 DEF NodeOf, Complemented, n
  <1>3. CASE Complemented(s) = 1
    <2>1. Complement(s) = 2 * n
      BY <1>1, <1>3 DEF Complement
    <2> QED
      BY <1>1, <1>3, <2>1, NodeSignal DEF n
  <1> QED
    BY <1>1, <1>2, <1>3

\* The value a function f of nodes, or of variables, gives to a signal, or to a
\* literal.
Bit(f, s) == f[NodeOf(s)] # (Complemented(s) = 1)

\* f solves the recursion over 0..N with the values g of its leaves.
Solution(N, leaves, g, x, y, f) ==
    /\ f \in [0..N -> BOOLEAN]
    /\ \A n \in 0..N : f[n] = IF n = 0 THEN FALSE
                               ELSE IF n \in leaves THEN g[n]
                               ELSE Bit(f, x[n]) /\ Bit(f, y[n])

\* A recursion over nodes that refers to earlier nodes has a solution.
LEMMA RecursionHasSolution ==
    ASSUME NEW N \in Nat, NEW leaves, NEW g \in [1..N -> BOOLEAN],
           NEW x \in [1..N -> Nat], NEW y \in [1..N -> Nat],
           \A n \in 1..N : n \notin leaves => NodeOf(x[n]) < n /\ NodeOf(y[n]) < n
    PROVE  \E f : Solution(N, leaves, g, x, y, f)
  <1> DEFINE Body(f, n) == IF n = 0 THEN FALSE
                           ELSE IF n \in leaves THEN g[n]
                           ELSE Bit(f, x[n]) /\ Bit(f, y[n])
             Solves(f, m) == /\ f \in [0..m -> BOOLEAN]
                             /\ \A n \in 0..m : f[n] = Body(f, n)
             T == {m \in Nat : m <= N => \E f : Solves(f, m)}
  <1>1. 0 \in T
    <2>1. Solves([n \in 0..0 |-> FALSE], 0)
      OBVIOUS
    <2> HIDE DEF Solves
    <2> QED
      BY <2>1
  <1>2. ASSUME NEW m \in Nat, m \in T
        PROVE  m + 1 \in T
    <2> SUFFICES ASSUME m + 1 <= N
                 PROVE  \E f : Solves(f, m + 1)
      <3> HIDE DEF Solves
      <3> QED
        OBVIOUS
    <2>1. PICK f : Solves(f, m)
      <3> HIDE DEF Solves
      <3> QED
        BY <1>2
    <2> DEFINE h == [n \in 0..(m + 1) |-> IF n <= m THEN f[n] ELSE Body(f, n)]
    <2>2. \A n \in 0..m : h[n] = f[n]
      OBVIOUS
    <2>3. ASSUME NEW n \in 0..(m + 1)
          PROVE  Body(h, n) = Body(f, n)
      <3>1. CASE n = 0 \/ n \in leaves
        BY <3>1
      <3>2. CASE n # 0 /\ n \notin leaves
        <4>1. n \in 1..N /\ x[n] \in Nat /\ y[n] \in Nat
          BY <3>2
        <4>2. /\ NodeOf(x[n]) \in Nat /\ NodeOf(y[n]) \in Nat
              /\ NodeOf(x[n]) < n /\ NodeOf(y[n]) < n
          BY <3>2, <4>1, MockSignals
        <4>3. h[NodeOf(x[n])] = f[NodeOf(x[n])] /\ h[NodeOf(y[n])] = f[NodeOf(y[n])]
          <5> HIDE DEF h
          <5> QED
            BY <2>2, <4>1, <4>2
        <4> HIDE DEF h
        <4> QED
          BY <4>3 DEF Bit
      <3> QED
        BY <3>1, <3>2
    <2>4. \A n \in 0..(m + 1) : h[n] = Body(f, n)
      <3>1. \A n \in 0..m : f[n] = Body(f, n)
        BY <2>1
      <3>2. \A n \in 0..(m + 1) : h[n] = IF n <= m THEN f[n] ELSE Body(f, n)
        OBVIOUS
      <3>3. \A n \in 0..(m + 1) : n <= m => n \in 0..m
        OBVIOUS
      <3> HIDE DEF Body, h
      <3> QED
        BY <3>1, <3>2, <3>3
    <2>5. h \in [0..(m + 1) -> BOOLEAN]
      <3>1. \A n \in 0..(m + 1) : n \in 1..N \/ n = 0
        OBVIOUS
      <3>2. \A n \in 0..(m + 1) : Body(f, n) \in BOOLEAN
        BY <3>1
      <3>3. \A n \in 0..(m + 1) : n <= m => f[n] \in BOOLEAN
        BY <2>1
      <3> HIDE DEF Body
      <3> QED
        BY <3>2, <3>3
    <2>6. Solves(h, m + 1)
      <3> HIDE DEF Body, h
      <3> QED
        BY <2>3, <2>4, <2>5
    <2> HIDE DEF h, Solves
    <2> QED
      BY <2>6
  <1>3. N \in T
    <2> HIDE DEF T
    <2> QED
      BY <1>1, <1>2, InductionOnNat
  <1>4. \E f : Solves(f, N)
    <2> HIDE DEF Solves
    <2> QED
      BY <1>3
  <1> QED
    BY <1>4 DEF Solution

(***************************************************************************)
(* Networks.                                                               *)
(***************************************************************************)
Ordered(nds, n) ==
    /\ 0 < NodeOf(nds[n][1]) /\ NodeOf(nds[n][1]) < NodeOf(nds[n][2])
    /\ NodeOf(nds[n][2]) < n

\* The first i nodes are inputs; the others are ands of two nodes before them.
Network(nds, i) ==
    /\ nds \in Seq(Nat \X Nat) /\ i \in 0..Len(nds)
    /\ \A n \in 1..i : nds[n] = Pi(n)
    /\ \A n \in (i + 1)..Len(nds) : Ordered(nds, n)
    /\ IsInjective(nds)

\* The network n2 has the nodes of n1, and perhaps more.
Extends(n2, n1) ==
    Len(n1) <= Len(n2) /\ \A n \in 1..Len(n1) : n2[n] = n1[n]

\* f gives the nodes their values under the vector w.
MockValuation(nds, i, w, f) ==
    /\ f \in [0..Len(nds) -> BOOLEAN]
    /\ ~f[0]
    /\ \A n \in 1..i : f[n] = w[n]
    /\ \A n \in (i + 1)..Len(nds) : f[n] <=> Bit(f, nds[n][1]) /\ Bit(f, nds[n][2])

LEMMA NetworkNodes ==
    ASSUME NEW nds, NEW i, Network(nds, i)
    PROVE  /\ i \in Nat /\ Len(nds) \in Nat /\ DOMAIN nds = 1..Len(nds)
           /\ \A n \in 1..Len(nds) : nds[n] \in Nat \X Nat
           /\ \A n \in 1..Len(nds) : (nds[n][1] = nds[n][2]) <=> n \in 1..i
           /\ \A n \in 1..i : nds[n][1] + 1 = n
           /\ \A n \in (i + 1)..Len(nds) :
                /\ NodeOf(nds[n][1]) \in 1..(n - 1) /\ NodeOf(nds[n][2]) \in 1..(n - 1)
  <1>1. /\ i \in Nat /\ Len(nds) \in Nat /\ DOMAIN nds = 1..Len(nds) /\ i <= Len(nds)
        /\ \A n \in 1..Len(nds) : nds[n] \in Nat \X Nat
    BY DEF Network
  <1>2. \A n \in 1..i : nds[n][1] + 1 = n /\ nds[n][1] = nds[n][2]
    BY DEF Network, Pi
  <1>3. ASSUME NEW n \in (i + 1)..Len(nds)
        PROVE  /\ NodeOf(nds[n][1]) \in 1..(n - 1) /\ NodeOf(nds[n][2]) \in 1..(n - 1)
               /\ nds[n][1] # nds[n][2]
    <2>1. n \in 1..Len(nds)
      BY <1>1
    <2>2. nds[n][1] \in Nat /\ nds[n][2] \in Nat
      BY <1>1, <2>1
    <2>3. NodeOf(nds[n][1]) \in Nat /\ NodeOf(nds[n][2]) \in Nat
      BY <2>2, MockSignals
    <2>4. Ordered(nds, n)
      BY DEF Network
    <2> QED
      BY <1>1, <2>3, <2>4 DEF Ordered
  <1> QED
    BY <1>1, <1>2, <1>3

\* simulate_nodes evaluates the network.
LEMMA SimulatesNodes ==
    ASSUME NEW i, Network(nodes, i), NEW w \in [1..i -> BOOLEAN]
    PROVE  MockValuation(nodes, i, w, SimulateNodes(w))
  <1> DEFINE N == Len(nodes)
             leaves == 1..i
             g == [n \in 1..N |-> IF n \in leaves THEN w[n] ELSE FALSE]
             x == [n \in 1..N |-> nodes[n][1]]
             y == [n \in 1..N |-> nodes[n][2]]
             Body(f, n) == IF n = 0 THEN FALSE
                           ELSE IF n \in leaves THEN g[n]
                           ELSE Bit(f, x[n]) /\ Bit(f, y[n])
             MockValue(f, n) == IF n = 0 THEN FALSE
                            ELSE IF IsCi(n) THEN w[nodes[n][1] + 1]
                            ELSE \A c \in {nodes[n][1], nodes[n][2]} :
                                   f[NodeOf(c)] # (Complemented(c) = 1)
  <1>1. /\ N \in Nat /\ i \in Nat /\ i <= N
        /\ \A n \in 1..N : nodes[n] \in Nat \X Nat
        /\ \A n \in 1..N : IsCi(n) <=> n \in leaves
        /\ \A n \in leaves : nodes[n][1] + 1 = n
    <2>1. i <= Len(nodes)
      BY DEF Network
    <2>2. /\ Len(nodes) \in Nat /\ i \in Nat
          /\ \A n \in 1..Len(nodes) : nodes[n] \in Nat \X Nat
          /\ \A n \in 1..Len(nodes) : (nodes[n][1] = nodes[n][2]) <=> n \in 1..i
          /\ \A n \in 1..i : nodes[n][1] + 1 = n
      BY NetworkNodes
    <2> QED
      BY <2>1, <2>2 DEF IsCi
  <1>0. ASSUME NEW n \in 1..N, n \notin leaves
        PROVE  NodeOf(x[n]) < n /\ NodeOf(y[n]) < n
    <2>1. n \in (i + 1)..N /\ x[n] = nodes[n][1] /\ y[n] = nodes[n][2]
      BY <1>0, <1>1
    <2>2. NodeOf(nodes[n][1]) \in 1..(n - 1) /\ NodeOf(nodes[n][2]) \in 1..(n - 1)
      BY <2>1, NetworkNodes
    <2> HIDE DEF x, y
    <2> QED
      BY <2>1, <2>2
  <1>2. /\ g \in [1..N -> BOOLEAN] /\ x \in [1..N -> Nat] /\ y \in [1..N -> Nat]
    BY <1>1
  <1>3. PICK f : /\ f \in [0..N -> BOOLEAN]
                 /\ \A n \in 0..N : f[n] = Body(f, n)
    <2>1. N \in Nat /\ \A n \in 1..N : n \notin leaves => NodeOf(x[n]) < n /\ NodeOf(y[n]) < n
      BY <1>0, <1>1
    <2>2. PICK N0, g0, x0, y0 : N0 = N /\ g0 = g /\ x0 = x /\ y0 = y
      OBVIOUS
    <2> HIDE DEF N, leaves, g, x, y
    <2>3. /\ N0 \in Nat /\ g0 \in [1..N0 -> BOOLEAN]
          /\ x0 \in [1..N0 -> Nat] /\ y0 \in [1..N0 -> Nat]
          /\ \A n \in 1..N0 : n \notin leaves => NodeOf(x0[n]) < n /\ NodeOf(y0[n]) < n
      BY <1>2, <2>1, <2>2
    <2>4. \E f : Solution(N0, leaves, g0, x0, y0, f)
      BY <2>3, RecursionHasSolution
    <2> QED
      BY <2>2, <2>4 DEF Solution
  <1>4. ASSUME NEW h, NEW n \in 0..N
        PROVE  Body(h, n) = MockValue(h, n)
    <2>1. CASE n = 0
      BY <2>1
    <2>2. CASE n \in leaves
      <3>1. n # 0 /\ n \in 1..N /\ IsCi(n) /\ nodes[n][1] + 1 = n
        BY <1>1, <2>2
      <3>2. g[n] = w[n]
        BY <2>2, <3>1
      <3> HIDE DEF g, leaves
      <3> QED
        BY <2>2, <3>1, <3>2
    <2>3. CASE n # 0 /\ n \notin leaves
      <3>1. n \in 1..N /\ x[n] = nodes[n][1] /\ y[n] = nodes[n][2]
        BY <2>3
      <3>2. MockValue(h, n) = \A c \in {nodes[n][1], nodes[n][2]} :
                            h[NodeOf(c)] # (Complemented(c) = 1)
        BY <1>1, <2>3, <3>1
      <3>3. Body(h, n) = (Bit(h, nodes[n][1]) /\ Bit(h, nodes[n][2]))
        BY <2>3, <3>1
      <3> QED
        BY <3>2, <3>3 DEF Bit
    <2> QED
      BY <1>1, <2>1, <2>2, <2>3
  <1>5. f = [n \in 0..N |-> MockValue(f, n)]
    <2>1. \A n \in 0..N : f[n] = MockValue(f, n)
      <3> HIDE DEF N, Body, MockValue
      <3> QED
        BY <1>3, <1>4
    <2> HIDE DEF N, Body, MockValue
    <2> QED
      BY <1>3, <2>1
  <1>6. SimulateNodes(w) = CHOOSE h : h = [n \in 0..N |-> MockValue(h, n)]
    BY DEF SimulateNodes
  <1>7. PICK v : v = SimulateNodes(w)
    OBVIOUS
  <1>8. v = [n \in 0..N |-> MockValue(v, n)]
    <2> HIDE DEF N, MockValue
    <2> QED
      BY <1>5, <1>6, <1>7
  <1>9. v = [n \in 0..N |-> Body(v, n)]
    <2> HIDE DEF N, Body, MockValue
    <2> QED
      BY <1>4, <1>8
  <1>10. \A n \in 0..N : v[n] = Body(v, n)
    <2> HIDE DEF N, Body
    <2> QED
      BY <1>9
  <1>11. v \in [0..N -> BOOLEAN]
    <2>1. \A n \in 0..N : n # 0 => n \in 1..N
      BY <1>1
    <2>2. \A n \in 0..N : Body(v, n) \in BOOLEAN
      BY <1>2, <2>1
    <2> HIDE DEF N, Body
    <2> QED
      BY <1>9, <2>2
  <1>12. ~v[0]
    <2>1. Body(v, 0) = FALSE /\ 0 \in 0..N
      BY <1>1
    <2> HIDE DEF N, Body
    <2> QED
      BY <1>10, <2>1
  <1>13. ASSUME NEW n \in 1..i
         PROVE  v[n] = w[n]
    <2>1. n \in 0..N /\ n \in 1..N /\ n # 0 /\ n \in leaves
      BY <1>1
    <2>2. Body(v, n) = w[n]
      BY <2>1
    <2> HIDE DEF N, Body
    <2> QED
      BY <1>10, <2>1, <2>2
  <1>14. ASSUME NEW n \in (i + 1)..N
         PROVE  v[n] <=> Bit(v, nodes[n][1]) /\ Bit(v, nodes[n][2])
    <2>1. n \in 1..N /\ n \in 0..N /\ n # 0 /\ n \notin leaves
      BY <1>1
    <2>2. x[n] = nodes[n][1] /\ y[n] = nodes[n][2]
      BY <2>1
    <2>3. Body(v, n) = (Bit(v, nodes[n][1]) /\ Bit(v, nodes[n][2]))
      BY <2>1, <2>2
    <2> QED
      BY <1>10, <2>1, <2>3
  <1> QED
    BY <1>7, <1>11, <1>12, <1>13, <1>14 DEF MockValuation

\* The values of a network that has grown are values of the one it was.
LEMMA ValuationRestricted ==
    ASSUME NEW n1, NEW n2, NEW i, Network(n1, i), Network(n2, i), Extends(n2, n1),
           NEW w, NEW f, MockValuation(n2, i, w, f),
           NEW f1, f1 = [n \in 0..Len(n1) |-> f[n]]
    PROVE  /\ MockValuation(n1, i, w, f1)
           /\ \A s \in Nat : NodeOf(s) <= Len(n1) => (Bit(f1, s) <=> Bit(f, s))
  <1>1. /\ i \in Nat /\ Len(n1) \in Nat /\ Len(n2) \in Nat /\ Len(n1) <= Len(n2)
        /\ i <= Len(n1)
        /\ \A n \in 1..Len(n1) : n1[n][1] \in Nat /\ n1[n][2] \in Nat
        /\ \A n \in (i + 1)..Len(n1) :
             NodeOf(n1[n][1]) \in 1..(n - 1) /\ NodeOf(n1[n][2]) \in 1..(n - 1)
    <2>1. /\ i \in Nat /\ Len(n1) \in Nat /\ Len(n2) \in Nat
          /\ \A n \in 1..Len(n1) : n1[n] \in Nat \X Nat
          /\ \A n \in (i + 1)..Len(n1) :
               NodeOf(n1[n][1]) \in 1..(n - 1) /\ NodeOf(n1[n][2]) \in 1..(n - 1)
      BY NetworkNodes
    <2>2. i <= Len(n1) /\ Len(n1) <= Len(n2)
      BY <2>1 DEF Extends, Network
    <2>3. \A n \in 1..Len(n1) : n1[n][1] \in Nat /\ n1[n][2] \in Nat
      BY <2>1
    <2> QED
      BY <2>1, <2>2, <2>3
  <1>2. \A n \in 0..Len(n1) : f1[n] = f[n] /\ n \in 0..Len(n2) /\ f[n] \in BOOLEAN
    BY <1>1 DEF MockValuation
  <1>3. \A s \in Nat : NodeOf(s) <= Len(n1) => (Bit(f1, s) <=> Bit(f, s))
    <2> SUFFICES ASSUME NEW s \in Nat, NodeOf(s) <= Len(n1)
                 PROVE  Bit(f1, s) <=> Bit(f, s)
      OBVIOUS
    <2>1. NodeOf(s) \in 0..Len(n1)
      BY <1>1, MockSignals
    <2> QED
      BY <1>2, <2>1 DEF Bit
  <1>4. f1 \in [0..Len(n1) -> BOOLEAN] /\ ~f1[0]
    BY <1>1, <1>2 DEF MockValuation
  <1>5. \A n \in 1..i : f1[n] = w[n]
    BY <1>1, <1>2 DEF MockValuation
  <1>6. ASSUME NEW n \in (i + 1)..Len(n1)
        PROVE  f1[n] <=> Bit(f1, n1[n][1]) /\ Bit(f1, n1[n][2])
    <2> DEFINE a == n1[n][1]
               b == n1[n][2]
    <2>1. n \in 1..Len(n1) /\ n \in (i + 1)..Len(n2) /\ n \in 0..Len(n1)
      BY <1>1
    <2>2. n2[n][1] = a /\ n2[n][2] = b
      BY <2>1 DEF Extends
    <2>3. f[n] <=> Bit(f, a) /\ Bit(f, b)
      BY <2>1, <2>2 DEF MockValuation
    <2>4. a \in Nat /\ b \in Nat /\ NodeOf(a) \in 1..(n - 1) /\ NodeOf(b) \in 1..(n - 1)
      BY <1>1, <2>1
    <2> HIDE DEF a, b
    <2>5. NodeOf(a) <= Len(n1) /\ NodeOf(b) <= Len(n1)
      BY <1>1, <2>1, <2>4
    <2>6. (Bit(f1, a) <=> Bit(f, a)) /\ (Bit(f1, b) <=> Bit(f, b))
      BY <1>3, <2>4, <2>5
    <2>7. f1[n] = f[n]
      BY <1>2, <2>1
    <2> QED
      BY <2>3, <2>6, <2>7 DEF a, b
  <1> QED
    BY <1>3, <1>4, <1>5, <1>6 DEF MockValuation

(***************************************************************************)
(* create_and, aig.hpp:261-313.                                            *)
(***************************************************************************)
Pair(c, d, a, b) == \/ c = a /\ d = b
                    \/ c = b /\ d = a

\* What it leaves: no node, or one behind the others.
LEMMA CreateAndCases ==
    ASSUME NEW i, Network(nodes, i), NEW a \in Nat, NEW b \in Nat,
           NodeOf(a) <= Len(nodes), NodeOf(b) <= Len(nodes),
           NEW made, made = CreateAnd(a, b)
    PROVE  \/ a = b /\ made = [nodes |-> nodes, signal |-> a]
           \/ /\ NodeOf(a) = NodeOf(b) /\ a # b
              /\ made = [nodes |-> nodes, signal |-> 0]
           \/ \E low, high \in Nat :
                /\ Pair(low, high, a, b) /\ NodeOf(low) < NodeOf(high)
                /\ \/ low = 1 /\ made = [nodes |-> nodes, signal |-> high]
                   \/ low = 0 /\ made = [nodes |-> nodes, signal |-> 0]
                   \/ /\ 0 < NodeOf(low)
                      /\ \E n \in 1..Len(nodes) : nodes[n] = <<low, high>>
                                        /\ made = [nodes |-> nodes, signal |-> 2 * n]
                   \/ /\ 0 < NodeOf(low)
                      /\ \A n \in 1..Len(nodes) : nodes[n] # <<low, high>>
                      /\ made = [nodes |-> Append(nodes, <<low, high>>),
                                 signal |-> 2 * (Len(nodes) + 1)]
  <1> DEFINE low  == IF NodeOf(a) > NodeOf(b) THEN b ELSE a
             high == IF NodeOf(a) > NodeOf(b) THEN a ELSE b
             equal == {n \in DOMAIN nodes : nodes[n] = <<low, high>>}
  <1>1. /\ NodeOf(a) \in Nat /\ NodeOf(b) \in Nat
        /\ low \in Nat /\ high \in Nat /\ NodeOf(low) \in Nat
        /\ Pair(low, high, a, b)
        /\ NodeOf(a) = NodeOf(b) => low = a
        /\ NodeOf(a) # NodeOf(b) => NodeOf(low) < NodeOf(high)
    <2>1. NodeOf(a) \in Nat /\ NodeOf(b) \in Nat
      BY MockSignals
    <2> QED
      BY <2>1 DEF Pair
  <1>2. made = IF NodeOf(a) = NodeOf(b)
               THEN [nodes |-> nodes, signal |-> IF a = b THEN low ELSE 0]
               ELSE IF NodeOf(low) = 0
               THEN [nodes |-> nodes, signal |-> IF low = 1 THEN high ELSE 0]
               ELSE IF equal # {}
               THEN [nodes |-> nodes, signal |-> 2 * (CHOOSE n \in equal : TRUE)]
               ELSE [nodes |-> Append(nodes, <<low, high>>),
                     signal |-> 2 * (Len(nodes) + 1)]
    BY DEF CreateAnd
  <1>3. NodeOf(low) = 0 => low \in {0, 1}
    <2>1. low \in Nat /\ NodeOf(low) \in Nat /\ Complemented(low) \in {0, 1}
          /\ Complemented(low) = low - 2 * NodeOf(low)
      BY <1>1, MockSignals
    <2> HIDE DEF low
    <2> QED
      BY <2>1
  <1>4. equal # {} => \E n \in 1..Len(nodes) :
                        nodes[n] = <<low, high>> /\ n = (CHOOSE k \in equal : TRUE)
    <2>1. DOMAIN nodes = 1..Len(nodes)
      BY NetworkNodes
    <2> HIDE DEF low, high
    <2> QED
      BY <2>1
  <1>5. equal = {} => \A n \in 1..Len(nodes) : nodes[n] # <<low, high>>
    <2>1. DOMAIN nodes = 1..Len(nodes)
      BY NetworkNodes
    <2> HIDE DEF low, high
    <2> QED
      BY <2>1
  <1> HIDE DEF low, high, equal
  <1>6. CASE NodeOf(a) = NodeOf(b)
    BY <1>1, <1>2, <1>6
  <1>7. CASE NodeOf(a) # NodeOf(b) /\ NodeOf(low) = 0
    <2>1. \/ low = 1 /\ made = [nodes |-> nodes, signal |-> high]
          \/ low = 0 /\ made = [nodes |-> nodes, signal |-> 0]
      BY <1>2, <1>3, <1>7
    <2> QED
      BY <1>1, <1>7, <2>1
  <1>8. CASE NodeOf(a) # NodeOf(b) /\ NodeOf(low) # 0 /\ equal # {}
    <2>1. \E n \in 1..Len(nodes) : /\ nodes[n] = <<low, high>>
                                   /\ made = [nodes |-> nodes, signal |-> 2 * n]
      BY <1>2, <1>4, <1>8
    <2>2. 0 < NodeOf(low)
      BY <1>1, <1>8
    <2> QED
      BY <1>1, <1>8, <2>1, <2>2
  <1>9. CASE NodeOf(a) # NodeOf(b) /\ NodeOf(low) # 0 /\ equal = {}
    <2>1. /\ \A n \in 1..Len(nodes) : nodes[n] # <<low, high>>
          /\ made = [nodes |-> Append(nodes, <<low, high>>),
                     signal |-> 2 * (Len(nodes) + 1)]
      BY <1>2, <1>5, <1>9
    <2>2. 0 < NodeOf(low)
      BY <1>1, <1>9
    <2> QED
      BY <1>1, <1>9, <2>1, <2>2
  <1> QED
    BY <1>6, <1>7, <1>8, <1>9

\* A node that is new leaves a reduced network.
LEMMA NodeAppended ==
    ASSUME NEW nds, NEW i, Network(nds, i), NEW node \in Nat \X Nat,
           0 < NodeOf(node[1]), NodeOf(node[1]) < NodeOf(node[2]),
           NodeOf(node[2]) <= Len(nds),
           \A n \in 1..Len(nds) : nds[n] # node,
           NEW n2 \in Seq(Nat \X Nat), Len(n2) = Len(nds) + 1,
           \A n \in 1..Len(nds) : n2[n] = nds[n], n2[Len(nds) + 1] = node
    PROVE  Network(n2, i) /\ Extends(n2, nds)
  <1>1. /\ nds \in Seq(Nat \X Nat) /\ Len(nds) \in Nat /\ i \in Nat /\ i <= Len(nds)
        /\ NodeOf(node[1]) \in Nat /\ NodeOf(node[2]) \in Nat
    <2>1. node[1] \in Nat /\ node[2] \in Nat
      OBVIOUS
    <2>2. NodeOf(node[1]) \in Nat /\ NodeOf(node[2]) \in Nat
      BY <2>1, MockSignals
    <2>3. Len(nds) \in Nat
      BY NetworkNodes
    <2> QED
      BY <2>2, <2>3 DEF Network
  <1>0. /\ Len(n2) = Len(nds) + 1
        /\ 0 < NodeOf(node[1]) /\ NodeOf(node[1]) < NodeOf(node[2]) /\ NodeOf(node[2]) <= Len(nds)
    OBVIOUS
  <1>2. DOMAIN n2 = 1..(Len(nds) + 1) /\ DOMAIN nds = 1..Len(nds)
    BY <1>1
  <1>3. \A n \in 1..(Len(nds) + 1) : n \in 1..Len(nds) \/ n = Len(nds) + 1
    BY <1>1
  <1>4. ASSUME NEW n \in (i + 1)..Len(n2)
        PROVE  Ordered(n2, n)
    <2>1. CASE n = Len(nds) + 1
      <3>1. n2[n] = node
        BY <2>1
      <3> QED
        BY ONLY <1>0, <1>1, <2>1, <3>1 DEF Ordered
    <2>2. CASE n # Len(nds) + 1
      <3>1. n \in (i + 1)..Len(nds) /\ n \in 1..Len(nds)
        <4>1. PICK N \in Nat : N = Len(nds)
          BY <1>1
        <4>2. n \in (i + 1)..(N + 1) /\ i \in Nat /\ n # N + 1
          BY <1>0, <1>1, <2>2, <4>1
        <4>3. n \in (i + 1)..N /\ n \in 1..N
          BY ONLY <4>1, <4>2
        <4> QED
          BY <4>1, <4>3
      <3> QED
        BY <3>1 DEF Network, Ordered
    <2> QED
      BY <2>1, <2>2
  <1>5. IsInjective(n2)
    <2> SUFFICES ASSUME NEW k \in DOMAIN n2, NEW m \in DOMAIN n2, n2[k] = n2[m]
                 PROVE  k = m
      BY DEF IsInjective
    <2>1. /\ k \in 1..Len(nds) \/ k = Len(nds) + 1
          /\ m \in 1..Len(nds) \/ m = Len(nds) + 1
      BY <1>2, <1>3
    <2>2. IsInjective(nds)
      BY DEF Network
    <2> QED
      BY <1>2, <2>1, <2>2 DEF IsInjective
  <1>6. \A n \in 1..i : n2[n] = Pi(n)
    <2>1. \A n \in 1..i : n \in 1..Len(nds)
      BY <1>1
    <2> QED
      BY <2>1 DEF Network
  <1>7. i \in 0..Len(n2) /\ Len(nds) <= Len(n2)
    <2>1. Len(nds) \in Nat /\ i \in Nat /\ i <= Len(nds) /\ Len(n2) = Len(nds) + 1
      BY <1>0, <1>1
    <2> QED
      BY ONLY <2>1
  <1> QED
    BY <1>4, <1>5, <1>6, <1>7 DEF Network, Extends

\* made holds a network that has grown, if at all, and a signal of it with the
\* conjunction of a and b.
Conjoins(made, i, a, b) ==
    /\ Network(made.nodes, i) /\ Extends(made.nodes, nodes)
    /\ made.signal \in Nat /\ NodeOf(made.signal) <= Len(made.nodes)
    /\ \A w, f : MockValuation(made.nodes, i, w, f) =>
                   (Bit(f, made.signal) <=> Bit(f, a) /\ Bit(f, b))

LEMMA CreateAndCorrect ==
    ASSUME NEW i, Network(nodes, i), NEW a \in Nat, NEW b \in Nat,
           NodeOf(a) <= Len(nodes), NodeOf(b) <= Len(nodes),
           NEW made, made = CreateAnd(a, b)
    PROVE  Conjoins(made, i, a, b)
  <1>1. /\ Len(nodes) \in Nat /\ i \in Nat
        /\ NodeOf(0) = 0 /\ NodeOf(1) = 0 /\ Complemented(0) = 0 /\ Complemented(1) = 1
        /\ NodeOf(a) \in Nat /\ NodeOf(b) \in Nat
    <2>1. 0 \div 2 = 0 /\ 1 \div 2 = 0 /\ 0 % 2 = 0 /\ 1 % 2 = 1
      OBVIOUS
    <2> QED
      BY <2>1, NetworkNodes, MockSignals DEF NodeOf, Complemented
  <1>2. Extends(nodes, nodes)
    BY <1>1 DEF Extends
  <1>3. ASSUME NEW w, NEW f, NEW nds, Len(nds) \in Nat, MockValuation(nds, i, w, f)
        PROVE  ~Bit(f, 0) /\ Bit(f, 1)
    <2>1. ~f[0] /\ f[0] \in BOOLEAN
      BY <1>3 DEF MockValuation
    <2> QED
      BY <1>1, <2>1 DEF Bit
  <1>4. CASE a = b /\ made = [nodes |-> nodes, signal |-> a]
    BY <1>2, <1>4 DEF Conjoins
  <1>5. CASE NodeOf(a) = NodeOf(b) /\ a # b /\ made = [nodes |-> nodes, signal |-> 0]
    <2>1. made.nodes = nodes /\ made.signal = 0
      BY <1>5
    <2>2. Complemented(a) = 1 <=> Complemented(b) # 1
      <3>1. /\ Complemented(a) \in {0, 1} /\ Complemented(a) = a - 2 * NodeOf(a)
            /\ Complemented(b) \in {0, 1} /\ Complemented(b) = b - 2 * NodeOf(b)
        BY MockSignals
      <3> QED
        BY <1>1, <1>5, <3>1
    <2>3. ASSUME NEW w, NEW f, MockValuation(nodes, i, w, f)
          PROVE  Bit(f, 0) <=> Bit(f, a) /\ Bit(f, b)
      <3>1. f[NodeOf(a)] \in BOOLEAN
        BY <1>1, <2>3 DEF MockValuation
      <3>2. ~(Bit(f, a) /\ Bit(f, b))
        BY <1>5, <2>2, <3>1 DEF Bit
      <3> QED
        BY <1>1, <1>3, <2>3, <3>2
    <2> QED
      BY <1>1, <1>2, <2>1, <2>3 DEF Conjoins
  <1>6. ASSUME NEW low \in Nat, NEW high \in Nat, Pair(low, high, a, b),
               NodeOf(low) < NodeOf(high)
        PROVE  /\ NodeOf(high) <= Len(nodes) /\ NodeOf(low) \in Nat /\ NodeOf(high) \in Nat
               /\ low # high
               /\ \A f : Bit(f, low) /\ Bit(f, high) <=> Bit(f, a) /\ Bit(f, b)
    <2>1. \A f : Bit(f, low) /\ Bit(f, high) <=> Bit(f, a) /\ Bit(f, b)
      BY <1>6 DEF Pair
    <2> QED
      BY <1>1, <1>6, <2>1 DEF Pair
  <1>7. ASSUME NEW low \in Nat, NEW high \in Nat, Pair(low, high, a, b),
               NodeOf(low) < NodeOf(high),
               \/ low = 1 /\ made = [nodes |-> nodes, signal |-> high]
               \/ low = 0 /\ made = [nodes |-> nodes, signal |-> 0]
        PROVE  Conjoins(made, i, a, b)
    <2>1. /\ made.nodes = nodes
          /\ \/ low = 1 /\ made.signal = high
             \/ low = 0 /\ made.signal = 0
      BY <1>7
    <2>2. ASSUME NEW w, NEW f, MockValuation(nodes, i, w, f)
          PROVE  Bit(f, made.signal) <=> Bit(f, a) /\ Bit(f, b)
      <3>1. ~Bit(f, 0) /\ Bit(f, 1)
        BY <1>1, <1>3, <2>2
      <3>2. Bit(f, made.signal) <=> Bit(f, low) /\ Bit(f, high)
        BY <2>1, <3>1
      <3>3. Bit(f, low) /\ Bit(f, high) <=> Bit(f, a) /\ Bit(f, b)
        BY <1>6, <1>7
      <3> QED
        BY <3>2, <3>3
    <2>3. NodeOf(made.signal) <= Len(nodes) /\ made.signal \in Nat
      <3>1. NodeOf(high) <= Len(nodes)
        BY <1>6, <1>7
      <3> QED
        BY <1>1, <2>1, <3>1
    <2> QED
      BY <1>2, <2>1, <2>2, <2>3 DEF Conjoins
  <1>8. ASSUME NEW low \in Nat, NEW high \in Nat, Pair(low, high, a, b),
               NodeOf(low) < NodeOf(high),
               NEW n \in (i + 1)..Len(made.nodes), made.nodes[n] = <<low, high>>,
               made.signal = 2 * n,
               Network(made.nodes, i), Extends(made.nodes, nodes)
        PROVE  Conjoins(made, i, a, b)
    <2>1. /\ n \in Nat /\ 2 * n \in Nat /\ NodeOf(2 * n) = n /\ Complemented(2 * n) = 0
      <3>1. n \in Nat
        BY <1>1
      <3> QED
        BY <3>1, NodeSignal
    <2>2. ASSUME NEW w, NEW f, MockValuation(made.nodes, i, w, f)
          PROVE  Bit(f, made.signal) <=> Bit(f, a) /\ Bit(f, b)
      <3>1. f[n] <=> Bit(f, made.nodes[n][1]) /\ Bit(f, made.nodes[n][2])
        BY <2>2 DEF MockValuation
      <3>2. made.nodes[n][1] = low /\ made.nodes[n][2] = high
        BY <1>8
      <3>3. f[n] \in BOOLEAN
        <4>1. n \in 0..Len(made.nodes)
          BY <1>1, <2>1
        <4> QED
          BY <2>2, <4>1 DEF MockValuation
      <3>4. Bit(f, made.signal) <=> f[n]
        BY <1>8, <2>1, <3>3 DEF Bit
      <3>5. Bit(f, low) /\ Bit(f, high) <=> Bit(f, a) /\ Bit(f, b)
        BY <1>6, <1>8
      <3> QED
        BY <3>1, <3>2, <3>4, <3>5
    <2>3. NodeOf(made.signal) <= Len(made.nodes) /\ made.signal \in Nat
      BY <1>8, <2>1
    <2> QED
      BY <1>8, <2>2, <2>3 DEF Conjoins
  <1>9. ASSUME NEW low \in Nat, NEW high \in Nat, Pair(low, high, a, b),
               NodeOf(low) < NodeOf(high),
               NEW n \in 1..Len(nodes), nodes[n] = <<low, high>>,
               made = [nodes |-> nodes, signal |-> 2 * n]
        PROVE  Conjoins(made, i, a, b)
    <2>1. made.nodes = nodes /\ made.signal = 2 * n /\ n \in Nat
      BY <1>1, <1>9
    <2>2. n \in (i + 1)..Len(nodes)
      <3>1. nodes[n][1] = low /\ nodes[n][2] = high /\ low # high
        BY <1>6, <1>9
      <3>2. n \notin 1..i
        BY <1>9, <3>1, NetworkNodes
      <3> QED
        BY <1>1, <3>2
    <2> QED
      BY <1>2, <1>8, <1>9, <2>1, <2>2
  <1>10. ASSUME NEW low \in Nat, NEW high \in Nat, Pair(low, high, a, b),
                0 < NodeOf(low), NodeOf(low) < NodeOf(high),
                \A n \in 1..Len(nodes) : nodes[n] # <<low, high>>,
                made = [nodes |-> Append(nodes, <<low, high>>),
                        signal |-> 2 * (Len(nodes) + 1)]
         PROVE  Conjoins(made, i, a, b)
    <2>1. PICK nds, n2, node : nds = nodes /\ n2 = made.nodes /\ node = <<low, high>>
      OBVIOUS
    <2>2. NodeOf(high) <= Len(nds) /\ Network(nds, i)
      BY <1>6, <1>10, <2>1
    <2>3. /\ n2 \in Seq(Nat \X Nat) /\ Len(n2) = Len(nds) + 1
          /\ \A n \in 1..Len(nds) : n2[n] = nds[n]
          /\ n2[Len(nds) + 1] = node
      <3>1. n2 = Append(nds, node)
        BY <1>10, <2>1
      <3>2. nds \in Seq(Nat \X Nat) /\ node \in Nat \X Nat
        BY <2>1, <2>2 DEF Network
      <3> QED
        BY ONLY <3>1, <3>2, AppendProperties
    <2>4. Network(n2, i) /\ Extends(n2, nds)
      <3>1. \A n \in 1..Len(nds) : nds[n] # node
        BY <1>10, <2>1
      <3>2. /\ node \in Nat \X Nat /\ 0 < NodeOf(node[1])
            /\ NodeOf(node[1]) < NodeOf(node[2]) /\ NodeOf(node[2]) <= Len(nds)
        BY <1>10, <2>1, <2>2
      <3> QED
        BY ONLY <2>2, <2>3, <3>1, <3>2, NodeAppended
    <2>5. Len(nodes) + 1 \in (i + 1)..Len(made.nodes)
      BY <1>1, <2>1, <2>3, <2>4 DEF Network
    <2>6. made.signal = 2 * (Len(nodes) + 1)
      BY <1>10
    <2>7. /\ made.nodes[Len(nodes) + 1] = <<low, high>>
          /\ Network(made.nodes, i) /\ Extends(made.nodes, nodes)
      BY <2>1, <2>3, <2>4
    <2>8. PICK n : n = Len(nodes) + 1
      OBVIOUS
    <2> QED
      BY <1>8, <1>10, <2>5, <2>6, <2>7, <2>8
  <1> QED
    BY <1>4, <1>5, <1>7, <1>9, <1>10, CreateAndCases

(***************************************************************************)
(* Files.                                                                  *)
(***************************************************************************)
MockVariables == file.inputs + Len(file.ands)

\* g gives the variables of the file their values under the vector w.
FileValuation(w, g) ==
    /\ g \in [0..MockVariables -> BOOLEAN]
    /\ ~g[0]
    /\ \A v \in 1..file.inputs : g[v] = w[v]
    /\ \A v \in (file.inputs + 1)..MockVariables :
         g[v] <=> Bit(g, file.ands[v - file.inputs].rhs0)
                  /\ Bit(g, file.ands[v - file.inputs].rhs1)

LEMMA FileFacts ==
    ASSUME file \in AigFiles
    PROVE  /\ file.inputs \in Nat /\ Len(file.ands) \in Nat /\ MockVariables \in Nat
           /\ file.inputs <= MockVariables
           /\ Len(file.outputs) \in Nat
           /\ \A k \in 1..Len(file.ands) :
                /\ file.ands[k].rhs0 \in Nat /\ file.ands[k].rhs1 \in Nat
                /\ NodeOf(file.ands[k].rhs0) < file.inputs + k
                /\ NodeOf(file.ands[k].rhs1) < file.inputs + k
           /\ \A k \in 1..Len(file.outputs) :
                file.outputs[k] \in Nat /\ NodeOf(file.outputs[k]) <= MockVariables
  <1>1. /\ file.inputs \in Nat
        /\ file.ands \in Seq([rhs0 : Nat, rhs1 : Nat])
        /\ file.outputs \in Seq(Nat)
        /\ \A k \in 1..Len(file.ands) :
             /\ file.ands[k].rhs0 < 2 * (file.inputs + k)
             /\ file.ands[k].rhs1 <= file.ands[k].rhs0
        /\ \A k \in 1..Len(file.outputs) :
             file.outputs[k] < 2 * (file.inputs + Len(file.ands) + 1)
    BY FilesAssumption
  <1>2. /\ Len(file.ands) \in Nat /\ Len(file.outputs) \in Nat
        /\ \A k \in 1..Len(file.ands) : file.ands[k] \in [rhs0 : Nat, rhs1 : Nat]
        /\ \A k \in 1..Len(file.outputs) : file.outputs[k] \in Nat
    <2>1. PICK ands, outs : ands = file.ands /\ outs = file.outputs
      OBVIOUS
    <2>2. ands \in Seq([rhs0 : Nat, rhs1 : Nat]) /\ outs \in Seq(Nat)
      BY <1>1, <2>1
    <2>3. /\ Len(ands) \in Nat
          /\ \A k \in 1..Len(ands) : ands[k] \in [rhs0 : Nat, rhs1 : Nat]
      BY <2>2, LenProperties, ElementOfSeq
    <2>4. Len(outs) \in Nat /\ \A k \in 1..Len(outs) : outs[k] \in Nat
      BY <2>2, LenProperties, ElementOfSeq
    <2> QED
      BY <2>1, <2>3, <2>4
  <1>3. ASSUME NEW s \in Nat, NEW m \in Nat, s < 2 * m
        PROVE  NodeOf(s) < m
    <2>1. /\ NodeOf(s) \in Nat /\ Complemented(s) \in {0, 1}
          /\ Complemented(s) = s - 2 * NodeOf(s)
      BY MockSignals
    <2> QED
      BY <1>3, <2>1
  <1>4. ASSUME NEW k \in 1..Len(file.ands)
        PROVE  /\ file.ands[k].rhs0 \in Nat /\ file.ands[k].rhs1 \in Nat
               /\ NodeOf(file.ands[k].rhs0) < file.inputs + k
               /\ NodeOf(file.ands[k].rhs1) < file.inputs + k
    <2>1. file.ands[k].rhs0 \in Nat /\ file.ands[k].rhs1 \in Nat
      BY <1>2
    <2>2. /\ file.ands[k].rhs0 < 2 * (file.inputs + k)
          /\ file.ands[k].rhs1 <= file.ands[k].rhs0
      BY <1>1
    <2>3. file.inputs + k \in Nat
      <3>1. file.inputs \in Nat /\ Len(file.ands) \in Nat
        BY <1>1, <1>2
      <3> QED
        BY <3>1
    <2>4. file.ands[k].rhs1 < 2 * (file.inputs + k)
      BY <2>1, <2>2, <2>3
    <2> QED
      BY <1>3, <2>1, <2>2, <2>3, <2>4
  <1>5. ASSUME NEW k \in 1..Len(file.outputs)
        PROVE  file.outputs[k] \in Nat /\ NodeOf(file.outputs[k]) <= MockVariables
    <2>1. file.outputs[k] \in Nat /\ file.outputs[k] < 2 * (MockVariables + 1)
      BY <1>1, <1>2 DEF MockVariables
    <2>2. MockVariables + 1 \in Nat /\ MockVariables \in Nat
      BY <1>1, <1>2 DEF MockVariables
    <2>3. NodeOf(file.outputs[k]) < MockVariables + 1
      BY <1>3, <2>1, <2>2
    <2>4. NodeOf(file.outputs[k]) \in Nat
      BY <2>1, MockSignals
    <2> QED
      BY <2>1, <2>2, <2>3, <2>4
  <1> QED
    BY <1>1, <1>2, <1>4, <1>5 DEF MockVariables

\* FileValues evaluates the file.
LEMMA EvaluatesFile ==
    ASSUME file \in AigFiles, NEW w \in [1..file.inputs -> BOOLEAN]
    PROVE  FileValuation(w, FileValues(w))
  <1> DEFINE N == MockVariables
             leaves == 1..file.inputs
             g == [n \in 1..N |-> IF n \in leaves THEN w[n] ELSE FALSE]
             x == [n \in 1..N |-> IF n \in leaves THEN 0 ELSE file.ands[n - file.inputs].rhs0]
             y == [n \in 1..N |-> IF n \in leaves THEN 0 ELSE file.ands[n - file.inputs].rhs1]
             Body(f, n) == IF n = 0 THEN FALSE
                           ELSE IF n \in leaves THEN g[n]
                           ELSE Bit(f, x[n]) /\ Bit(f, y[n])
             MockValue(f, v) == IF v = 0 THEN FALSE
                            ELSE IF v <= file.inputs THEN w[v]
                            ELSE \A lit \in {file.ands[v - file.inputs].rhs0,
                                             file.ands[v - file.inputs].rhs1} :
                                   f[lit \div 2] # (lit % 2 = 1)
  <1>1. N \in Nat /\ file.inputs \in Nat /\ file.inputs <= N
    BY FileFacts
  <1>2. ASSUME NEW n \in 1..N, n \notin leaves
        PROVE  /\ x[n] = file.ands[n - file.inputs].rhs0
               /\ y[n] = file.ands[n - file.inputs].rhs1
               /\ x[n] \in Nat /\ y[n] \in Nat
               /\ NodeOf(x[n]) < n /\ NodeOf(y[n]) < n
    <2>1. n - file.inputs \in 1..Len(file.ands) /\ file.inputs + (n - file.inputs) = n
      BY <1>1, <1>2, FileFacts DEF MockVariables
    <2>2. /\ x[n] = file.ands[n - file.inputs].rhs0
          /\ y[n] = file.ands[n - file.inputs].rhs1
      BY <1>2
    <2>3. /\ file.ands[n - file.inputs].rhs0 \in Nat
          /\ file.ands[n - file.inputs].rhs1 \in Nat
          /\ NodeOf(file.ands[n - file.inputs].rhs0) < n
          /\ NodeOf(file.ands[n - file.inputs].rhs1) < n
      <3>1. PICK k : k = n - file.inputs
        OBVIOUS
      <3> QED
        BY <2>1, <3>1, FileFacts
    <2> HIDE DEF x, y
    <2> QED
      BY <2>2, <2>3
  <1>3. g \in [1..N -> BOOLEAN] /\ x \in [1..N -> Nat] /\ y \in [1..N -> Nat]
    <2>1. \A n \in 1..N : x[n] \in Nat /\ y[n] \in Nat
      <3>1. ASSUME NEW n \in 1..N
            PROVE  x[n] \in Nat /\ y[n] \in Nat
        <4>1. CASE n \in leaves
          BY <4>1
        <4>2. CASE n \notin leaves
          <5> HIDE DEF x, y
          <5> QED
            BY <1>2, <4>2
        <4> QED
          BY <4>1, <4>2
      <3> QED
        BY <3>1
    <2>2. /\ x = [n \in 1..N |-> x[n]] /\ y = [n \in 1..N |-> y[n]]
      OBVIOUS
    <2>3. x \in [1..N -> Nat] /\ y \in [1..N -> Nat]
      <3> HIDE DEF x, y
      <3> QED
        BY <2>1, <2>2
    <2>4. g \in [1..N -> BOOLEAN]
      OBVIOUS
    <2> QED
      BY <2>3, <2>4
  <1>4. PICK f : /\ f \in [0..N -> BOOLEAN]
                 /\ \A n \in 0..N : f[n] = Body(f, n)
    <2>1. PICK N0, l0, g0, x0, y0 : N0 = N /\ l0 = leaves /\ g0 = g /\ x0 = x /\ y0 = y
      OBVIOUS
    <2> HIDE DEF N, leaves, g, x, y
    <2>2. /\ N0 \in Nat /\ g0 \in [1..N0 -> BOOLEAN]
          /\ x0 \in [1..N0 -> Nat] /\ y0 \in [1..N0 -> Nat]
          /\ \A n \in 1..N0 : n \notin l0 => NodeOf(x0[n]) < n /\ NodeOf(y0[n]) < n
      BY <1>1, <1>2, <1>3, <2>1
    <2>3. \E f : Solution(N0, l0, g0, x0, y0, f)
      BY <2>2, RecursionHasSolution
    <2> QED
      BY <2>1, <2>3 DEF Solution
  <1>5. ASSUME NEW h, NEW n \in 0..N
        PROVE  Body(h, n) = MockValue(h, n)
    <2>1. CASE n = 0
      BY <2>1
    <2>2. CASE n \in leaves
      <3>1. n # 0 /\ n \in 1..N /\ n <= file.inputs
        BY <1>1, <2>2
      <3>2. g[n] = w[n]
        BY <2>2, <3>1
      <3> HIDE DEF g, leaves
      <3> QED
        BY <2>2, <3>1, <3>2
    <2>3. CASE n # 0 /\ n \notin leaves
      <3>1. n \in 1..N /\ ~(n <= file.inputs)
        BY <1>1, <2>3
      <3>2. /\ x[n] = file.ands[n - file.inputs].rhs0
            /\ y[n] = file.ands[n - file.inputs].rhs1
        BY <1>2, <2>3, <3>1
      <3>3. Body(h, n) = (Bit(h, x[n]) /\ Bit(h, y[n]))
        BY <2>3
      <3>4. MockValue(h, n) = \A lit \in {x[n], y[n]} : h[lit \div 2] # (lit % 2 = 1)
        <4> HIDE DEF x, y
        <4> QED
          BY <2>3, <3>1, <3>2
      <3> HIDE DEF x, y, Body, MockValue
      <3> QED
        BY <3>3, <3>4 DEF Bit, NodeOf, Complemented
    <2> QED
      BY <1>1, <2>1, <2>2, <2>3
  <1>6. f = [n \in 0..N |-> MockValue(f, n)]
    <2>1. \A n \in 0..N : f[n] = MockValue(f, n)
      <3> HIDE DEF N, Body, MockValue
      <3> QED
        BY <1>4, <1>5
    <2> HIDE DEF N, Body, MockValue
    <2> QED
      BY <1>4, <2>1
  <1>7. FileValues(w) = CHOOSE h : h = [n \in 0..N |-> MockValue(h, n)]
    BY DEF FileValues, MockVariables
  <1>8. PICK v : v = FileValues(w)
    OBVIOUS
  <1>9. v = [n \in 0..N |-> MockValue(v, n)]
    <2> HIDE DEF N, MockValue
    <2> QED
      BY <1>6, <1>7, <1>8
  <1>10. \A n \in 0..N : v[n] = Body(v, n)
    <2> HIDE DEF N, Body, MockValue
    <2> QED
      BY <1>5, <1>9
  <1>11. v \in [0..N -> BOOLEAN]
    <2>1. \A n \in 0..N : n # 0 => n \in 1..N
      BY <1>1
    <2>2. \A n \in 0..N : Body(v, n) \in BOOLEAN
      BY <1>3, <2>1
    <2> HIDE DEF N, Body, MockValue
    <2> QED
      BY <1>9, <1>10, <2>2
  <1>12. ~v[0]
    <2>1. Body(v, 0) = FALSE /\ 0 \in 0..N
      BY <1>1
    <2> HIDE DEF N, Body
    <2> QED
      BY <1>10, <2>1
  <1>13. ASSUME NEW n \in 1..file.inputs
         PROVE  v[n] = w[n]
    <2>1. n \in 0..N /\ n \in 1..N /\ n # 0 /\ n \in leaves
      BY <1>1
    <2>2. Body(v, n) = w[n]
      BY <2>1
    <2> HIDE DEF N, Body
    <2> QED
      BY <1>10, <2>1, <2>2
  <1>14. ASSUME NEW n \in (file.inputs + 1)..N
         PROVE  v[n] <=> Bit(v, file.ands[n - file.inputs].rhs0)
                         /\ Bit(v, file.ands[n - file.inputs].rhs1)
    <2>1. n \in 1..N /\ n \in 0..N /\ n # 0 /\ n \notin leaves
      BY <1>1
    <2>2. /\ x[n] = file.ands[n - file.inputs].rhs0
          /\ y[n] = file.ands[n - file.inputs].rhs1
      BY <1>2, <2>1
    <2>3. Body(v, n) = (Bit(v, x[n]) /\ Bit(v, y[n]))
      BY <2>1
    <2> HIDE DEF N, x, y, Body
    <2> QED
      BY <1>10, <2>1, <2>2, <2>3
  <1> QED
    BY <1>8, <1>11, <1>12, <1>13, <1>14 DEF FileValuation

(***************************************************************************)
(* The program.                                                            *)
(***************************************************************************)
\* The signals made so far have the functions of their variables.
Faithful ==
    \A w, f, g :
      MockValuation(nodes, file.inputs, w, f) /\ FileValuation(w, g) =>
        \A v \in 0..(Len(signals) - 1) : g[v] <=> Bit(f, signals[v + 1])

\* on_error: the network stays empty.
Empty == nodes = <<>> /\ signals = <<0>> /\ pos = <<>>

\* on_header and the ands read so far.
Built ==
    /\ Network(nodes, file.inputs)
    /\ signals \in Seq(Nat) /\ Len(signals) \in 1..(MockVariables + 1)
    /\ Len(signals) > file.inputs
    /\ \A k \in 1..Len(signals) : NodeOf(signals[k]) <= Len(nodes)
    /\ Faithful

Whole ==
    /\ Built /\ Len(signals) = MockVariables + 1
    /\ pos = [k \in 1..Len(file.outputs) |-> SignalOf(file.outputs[k])]

Word == {"0", "1", "other"}

MockInv ==
    /\ file \in AigFiles
    /\ step \in {"open", "ands", "lines", "finished"}
    /\ step = "open" => Empty
    /\ step = "ands" => Built /\ pos = <<>>
    /\ step \in {"lines", "finished"} => Empty \/ Whole
    /\ step \in {"open", "ands"} => words = <<>> /\ rows = <<>>
    /\ words \in Seq(Word) /\ rows \in Seq([1..Len(pos) -> BOOLEAN])
    /\ RowsOfVectors

\* The signal of a literal has the function of the literal.
LEMMA SignalOfLiteral ==
    ASSUME file \in AigFiles, Built, NEW lit \in Nat, NodeOf(lit) < Len(signals)
    PROVE  /\ SignalOf(lit) \in Nat /\ NodeOf(SignalOf(lit)) <= Len(nodes)
           /\ \A w, f, g :
                MockValuation(nodes, file.inputs, w, f) /\ FileValuation(w, g) =>
                  (Bit(f, SignalOf(lit)) <=> Bit(g, lit))
  <1> DEFINE v == NodeOf(lit)
             s == signals[v + 1]
  <1>1. /\ v \in Nat /\ v \in 0..(Len(signals) - 1) /\ v + 1 \in 1..Len(signals)
        /\ Len(signals) \in Nat
    <2>1. Len(signals) \in Nat
      BY DEF Built
    <2>2. v \in Nat /\ v < Len(signals)
      BY MockSignals
    <2> HIDE DEF v
    <2> QED
      BY <2>1, <2>2
  <1>2. s \in Nat /\ NodeOf(s) <= Len(nodes)
    <2>1. signals[v + 1] \in Nat
      <3>1. signals \in Seq(Nat)
        BY DEF Built
      <3> HIDE DEF v
      <3> QED
        BY <1>1, <3>1
    <2> HIDE DEF v
    <2> QED
      BY <1>1, <2>1 DEF Built
  <1>3. SignalOf(lit) = IF Complemented(lit) = 1 THEN Complement(s) ELSE s
    BY DEF SignalOf, NodeOf, Complemented
  <1> HIDE DEF s
  <1>4. /\ Complement(s) \in Nat /\ NodeOf(Complement(s)) = NodeOf(s)
        /\ (Complemented(Complement(s)) = 1) <=> (Complemented(s) # 1)
    BY <1>2, Complements
  <1>5. ASSUME NEW w, NEW f, NEW g,
               MockValuation(nodes, file.inputs, w, f), FileValuation(w, g)
        PROVE  Bit(f, SignalOf(lit)) <=> Bit(g, lit)
    <2>1. g[v] <=> Bit(f, s)
      BY <1>1, <1>5 DEF Built, Faithful, s
    <2>2. g[v] \in BOOLEAN
      <3>1. v \in 0..MockVariables
        <4>1. MockVariables \in Nat
          BY FileFacts
        <4>2. Len(signals) <= MockVariables + 1
          BY <4>1 DEF Built
        <4> QED
          BY <1>1, <4>1, <4>2
      <3> QED
        BY <1>5, <3>1 DEF FileValuation
    <2>3. f[NodeOf(s)] \in BOOLEAN
      <3>1. NodeOf(s) \in 0..Len(nodes)
        <4>1. Len(nodes) \in Nat /\ NodeOf(s) \in Nat
          BY <1>2, MockSignals, NetworkNodes DEF Built
        <4> QED
          BY <1>2, <4>1
      <3> QED
        BY <1>5, <3>1 DEF MockValuation
    <2>4. CASE Complemented(lit) = 1
      BY <1>3, <1>4, <2>1, <2>2, <2>3, <2>4 DEF Bit
    <2>5. CASE Complemented(lit) # 1
      BY <1>3, <2>1, <2>2, <2>3, <2>5 DEF Bit
    <2> QED
      BY <2>4, <2>5
  <1>6. SignalOf(lit) \in Nat /\ NodeOf(SignalOf(lit)) <= Len(nodes)
    BY <1>2, <1>3, <1>4
  <1> QED
    BY <1>5, <1>6

LEMMA HeaderInv ==
    ASSUME MockInv, OnHeader
    PROVE  MockInv'
  <1> DEFINE I == file.inputs
  <1>1. /\ file \in AigFiles /\ pos = <<>> /\ words = <<>> /\ rows = <<>>
        /\ UNCHANGED <<file, pos, words, rows>> /\ step' = "ands"
        /\ nodes' = [k \in 1..I |-> Pi(k)]
        /\ signals' = [k \in 1..(I + 1) |-> 2 * (k - 1)]
    BY DEF MockInv, OnHeader, Empty
  <1>2. I \in Nat /\ MockVariables \in Nat /\ I <= MockVariables
    BY <1>1, FileFacts
  <1>3. PICK nds, sigs : nds = nodes' /\ sigs = signals'
    OBVIOUS
  <1>4. /\ nds \in Seq(Nat \X Nat) /\ Len(nds) = I
        /\ \A k \in 1..I : nds[k] = <<k - 1, k - 1>>
    <2>1. nds = [k \in 1..I |-> <<k - 1, k - 1>>]
      BY <1>1, <1>3 DEF Pi
    <2>2. \A k \in 1..I : <<k - 1, k - 1>> \in Nat \X Nat
      BY <1>2
    <2> HIDE DEF I
    <2>3. nds \in [1..I -> Nat \X Nat]
      BY <2>1, <2>2
    <2>4. nds \in Seq(Nat \X Nat)
      BY <1>2, <2>3, SeqDef
    <2>5. Len(nds) = I
      BY <1>2, <2>3, <2>4, LenProperties
    <2> QED
      BY <2>1, <2>4, <2>5
  <1>5. /\ sigs \in Seq(Nat) /\ Len(sigs) = I + 1
        /\ \A k \in 1..(I + 1) : sigs[k] = 2 * (k - 1)
    <2>1. sigs = [k \in 1..(I + 1) |-> 2 * (k - 1)]
      BY <1>1, <1>3
    <2>2. \A k \in 1..(I + 1) : 2 * (k - 1) \in Nat
      BY <1>2
    <2> HIDE DEF I
    <2>3. sigs \in [1..(I + 1) -> Nat]
      BY <2>1, <2>2
    <2>4. I + 1 \in Nat
      BY <1>2
    <2>5. sigs \in Seq(Nat)
      BY <2>3, <2>4, SeqDef
    <2>6. Len(sigs) = I + 1
      BY <2>3, <2>4, <2>5, LenProperties
    <2> QED
      BY <2>1, <2>5, <2>6
  <1>6. Network(nds, I)
    <2>1. IsInjective(nds)
      <3> SUFFICES ASSUME NEW k \in DOMAIN nds, NEW m \in DOMAIN nds, nds[k] = nds[m]
                   PROVE  k = m
        BY DEF IsInjective
      <3>1. DOMAIN nds = 1..I
        BY <1>4
      <3>2. k - 1 = m - 1
        BY <1>4, <3>1
      <3> QED
        BY <1>2, <3>1, <3>2
    <2> QED
      BY <1>2, <1>4, <2>1 DEF Network, Pi
  <1>7. \A k \in 1..(I + 1) : NodeOf(sigs[k]) = k - 1 /\ Complemented(sigs[k]) = 0
    <2> SUFFICES ASSUME NEW k \in 1..(I + 1)
                 PROVE  NodeOf(sigs[k]) = k - 1 /\ Complemented(sigs[k]) = 0
      OBVIOUS
    <2>1. PICK n : n = k - 1 /\ n \in Nat
      BY <1>2
    <2>2. sigs[k] = 2 * n
      BY <1>5, <2>1
    <2> QED
      BY <2>1, <2>2, NodeSignal
  <1>8. Built'
    <2>1. Faithful'
      <3> SUFFICES ASSUME NEW w, NEW f, NEW g,
                          MockValuation(nds, I, w, f), FileValuation(w, g), NEW v \in 0..I
                   PROVE  g[v] <=> Bit(f, sigs[v + 1])
        <4>1. \A w, g : FileValuation(w, g)' <=> FileValuation(w, g)
          BY <1>1 DEF FileValuation, MockVariables
        <4>2. Len(sigs) - 1 = I
          BY <1>2, <1>5
        <4> QED
          BY <1>1, <1>3, <4>1, <4>2 DEF Faithful
      <3>1. NodeOf(sigs[v + 1]) = v /\ Complemented(sigs[v + 1]) = 0
        BY <1>2, <1>7
      <3>2. f[v] \in BOOLEAN /\ g[v] \in BOOLEAN
        <4>1. v \in 0..Len(nds) /\ v \in 0..MockVariables
          BY <1>2, <1>4
        <4>2. f \in [0..Len(nds) -> BOOLEAN] /\ g \in [0..MockVariables -> BOOLEAN]
          BY DEF MockValuation, FileValuation
        <4> QED
          BY <4>1, <4>2
      <3>3. g[v] <=> f[v]
        <4>1. CASE v = 0
          BY <4>1 DEF MockValuation, FileValuation
        <4>2. CASE v # 0
          <5>1. v \in 1..I
            BY <1>2, <4>2
          <5> QED
            BY <5>1 DEF MockValuation, FileValuation
        <4> QED
          BY <4>1, <4>2
      <3> QED
        BY <3>1, <3>2, <3>3 DEF Bit
    <2>2. \A k \in 1..Len(sigs) : NodeOf(sigs[k]) <= Len(nds)
      <3> SUFFICES ASSUME NEW k \in 1..Len(sigs)
                   PROVE  NodeOf(sigs[k]) <= Len(nds)
        OBVIOUS
      <3>1. k \in 1..(I + 1) /\ Len(nds) = I /\ I \in Nat
        BY <1>2, <1>4, <1>5
      <3>2. NodeOf(sigs[k]) = k - 1
        BY <1>7, <3>1
      <3> QED
        BY <3>1, <3>2
    <2>3. MockVariables' = MockVariables /\ file'.inputs = I
      BY <1>1 DEF MockVariables
    <2>4. Len(sigs) \in 1..(MockVariables + 1) /\ Len(sigs) > I
      BY <1>2, <1>5
    <2> QED
      BY <1>3, <1>5, <1>6, <2>1, <2>2, <2>3, <2>4 DEF Built
  <1>9. RowsOfVectors' /\ words' \in Seq(Word) /\ rows' \in Seq([1..Len(pos') -> BOOLEAN])
    BY <1>1 DEF RowsOfVectors
  <1> QED
    BY <1>1, <1>8, <1>9 DEF MockInv

LEMMA AndInv ==
    ASSUME MockInv, OnAnd
    PROVE  MockInv'
  <1> DEFINE I == file.inputs
             k == Len(signals) - I
             made == CreateAnd(SignalOf(file.ands[k].rhs0), SignalOf(file.ands[k].rhs1))
  <1>1. /\ file \in AigFiles /\ pos = <<>> /\ words = <<>> /\ rows = <<>>
        /\ UNCHANGED <<file, pos, words, rows, step>> /\ step = "ands" /\ Built
        /\ Len(signals) <= I + Len(file.ands)
        /\ nodes' = made.nodes /\ signals' = Append(signals, made.signal)
    BY DEF MockInv, OnAnd
  <1>2. /\ I \in Nat /\ Len(file.ands) \in Nat /\ MockVariables = I + Len(file.ands)
        /\ MockVariables \in Nat
        /\ Len(signals) \in Nat /\ Len(signals) > I /\ signals \in Seq(Nat)
    BY <1>1, FileFacts DEF Built, MockVariables
  <1>3. k \in 1..Len(file.ands) /\ I + k = Len(signals)
    <2>1. Len(signals) <= I + Len(file.ands)
      BY <1>1
    <2> QED
      BY <1>2, <2>1
  <1> HIDE DEF k
  <1>4. PICK rhs0, rhs1 : rhs0 = file.ands[k].rhs0 /\ rhs1 = file.ands[k].rhs1
    OBVIOUS
  <1>5. /\ rhs0 \in Nat /\ rhs1 \in Nat
        /\ NodeOf(rhs0) < Len(signals) /\ NodeOf(rhs1) < Len(signals)
    BY <1>1, <1>3, <1>4, FileFacts
  <1>6. PICK a, b : a = SignalOf(rhs0) /\ b = SignalOf(rhs1)
    OBVIOUS
  <1>7. /\ a \in Nat /\ NodeOf(a) <= Len(nodes) /\ b \in Nat /\ NodeOf(b) <= Len(nodes)
        /\ \A w, f, g : MockValuation(nodes, I, w, f) /\ FileValuation(w, g) =>
                          /\ Bit(f, a) <=> Bit(g, rhs0)
                          /\ Bit(f, b) <=> Bit(g, rhs1)
    BY <1>1, <1>5, <1>6, SignalOfLiteral
  <1>8. PICK m : m = made
    OBVIOUS
  <1>9. Conjoins(m, I, a, b)
    <2>1. m = CreateAnd(a, b)
      BY <1>4, <1>6, <1>8
    <2>2. PICK i : i = I
      OBVIOUS
    <2>3. Network(nodes, i)
      BY <1>1, <2>2 DEF Built
    <2>4. Conjoins(m, i, a, b)
      BY <1>7, <2>1, <2>3, CreateAndCorrect
    <2> QED
      BY <2>2, <2>4
  <1> HIDE DEF made
  <1>10. PICK nds, n2, sigs : nds = nodes /\ n2 = nodes' /\ sigs = signals'
    OBVIOUS
  <1>11. /\ Network(nds, I) /\ Network(n2, I) /\ Extends(n2, nds)
         /\ m.signal \in Nat /\ NodeOf(m.signal) <= Len(n2)
         /\ \A w, f : MockValuation(n2, I, w, f) =>
                        (Bit(f, m.signal) <=> Bit(f, a) /\ Bit(f, b))
    BY <1>1, <1>8, <1>9, <1>10 DEF Conjoins, Built
  <1>12. /\ sigs \in Seq(Nat) /\ Len(sigs) = Len(signals) + 1
         /\ \A v \in 1..Len(signals) : sigs[v] = signals[v]
         /\ sigs[Len(signals) + 1] = m.signal
    BY <1>1, <1>2, <1>8, <1>10, <1>11, AppendProperties
  <1>13. Built'
    <2>1. ASSUME NEW v \in 1..Len(sigs)
          PROVE  NodeOf(sigs[v]) <= Len(n2)
      <3>1. CASE v <= Len(signals)
        <4>1. v \in 1..Len(signals) /\ sigs[v] = signals[v]
          <5>1. v \in 1..(Len(signals) + 1) /\ Len(signals) \in Nat
            BY <1>2, <1>12
          <5>2. v \in 1..Len(signals)
            BY ONLY <3>1, <5>1
          <5> QED
            BY <1>12, <5>2
        <4>2. signals[v] \in Nat /\ NodeOf(signals[v]) <= Len(nds)
          BY <1>1, <1>2, <1>10, <4>1 DEF Built
        <4>3. NodeOf(signals[v]) \in Nat
          BY <4>2, MockSignals
        <4>4. Len(nds) \in Nat /\ Len(n2) \in Nat /\ Len(nds) <= Len(n2)
          BY <1>11, NetworkNodes DEF Extends
        <4> QED
          BY <4>1, <4>2, <4>3, <4>4
      <3>2. CASE v > Len(signals)
        <4>1. v = Len(signals) + 1
          BY <1>2, <1>12, <3>2
        <4> QED
          BY <1>11, <1>12, <4>1
      <3> QED
        BY <1>2, <1>12, <3>1, <3>2
    <2>2. Faithful'
      <3> SUFFICES ASSUME NEW w, NEW f, NEW g,
                          MockValuation(n2, I, w, f), FileValuation(w, g),
                          NEW v \in 0..Len(signals)
                   PROVE  g[v] <=> Bit(f, sigs[v + 1])
        <4>1. \A w, g : FileValuation(w, g)' <=> FileValuation(w, g)
          BY <1>1 DEF FileValuation, MockVariables
        <4>2. Len(sigs) - 1 = Len(signals)
          BY <1>2, <1>12
        <4> QED
          BY <1>1, <1>10, <4>1, <4>2 DEF Faithful
      <3>1. PICK f1 : f1 = [n \in 0..Len(nds) |-> f[n]]
        OBVIOUS
      <3>2. /\ MockValuation(nds, I, w, f1)
            /\ \A s \in Nat : NodeOf(s) <= Len(nds) => (Bit(f1, s) <=> Bit(f, s))
        <4>1. PICK i : i = I
          OBVIOUS
        <4> QED
          BY <1>11, <3>1, <4>1, ValuationRestricted
      <3>3. CASE v < Len(signals)
        <4>1. /\ v \in 0..(Len(signals) - 1) /\ v + 1 \in 1..Len(signals)
              /\ sigs[v + 1] = signals[v + 1]
          <5>1. Len(signals) \in Nat /\ v \in Nat
            BY <1>2
          <5>2. v \in 0..(Len(signals) - 1) /\ v + 1 \in 1..Len(signals)
            BY ONLY <3>3, <5>1
          <5> QED
            BY <1>12, <5>2
        <4>2. g[v] <=> Bit(f1, signals[v + 1])
          BY <1>1, <1>10, <3>2, <4>1 DEF Built, Faithful
        <4>3. signals[v + 1] \in Nat /\ NodeOf(signals[v + 1]) <= Len(nds)
          <5>1. PICK u : u = v + 1
            OBVIOUS
          <5>2. u \in 1..Len(signals) /\ signals \in Seq(Nat)
            BY <1>2, <4>1, <5>1
          <5>3. signals[u] \in Nat
            BY ONLY <5>2, ElementOfSeq
          <5> QED
            BY <1>1, <1>10, <5>1, <5>2, <5>3 DEF Built
        <4> QED
          BY <3>2, <4>1, <4>2, <4>3
      <3>4. CASE v = Len(signals)
        <4>1. v \in (I + 1)..MockVariables /\ v - I = k
          BY <1>1, <1>2, <1>3, <3>4
        <4>2. g[v] <=> Bit(g, rhs0) /\ Bit(g, rhs1)
          BY <1>4, <4>1 DEF FileValuation
        <4>3. (Bit(f1, a) <=> Bit(g, rhs0)) /\ (Bit(f1, b) <=> Bit(g, rhs1))
          BY <1>7, <1>10, <3>2
        <4>4. (Bit(f1, a) <=> Bit(f, a)) /\ (Bit(f1, b) <=> Bit(f, b))
          BY <1>7, <1>10, <3>2
        <4>5. Bit(f, m.signal) <=> Bit(f, a) /\ Bit(f, b)
          BY <1>11
        <4>6. sigs[v + 1] = m.signal
          BY <1>12, <3>4
        <4> QED
          BY <4>2, <4>3, <4>4, <4>5, <4>6
      <3> QED
        BY <1>2, <3>3, <3>4
    <2>3. MockVariables' = MockVariables /\ file'.inputs = I
      BY <1>1 DEF MockVariables
    <2>4. Len(sigs) \in 1..(MockVariables + 1) /\ Len(sigs) > I
      BY <1>1, <1>2, <1>12
    <2> QED
      BY <1>10, <1>11, <1>12, <2>1, <2>2, <2>3, <2>4 DEF Built
  <1>14. RowsOfVectors' /\ words' \in Seq(Word) /\ rows' \in Seq([1..Len(pos') -> BOOLEAN])
    BY <1>1 DEF RowsOfVectors
  <1> QED
    BY <1>1, <1>13, <1>14 DEF MockInv

\* The destructor of the reader: the outputs are the signals of their literals.
LEMMA OutputsInv ==
    ASSUME MockInv, ReaderGone
    PROVE  MockInv'
  <1>1. /\ file \in AigFiles /\ Built /\ words = <<>> /\ rows = <<>>
        /\ UNCHANGED <<file, nodes, signals, words, rows>> /\ step' = "lines"
        /\ Len(signals) > file.inputs + Len(file.ands)
        /\ pos' = [k \in 1..Len(file.outputs) |-> SignalOf(file.outputs[k])]
    BY DEF MockInv, ReaderGone
  <1>2. Built' /\ Len(signals) = MockVariables + 1
    <2>1. MockVariables \in Nat /\ MockVariables = file.inputs + Len(file.ands)
      BY <1>1, FileFacts DEF MockVariables
    <2>2. Built'
      BY <1>1 DEF Built, Faithful, FileValuation, MockVariables
    <2> QED
      BY <1>1, <2>1, <2>2 DEF Built
  <1>3. Whole'
    BY <1>1, <1>2 DEF Whole, SignalOf, MockVariables
  <1>4. RowsOfVectors' /\ words' \in Seq(Word) /\ rows' \in Seq([1..Len(pos') -> BOOLEAN])
    BY <1>1 DEF RowsOfVectors
  <1> QED
    BY <1>1, <1>3, <1>4 DEF MockInv

\* A row holds the outputs of the file under the vector that was simulated.
LEMMA RowOfVector ==
    ASSUME file \in AigFiles, Whole, NEW w \in [Inputs -> BOOLEAN]
    PROVE  /\ Inputs = 1..file.inputs
           /\ Outputs(w) \in [1..Len(pos) -> BOOLEAN]
           /\ \A o \in 1..Len(file.outputs) :
                Outputs(w)[o] = (FileValues(w)[file.outputs[o] \div 2]
                                   # (file.outputs[o] % 2 = 1))
  <1>1. Inputs = 1..file.inputs
    <2>1. /\ file.inputs \in Nat /\ file.inputs <= Len(nodes) /\ Len(nodes) \in Nat
          /\ DOMAIN nodes = 1..Len(nodes)
          /\ \A n \in 1..Len(nodes) : (nodes[n][1] = nodes[n][2]) <=> n \in 1..file.inputs
      <3>1. Network(nodes, file.inputs)
        BY DEF Whole, Built
      <3>2. /\ file.inputs \in Nat /\ Len(nodes) \in Nat /\ DOMAIN nodes = 1..Len(nodes)
            /\ \A n \in 1..Len(nodes) : (nodes[n][1] = nodes[n][2]) <=> n \in 1..file.inputs
        BY <3>1, NetworkNodes
      <3>3. file.inputs <= Len(nodes)
        BY <3>1 DEF Network
      <3> QED
        BY <3>2, <3>3
    <2> QED
      BY <2>1 DEF Inputs, IsCi
  <1>2. PICK f, g : f = SimulateNodes(w) /\ g = FileValues(w)
    OBVIOUS
  <1>3. MockValuation(nodes, file.inputs, w, f)
    BY <1>1, <1>2, SimulatesNodes DEF Whole, Built
  <1>4. FileValuation(w, g)
    BY <1>1, <1>2, EvaluatesFile
  <1>5. /\ Len(pos) = Len(file.outputs) /\ Len(file.outputs) \in Nat
        /\ \A o \in 1..Len(file.outputs) : pos[o] = SignalOf(file.outputs[o])
    BY FileFacts DEF Whole
  <1>6. Outputs(w) = [o \in 1..Len(pos) |-> Bit(f, pos[o])]
    BY <1>2 DEF Outputs, Bit
  <1>7. ASSUME NEW o \in 1..Len(file.outputs)
        PROVE  Outputs(w)[o] = (FileValues(w)[file.outputs[o] \div 2]
                                  # (file.outputs[o] % 2 = 1))
    <2>1. PICK lit : lit = file.outputs[o]
      OBVIOUS
    <2>2. lit \in Nat /\ NodeOf(lit) < Len(signals)
      <3>1. lit \in Nat /\ NodeOf(lit) <= MockVariables /\ MockVariables \in Nat
        BY <2>1, FileFacts
      <3>2. NodeOf(lit) \in Nat /\ Len(signals) = MockVariables + 1
        BY <3>1, MockSignals DEF Whole
      <3> QED
        BY <3>1, <3>2
    <2>3. Bit(f, SignalOf(lit)) <=> Bit(g, lit)
      BY <1>3, <1>4, <2>2, SignalOfLiteral DEF Whole
    <2>4. Outputs(w)[o] = Bit(f, SignalOf(lit))
      BY <1>5, <1>6, <2>1
    <2>5. Bit(g, lit) = (g[lit \div 2] # (lit % 2 = 1))
      BY DEF Bit, NodeOf, Complemented
    <2>6. Bit(f, SignalOf(lit)) \in BOOLEAN /\ Bit(g, lit) \in BOOLEAN
      BY DEF Bit
    <2>7. Outputs(w)[o] = Bit(g, lit)
      BY <2>3, <2>4, <2>6
    <2> QED
      BY <1>2, <2>1, <2>5, <2>7
  <1>8. Outputs(w) \in [1..Len(pos) -> BOOLEAN]
    <2>1. \A o \in 1..Len(pos) : Bit(f, pos[o]) \in BOOLEAN
      BY DEF Bit
    <2> QED
      BY <1>6, <2>1
  <1> QED
    BY <1>1, <1>7, <1>8

LEMMA LineInv ==
    ASSUME MockInv, SimulateLine
    PROVE  MockInv'
  <1>1. PICK word \in Word, w \in [Inputs -> BOOLEAN] :
          /\ Inputs # {} => w[1] \in ReadBit(word)
          /\ words' = Append(words, word)
          /\ rows' = Append(rows, Outputs(w))
    BY DEF SimulateLine, Word
  <1>2. /\ file \in AigFiles /\ step = "lines"
        /\ (Empty \/ Whole)
        /\ UNCHANGED <<file, nodes, signals, pos, step>>
        /\ words \in Seq(Word) /\ rows \in Seq([1..Len(pos) -> BOOLEAN])
        /\ RowsOfVectors
    BY DEF MockInv, SimulateLine
  <1>3. Outputs(w) \in [1..Len(pos) -> BOOLEAN]
    <2>1. CASE Empty
      <3>1. Len(pos) = 0
        BY <2>1 DEF Empty
      <3>2. Outputs(w) = [k \in 1..Len(pos) |-> Outputs(w)[k]]
        BY DEF Outputs
      <3> QED
        BY <3>1, <3>2
    <2>2. CASE Whole
      BY <1>2, <2>2, RowOfVector
    <2> QED
      BY <1>2, <2>1, <2>2
  <1>4. PICK r, L : r = Outputs(w) /\ L = Len(pos)
    OBVIOUS
  <1>5. /\ words' \in Seq(Word) /\ Len(words') = Len(words) + 1 /\ Len(words) \in Nat
        /\ \A k \in 1..Len(words) : words'[k] = words[k]
        /\ words'[Len(words) + 1] = word
    BY <1>1, <1>2, AppendProperties
  <1>6. /\ rows' \in Seq([1..L -> BOOLEAN]) /\ Len(rows') = Len(rows) + 1
        /\ Len(rows) \in Nat /\ DOMAIN rows = 1..Len(rows) /\ DOMAIN rows' = 1..Len(rows')
        /\ \A k \in 1..Len(rows) : rows'[k] = rows[k]
        /\ rows'[Len(rows) + 1] = r
    <2>1. rows \in Seq([1..L -> BOOLEAN]) /\ r \in [1..L -> BOOLEAN] /\ rows' = Append(rows, r)
      BY <1>1, <1>2, <1>3, <1>4
    <2> QED
      BY ONLY <2>1, AppendProperties, LenProperties
  <1>7. Empty' \/ Whole'
    <2>1. CASE Empty
      BY <1>2, <2>1 DEF Empty
    <2>2. CASE Whole
      BY <1>2, <2>2 DEF Whole, Built, Faithful, FileValuation, MockVariables, SignalOf
    <2> QED
      BY <1>2, <2>1, <2>2
  <1>8. RowsOfVectors'
    <2>1. Len(rows) = Len(words)
      BY <1>2 DEF RowsOfVectors
    <2> SUFFICES ASSUME NEW k \in 1..(Len(rows) + 1), pos # <<>>
                 PROVE  \E v \in [1..file.inputs -> BOOLEAN] :
                          /\ file.inputs > 0 => v[1] \in ReadBit(words'[k])
                          /\ \A o \in 1..Len(file.outputs) :
                               rows'[k][o] = (FileValues(v)[file.outputs[o] \div 2]
                                                # (file.outputs[o] % 2 = 1))
      <3>1. file' = file /\ pos' = pos
        BY <1>2
      <3>2. \A v : FileValues(v)' = FileValues(v)
        BY ONLY <3>1 DEF FileValues
      <3>3. Len(rows') = Len(words') /\ DOMAIN rows' = 1..(Len(rows) + 1)
        BY <1>5, <1>6, <2>1
      <3> QED
        BY <3>1, <3>2, <3>3 DEF RowsOfVectors
    <2>2. CASE k <= Len(rows)
      <3>1. k \in 1..Len(rows) /\ k \in 1..Len(words)
        BY <1>6, <2>1, <2>2
      <3>2. words'[k] = words[k] /\ rows'[k] = rows[k]
        BY <1>5, <1>6, <3>1
      <3>3. RowsOfVectors /\ k \in DOMAIN rows
        BY <1>2, <1>6, <3>1
      <3> QED
        BY <3>2, <3>3 DEF RowsOfVectors
    <2>3. CASE k > Len(rows)
      <3>1. k = Len(rows) + 1 /\ words'[k] = word /\ rows'[k] = r
        BY <1>5, <1>6, <2>1, <2>3
      <3>2. Whole
        BY <1>2 DEF Empty
      <3>3. /\ Inputs = 1..file.inputs /\ file.inputs \in Nat
            /\ \A o \in 1..Len(file.outputs) :
                 r[o] = (FileValues(w)[file.outputs[o] \div 2] # (file.outputs[o] % 2 = 1))
        BY <1>2, <1>4, <3>2, RowOfVector, FileFacts
      <3>4. w \in [1..file.inputs -> BOOLEAN]
        BY <3>3
      <3>5. file.inputs > 0 => w[1] \in ReadBit(word)
        <4>1. file.inputs > 0 => 1 \in 1..file.inputs
          BY <3>3
        <4> QED
          BY <1>1, <3>3, <4>1
      <3> QED
        BY <3>1, <3>3, <3>4, <3>5
    <2>4. k <= Len(rows) \/ k > Len(rows)
      BY <1>6
    <2> QED
      BY <2>2, <2>3, <2>4
  <1> QED
    BY <1>2, <1>4, <1>5, <1>6, <1>7, <1>8 DEF MockInv

\* on_error, the end of the lines and stuttering.
LEMMA StillInv ==
    ASSUME MockInv, OnError \/ NoLine \/ UNCHANGED mockVars
    PROVE  MockInv'
  <1>1. /\ UNCHANGED <<file, nodes, signals, pos, words, rows>>
        /\ \/ step' = step
           \/ step = "open" /\ step' = "lines"
           \/ step = "lines" /\ step' = "finished"
    BY DEF OnError, NoLine, mockVars
  <1>2. (Empty => Empty') /\ (Built => Built') /\ (Whole => Whole')
    BY <1>1 DEF Empty, Whole, Built, Faithful, FileValuation, MockVariables, SignalOf
  <1>3. RowsOfVectors'
    <2>1. \A v : FileValues(v)' = FileValues(v)
      BY <1>1 DEF FileValues
    <2>2. RowsOfVectors /\ UNCHANGED <<file, pos, words, rows>>
      BY <1>1 DEF MockInv
    <2> QED
      BY <2>1, <2>2 DEF RowsOfVectors
  <1> QED
    BY <1>1, <1>2, <1>3 DEF MockInv

LEMMA MockInvariant == MockSpec => []MockInv
  <1>1. MockInit => MockInv
    BY DEF MockInit, MockInv, Empty, RowsOfVectors
  <1>2. MockInv /\ [MockStep]_mockVars => MockInv'
    BY HeaderInv, AndInv, OutputsInv, LineInv, StillInv DEF MockStep
  <1> QED
    BY <1>1, <1>2, PTL DEF MockSpec

\* aig.hpp:236-313: whatever file is read, the network has no constant, no trivial
\* and no second copy of an and, and its nodes come after their children.
THEOREM NetworkAlwaysReduced == MockSpec => []NetworkReduced
  <1>1. MockInv => NetworkReduced
    <2> SUFFICES ASSUME MockInv
                 PROVE  NetworkReduced
      OBVIOUS
    <2>1. CASE Empty
      BY <2>1 DEF Empty, NetworkReduced, IsInjective
    <2>2. CASE Built
      <3>1. /\ file.inputs \in Nat /\ Len(nodes) \in Nat /\ DOMAIN nodes = 1..Len(nodes)
        BY <2>2, NetworkNodes DEF Built
      <3>2. \A n \in DOMAIN nodes : n > file.inputs => n \in (file.inputs + 1)..Len(nodes)
        BY <3>1
      <3> QED
        BY <2>2, <3>2 DEF Built, Network, Ordered, NetworkReduced
    <2> QED
      BY <2>1, <2>2 DEF MockInv, Whole
  <1> QED
    BY <1>1, MockInvariant, PTL

\* Whatever create_and simplifies and shares, the signal of a variable computes the
\* function the file gives to the variable.
THEOREM SignalsAlwaysKeepFunctions == MockSpec => []SignalsKeepFunctions
  <1>1. MockInv => SignalsKeepFunctions
    <2> SUFFICES ASSUME MockInv, step # "open", NEW w \in [1..file.inputs -> BOOLEAN],
                        NEW v \in 1..(Len(signals) - 1)
                 PROVE  FileValues(w)[v] =
                          (SimulateNodes(w)[NodeOf(signals[v + 1])]
                             # (Complemented(signals[v + 1]) = 1))
      BY DEF SignalsKeepFunctions
    <2>1. Built
      <3>1. CASE Empty
        BY <3>1 DEF Empty
      <3> QED
        BY <3>1 DEF MockInv, Whole
    <2>2. PICK f, g : f = SimulateNodes(w) /\ g = FileValues(w)
      OBVIOUS
    <2>3. MockValuation(nodes, file.inputs, w, f) /\ FileValuation(w, g)
      BY <2>1, <2>2, SimulatesNodes, EvaluatesFile DEF Built, MockInv
    <2>4. Len(signals) \in Nat /\ MockVariables \in Nat /\ Len(signals) <= MockVariables + 1
      BY <2>1, FileFacts DEF Built, MockInv
    <2>5. v \in 0..(Len(signals) - 1) /\ v \in 0..MockVariables
      BY <2>4
    <2>6. g[v] <=> Bit(f, signals[v + 1])
      BY <2>1, <2>3, <2>5 DEF Built, Faithful
    <2>7. g[v] \in BOOLEAN
      BY <2>3, <2>5 DEF FileValuation
    <2> QED
      BY <2>2, <2>6, <2>7 DEF Bit
  <1> QED
    BY <1>1, MockInvariant, PTL

\* csvUtilities.cpp:10-28 and simulation.hpp: every row, however often a line is
\* simulated, is the outputs of the file under one vector that begins with the
\* word of its own line.
THEOREM RowsAlwaysOfVectors == MockSpec => []RowsOfVectors
  <1>1. MockInv => RowsOfVectors
    BY DEF MockInv
  <1> QED
    BY <1>1, MockInvariant, PTL

(***************************************************************************)
(*                                                                         *)
(*                                strremove                                *)
(*                                                                         *)
(***************************************************************************)

(***************************************************************************)
(* Without: a string without the occurrences of another one.               *)
(***************************************************************************)
\* u stands in t from i on.
Matches(t, u, i) ==
    /\ Len(u) > 0 /\ i + Len(u) - 1 <= Len(t)
    /\ \A k \in 1..Len(u) : t[i + k - 1] = u[k]

\* f tells for each place in t what Without leaves of t from there on.
Takes(t, u, f) ==
    \A i \in 1..(Len(t) + 1) :
      f[i] = IF i > Len(t) THEN <<>>
             ELSE IF Matches(t, u, i) THEN f[i + Len(u)] ELSE <<t[i]>> \o f[i + 1]

\* s is what stands in t behind the first k characters.
Behind(s, t, k) ==
    k \in Nat /\ k + Len(s) = Len(t) /\ \A i \in 1..Len(s) : s[i] = t[k + i]

\* A part of a string.
LEMMA Parts ==
    ASSUME NEW A, NEW t \in Seq(A), NEW i \in Nat, NEW n \in Nat, i + n <= Len(t)
    PROVE  /\ SubSeq(t, i + 1, i + n) \in Seq(A) /\ Len(SubSeq(t, i + 1, i + n)) = n
           /\ \A k \in 1..n : SubSeq(t, i + 1, i + n)[k] = t[i + k]
  <1>1. Len(t) \in Nat
    OBVIOUS
  <1>2. \A k \in (i + 1)..(i + n) : t[k] \in A
    BY <1>1
  <1>3. PICK a, b : a = i + 1 /\ b = i + n /\ a \in Int /\ b \in Int
    OBVIOUS
  <1>4. /\ SubSeq(t, a, b) \in Seq(A) /\ Len(SubSeq(t, a, b)) = IF a <= b THEN b - a + 1 ELSE 0
        /\ \A k \in 1..(b - a + 1) : SubSeq(t, a, b)[k] = t[a + k - 1]
    BY <1>2, <1>3, SubSeqProperties
  <1>5. (IF a <= b THEN b - a + 1 ELSE 0) = n /\ b - a + 1 = n
    BY <1>3
  <1>6. \A k \in 1..n : a + k - 1 = i + k
    BY <1>3
  <1> QED
    BY <1>3, <1>4, <1>5, <1>6

\* The comparison of the code is one of characters.
LEMMA MatchesCompares ==
    ASSUME NEW A, NEW t \in Seq(A), NEW u \in Seq(A), NEW i \in Nat \ {0}
    PROVE  Matches(t, u, i) <=> /\ Len(u) > 0 /\ i + Len(u) - 1 <= Len(t)
                                /\ SubSeq(t, i, i + Len(u) - 1) = u
  <1>1. CASE Len(u) > 0 /\ i + Len(u) - 1 <= Len(t)
    <2>1. PICK n, l : n = Len(u) /\ n \in Nat /\ l = i - 1 /\ l \in Nat
      OBVIOUS
    <2>2. l + n <= Len(t) /\ l + 1 = i /\ l + n = i + Len(u) - 1
      BY <1>1, <2>1
    <2>3. PICK s : s = SubSeq(t, l + 1, l + n)
      OBVIOUS
    <2>4. s \in Seq(A) /\ Len(s) = n /\ \A k \in 1..n : s[k] = t[l + k]
      BY <2>1, <2>2, <2>3, Parts, SMTT(30)
    <2>5. \A k \in 1..n : l + k = i + k - 1
      BY <2>1
    <2>6. s = u <=> \A k \in 1..n : s[k] = u[k]
      BY <2>1, <2>4, SeqEqual
    <2>7. s = SubSeq(t, i, i + Len(u) - 1)
      BY <2>2, <2>3
    <2> QED
      BY <1>1, <2>1, <2>4, <2>5, <2>6, <2>7 DEF Matches
  <1> QED
    BY <1>1 DEF Matches

\* What is left of a part of a string is told by what tells it of the string.
LEMMA OneTake ==
    ASSUME NEW A, NEW t \in Seq(A), NEW u \in Seq(A), NEW s \in Seq(A),
           NEW k, Behind(s, t, k), NEW f, Takes(t, u, f), NEW g, Takes(s, u, g)
    PROVE  \A i \in 1..(Len(s) + 1) : g[i] = f[k + i]
  <1>0. PICK n : n = Len(s) /\ n \in Nat
    OBVIOUS
  <1>5. Len(u) \in Nat /\ Len(t) \in Nat
    OBVIOUS
  <1>1. PICK L, N : L = Len(u) /\ L \in Nat /\ N = Len(t) /\ N \in Nat
    BY <1>5
  <1>3. /\ k \in Nat /\ n \in Nat /\ N = k + n /\ Len(s) = n
        /\ \A i \in 1..n : s[i] = t[k + i]
    BY <1>0, <1>1 DEF Behind
  <1> DEFINE T == {i \in 1..(n + 1) : g[i] # f[k + i]}
  <1>2. CASE T # {}
    <2>1. T \in SUBSET Nat /\ \A i \in T : i <= n + 1
      BY <1>0
    <2>2. n + 1 \in Nat
      BY <1>0
    <2>3. \E m \in T : \A i \in T : i <= m
      <3> HIDE DEF T
      <3> QED
        BY <1>2, <2>1, <2>2, GreatestNatural
    <2>4. PICK m \in T : \A i \in T : i <= m
      BY <2>3
    <2>5. m \in 1..(n + 1) /\ g[m] # f[k + m] /\ \A i \in 1..(n + 1) : i > m => g[i] = f[k + i]
      BY <2>4
    <2>6. g[m] = IF m > n THEN <<>>
                 ELSE IF Matches(s, u, m) THEN g[m + L] ELSE <<s[m]>> \o g[m + 1]
      BY <1>1, <1>3, <2>5 DEF Takes
    <2>7. PICK q : q = k + m /\ q \in 1..(N + 1)
      BY <1>1, <1>3, <2>5
    <2>8. f[q] = IF q > N THEN <<>>
                 ELSE IF Matches(t, u, q) THEN f[q + L] ELSE <<t[q]>> \o f[q + 1]
      BY <1>1, <1>3, <2>7 DEF Takes
    <2>9. m > n <=> q > N
      BY <1>1, <1>3, <2>5, <2>7
    <2>10. ASSUME ~(m > n)
           PROVE  Matches(s, u, m) <=> Matches(t, u, q)
      <3>1. m + L - 1 <= n <=> q + L - 1 <= N
        BY <1>1, <1>3, <2>5, <2>7
      <3>2. ASSUME m + L - 1 <= n, NEW i \in 1..L
            PROVE  s[m + i - 1] = t[q + i - 1]
        <4>1. PICK l : l = m + i - 1 /\ l \in 1..n /\ k + l = q + i - 1
          BY <1>1, <1>3, <2>5, <2>7, <3>2
        <4>2. s[l] = t[k + l]
          BY <1>3, <4>1
        <4> QED
          BY <4>1, <4>2
      <3> QED
        BY <1>1, <1>3, <3>1, <3>2 DEF Matches
    <2>11. ASSUME ~(m > n), Matches(s, u, m)
           PROVE  g[m + L] = f[q + L]
      <3>1. PICK l : l = m + L /\ l \in 1..(n + 1) /\ l > m /\ k + l = q + L
        BY <1>1, <1>3, <2>5, <2>7, <2>11 DEF Matches
      <3>2. g[l] = f[k + l]
        BY <2>5, <3>1
      <3> QED
        BY <3>1, <3>2
    <2>12. ASSUME ~(m > n)
           PROVE  g[m + 1] = f[q + 1] /\ s[m] = t[q]
      <3>1. m + 1 \in 1..(n + 1) /\ m + 1 > m /\ k + (m + 1) = q + 1 /\ m \in 1..n
        BY <1>3, <2>5, <2>7, <2>12
      <3>2. g[m + 1] = f[k + (m + 1)]
        BY <2>5, <3>1
      <3> QED
        BY <1>3, <2>7, <3>1, <3>2
    <2> QED
      BY <2>5, <2>6, <2>7, <2>8, <2>9, <2>10, <2>11, <2>12
  <1> QED
    BY <1>0, <1>2

\* Without is computed from the end of the string, and there is one way to.
LEMMA WithoutIs ==
    ASSUME NEW A, NEW t \in Seq(A), NEW u \in Seq(A)
    PROVE  \E f \in [1..(Len(t) + 1) -> Seq(A)] : Takes(t, u, f) /\ Without(t, u) = f[1]
  <1> DEFINE N == Len(t)
             L == Len(u)
             D == 1..(N + 1)
             S == Seq(A)
             At(n) == N + 1 - n
             leaves == {0}
             g == [n \in 0..N |-> <<>>]
             x == [n \in 0..N |-> IF n = 0 THEN 0 ELSE n - 1]
             y == [n \in 0..N |-> IF Matches(t, u, At(n)) THEN n - L ELSE IF n = 0 THEN 0 ELSE n - 1]
             op == [q \in (0..N) \X S \X S |->
                      IF q[1] = 0 THEN <<>>
                      ELSE IF Matches(t, u, At(q[1])) THEN q[3] ELSE <<t[At(q[1])]>> \o q[2]]
             Body(h, i) == IF i > N THEN <<>>
                           ELSE IF Matches(t, u, i) THEN h[i + L] ELSE <<t[i]>> \o h[i + 1]
             Code(h, i) == IF i > Len(t) THEN <<>>
                           ELSE IF Len(u) > 0 /\ i + Len(u) - 1 <= Len(t)
                                     /\ SubSeq(t, i, i + Len(u) - 1) = u
                                THEN h[i + Len(u)]
                                ELSE <<t[i]>> \o h[i + 1]
  <1>1. N \in Nat /\ L \in Nat /\ (\A i \in 1..N : t[i] \in A) /\ <<>> \in S
    OBVIOUS
  <1>2. \A i \in D : i \in Nat \ {0} /\ (Matches(t, u, i) => L > 0 /\ i + L - 1 <= N)
    BY <1>1 DEF Matches
  <1>3. \A n \in 0..N : At(n) \in D /\ (Matches(t, u, At(n)) => L > 0 /\ n - L >= 0)
    BY <1>1, <1>2
  <1>4. \E h \in [0..N -> S] : SolvesRecursion(h, N, leaves, g, x, y, op)
    <2>1. g \in [0..N -> S] /\ x \in [0..N -> Nat]
      BY <1>1
    <2>2. y \in [0..N -> Nat]
      <3>1. ASSUME NEW n \in 0..N
            PROVE  (IF Matches(t, u, At(n)) THEN n - L ELSE IF n = 0 THEN 0 ELSE n - 1) \in Nat
        BY <1>1, <1>3
      <3> HIDE DEF At
      <3> QED
        BY <3>1
    <2>3. op \in [(0..N) \X S \X S -> S]
      <3>1. ASSUME NEW n \in 0..N, NEW a \in S, NEW b \in S
            PROVE  (IF n = 0 THEN <<>>
                    ELSE IF Matches(t, u, At(n)) THEN b ELSE <<t[At(n)]>> \o a) \in S
        <4>1. n # 0 => At(n) \in 1..N
          BY <1>1
        <4>2. n # 0 => <<t[At(n)]>> \in S
          BY <1>1, <4>1
        <4>3. n # 0 => <<t[At(n)]>> \o a \in S
          BY <4>2, ConcatProperties
        <4> QED
          BY <1>1, <4>3
      <3> HIDE DEF At, S, N
      <3> QED
        BY <3>1
    <2>4. \A n \in 0..N : n \notin leaves => x[n] < n /\ y[n] < n
      <3> SUFFICES ASSUME NEW n \in 0..N, n \notin leaves
                   PROVE  x[n] < n /\ y[n] < n
        OBVIOUS
      <3>1. n # 0 /\ x[n] = n - 1
        OBVIOUS
      <3>2. y[n] = IF Matches(t, u, At(n)) THEN n - L ELSE n - 1
        BY <3>1
      <3> QED
        BY <1>1, <1>3, <3>1, <3>2
    <2> HIDE DEF N, S, leaves, g, x, y, op
    <2> QED
      BY <1>1, <2>1, <2>2, <2>3, <2>4, RecursionOnNat
  <1>5. PICK h \in [0..N -> S] : SolvesRecursion(h, N, leaves, g, x, y, op)
    BY <1>4
  <1>6. h[0] = <<>> /\ \A n \in 1..N : h[n] = IF Matches(t, u, At(n)) THEN h[n - L]
                                              ELSE <<t[At(n)]>> \o h[n - 1]
    <2>1. h[0] = g[0] /\ g[0] = <<>>
      <3>1. 0 \in 0..N /\ 0 \in leaves
        BY <1>1
      <3>2. h[0] = IF 0 \in leaves THEN g[0] ELSE op[<<0, h[x[0]], h[y[0]]>>]
        <4> HIDE DEF leaves, g, op, x, y
        <4> QED
          BY <1>5, <3>1 DEF SolvesRecursion
      <3> QED
        BY <3>1, <3>2
    <2>2. ASSUME NEW n \in 1..N
          PROVE  h[n] = IF Matches(t, u, At(n)) THEN h[n - L] ELSE <<t[At(n)]>> \o h[n - 1]
      <3>1. n \in 0..N /\ n # 0 /\ n \notin leaves
        BY <1>1
      <3>2. h[n] = op[<<n, h[x[n]], h[y[n]]>>]
        BY <1>5, <3>1 DEF SolvesRecursion
      <3>3. x[n] = n - 1 /\ y[n] = IF Matches(t, u, At(n)) THEN n - L ELSE n - 1
        BY <3>1
      <3>4. x[n] \in 0..N /\ y[n] \in 0..N
        BY <1>1, <1>3, <3>1, <3>3
      <3>5. h[x[n]] \in S /\ h[y[n]] \in S
        BY <1>5, <3>4
      <3>6. \A a \in S, b \in S :
              op[<<n, a, b>>] = IF Matches(t, u, At(n)) THEN b ELSE <<t[At(n)]>> \o a
        <4> HIDE DEF At, S, N
        <4> QED
          BY <3>1
      <3> HIDE DEF At, S, N, op, x, y
      <3> QED
        BY <3>2, <3>3, <3>5, <3>6
    <2> QED
      BY <2>1, <2>2
  <1> DEFINE F == [i \in D |-> h[N + 1 - i]]
  <1>7. \A i \in D : F[i] = Body(F, i)
    <2> SUFFICES ASSUME NEW i \in D
                 PROVE  F[i] = Body(F, i)
      OBVIOUS
    <2>1. PICK n : n = N + 1 - i /\ n \in 0..N /\ At(n) = i
      BY <1>1
    <2>2. F[i] = h[n]
      BY <2>1
    <2>3. CASE n = 0
      BY <1>1, <1>6, <2>1, <2>2, <2>3
    <2>4. CASE n # 0
      <3>1. n \in 1..N /\ i \in 1..N
        BY <1>1, <2>1, <2>4
      <3>2. h[n] = IF Matches(t, u, i) THEN h[n - L] ELSE <<t[i]>> \o h[n - 1]
        BY <1>6, <2>1, <3>1
      <3>3. i + 1 \in D /\ F[i + 1] = h[n - 1]
        BY <1>1, <2>1, <3>1
      <3>4. Matches(t, u, i) => i + L \in D /\ F[i + L] = h[n - L]
        BY <1>1, <1>2, <2>1, <3>1
      <3> HIDE DEF F
      <3> QED
        BY <1>1, <2>2, <3>1, <3>2, <3>3, <3>4
    <2> QED
      BY <2>3, <2>4
  <1>8. \A f, i : i \in D => Body(f, i) = Code(f, i)
    <2> SUFFICES ASSUME NEW f, NEW i \in D
                 PROVE  Body(f, i) = Code(f, i)
      OBVIOUS
    <2>1. Matches(t, u, i) <=> /\ Len(u) > 0 /\ i + Len(u) - 1 <= Len(t)
                               /\ SubSeq(t, i, i + Len(u) - 1) = u
      BY <1>2, MatchesCompares
    <2> HIDE DEF D
    <2> QED
      BY <2>1
  <1>9. F = [i \in D |-> Code(F, i)]
    <2>1. \A i \in D : F[i] = Code(F, i)
      <3> HIDE DEF D, F, Body, Code
      <3> QED
        BY <1>7, <1>8
    <2>2. F = [i \in D |-> F[i]]
      <3> HIDE DEF D
      <3> QED
        OBVIOUS
    <2> HIDE DEF D, F, Code
    <2> QED
      BY <2>1, <2>2
  <1>10. PICK v : v = CHOOSE f : f = [i \in D |-> Code(f, i)]
    OBVIOUS
  <1>11. Without(t, u) = v[1]
    BY <1>10 DEF Without
  <1>12. v = [i \in D |-> Code(v, i)]
    <2> HIDE DEF D, F, Code
    <2> QED
      BY <1>9, <1>10
  <1>13. \A i \in D : v[i] = Body(v, i)
    <2> HIDE DEF D, Body, Code
    <2> QED
      BY <1>8, <1>12
  <1>14. Takes(t, u, F) /\ Takes(t, u, v)
    <2> HIDE DEF F
    <2> QED
      BY <1>7, <1>13 DEF Takes
  <1>15. v[1] = F[1]
    <2>1. PICK k : k = 0
      OBVIOUS
    <2>2. Behind(t, t, k)
      BY <1>1, <2>1 DEF Behind
    <2>3. \A i \in 1..(Len(t) + 1) : v[i] = F[k + i]
      <3> HIDE DEF F
      <3> QED
        BY <1>14, <2>2, OneTake
    <2>4. 1 \in 1..(Len(t) + 1) /\ k + 1 = 1
      BY <1>1, <2>1
    <2> HIDE DEF F
    <2> QED
      BY <2>3, <2>4
  <1>16. F \in [1..(Len(t) + 1) -> Seq(A)]
    <2>1. \A i \in D : N + 1 - i \in 0..N
      BY <1>1
    <2> QED
      BY <1>5, <2>1
  <1> HIDE DEF F
  <1> QED
    BY <1>11, <1>14, <1>15, <1>16

\* What is left of the rest of a string.
LEMMA WithoutBehind ==
    ASSUME NEW A, NEW t \in Seq(A), NEW u \in Seq(A), NEW f, Takes(t, u, f),
           NEW s \in Seq(A), NEW k, Behind(s, t, k)
    PROVE  f[k + 1] = Without(s, u)
  <1>1. PICK g : Takes(s, u, g) /\ Without(s, u) = g[1]
    BY WithoutIs
  <1>2. \A i \in 1..(Len(s) + 1) : g[i] = f[k + i]
    BY <1>1, OneTake
  <1>3. 1 \in 1..(Len(s) + 1)
    OBVIOUS
  <1> QED
    BY <1>1, <1>2, <1>3

\* An occurrence at the front goes.
LEMMA WithoutOccurrence ==
    ASSUME NEW A, NEW t \in Seq(A), NEW u \in Seq(A), Matches(t, u, 1),
           NEW s \in Seq(A), NEW k, k = Len(u), Behind(s, t, k)
    PROVE  Without(t, u) = Without(s, u)
  <1>1. PICK f : Takes(t, u, f) /\ Without(t, u) = f[1]
    BY WithoutIs
  <1>2. 1 \in 1..(Len(t) + 1) /\ ~(1 > Len(t)) /\ 1 + k = k + 1
    <2>1. Len(t) \in Nat /\ Len(u) \in Nat /\ Len(u) > 0 /\ 1 + Len(u) - 1 <= Len(t)
      BY DEF Matches
    <2> QED
      BY <2>1
  <1>3. f[1] = IF 1 > Len(t) THEN <<>>
               ELSE IF Matches(t, u, 1) THEN f[1 + Len(u)] ELSE <<t[1]>> \o f[1 + 1]
    BY <1>1, <1>2 DEF Takes
  <1>4. f[1] = f[k + 1]
    BY <1>2, <1>3
  <1>5. f[k + 1] = Without(s, u)
    BY <1>1, WithoutBehind
  <1> QED
    BY <1>1, <1>4, <1>5

Joins(a, b, c) == a \o (b \o c) = (a \o b) \o c

\* Concatenation is associative.
LEMMA Joined ==
    ASSUME NEW A, NEW a, NEW b, NEW c, a \in Seq(A) /\ b \in Seq(A) /\ c \in Seq(A)
    PROVE  Joins(a, b, c)
  BY ConcatAssociative DEF Joins

\* r is the first n characters of t and x.
Begins(r, t, n, x) == r = SubSeq(t, 1, n) \o x
NoneBefore(t, u, n) == \A i \in 1..n : ~Matches(t, u, i)

\* What stands before the first occurrence stays.
LEMMA WithoutBefore ==
    ASSUME NEW A, NEW t \in Seq(A), NEW u \in Seq(A), NEW s \in Seq(A), NEW n, Behind(s, t, n),
           NoneBefore(t, u, n)
    PROVE  Begins(Without(t, u), t, n, Without(s, u))
  <1>1. PICK f : /\ f \in [1..(Len(t) + 1) -> Seq(A)]
                 /\ Takes(t, u, f) /\ Without(t, u) = f[1]
    BY WithoutIs
  <1>2. PICK N : N = Len(t) /\ N \in Nat
    OBVIOUS
  <1>3. n \in Nat /\ n <= N /\ \A i \in 1..N : t[i] \in A
    <2>1. n \in Nat /\ n + Len(s) = Len(t) /\ Len(s) \in Nat
      BY DEF Behind
    <2> QED
      BY <1>2, <2>1
  <1> DEFINE T == {k \in 0..n : f[1] = SubSeq(t, 1, k) \o f[k + 1]}
             H == T \cup {k \in Nat : k > n}
  <1>8. \A k : k \in T <=> k \in 0..n /\ f[1] = SubSeq(t, 1, k) \o f[k + 1]
    OBVIOUS
  <1>9. \A k : k \in H <=> k \in T \/ (k \in Nat /\ k > n)
    <2> HIDE DEF T
    <2> QED
      OBVIOUS
  <1> HIDE DEF T, H
  <1>4. 0 \in H
    <2>1. SubSeq(t, 1, 0) = <<>>
      BY SubSeqEmpty
    <2>2. 1 \in 1..(Len(t) + 1) /\ 0 + 1 = 1 /\ 0 \in 0..n
      BY <1>2, <1>3
    <2>3. f[1] \in Seq(A)
      BY <1>1, <2>2
    <2>4. <<>> \o f[1] = f[1]
      BY <2>3, ConcatEmptySeq
    <2> QED
      BY <1>8, <1>9, <2>1, <2>2, <2>4
  <1>5. ASSUME NEW k \in Nat, k \in H
        PROVE  k + 1 \in H
    <2>1. CASE k >= n
      BY <1>3, <1>9, <2>1
    <2>2. CASE k < n
      <3>1. k \in 0..n /\ k + 1 \in 0..n /\ k + 1 \in 1..n /\ k + 1 \in 1..(N + 1) /\ ~(k + 1 > N)
            /\ k + 1 \in 1..N
        BY <1>2, <1>3, <2>2
      <3>2. f[1] = SubSeq(t, 1, k) \o f[k + 1]
        <4>1. k \in T
          BY <1>3, <1>5, <1>9, <2>2
        <4> QED
          BY <1>8, <4>1
      <3>3. f[k + 1] = <<t[k + 1]>> \o f[(k + 1) + 1]
        BY <1>1, <1>2, <3>1 DEF Takes, NoneBefore
      <3>4. SubSeq(t, 1, k) \in Seq(A) /\ SubSeq(t, 1, k + 1) = SubSeq(t, 1, k) \o <<t[k + 1]>>
        <4>5. (k + 1) - 1 = k
          OBVIOUS
        <4>1. PICK m : m = k + 1 /\ m \in 1..N /\ m - 1 = k
          BY <3>1, <4>5
        <4>2. SubSeq(t, 1, m) = SubSeq(t, 1, m - 1) \o <<t[m]>>
          <5>1. m \in 1..Len(t) /\ 1 \in 1..Len(t) /\ m \in 1..m
            BY <1>2, <4>1
          <5>2. \A i \in 1..Len(t) : \A l \in i..Len(t) :
                  SubSeq(t, i, l) = SubSeq(t, i, l - 1) \o <<t[l]>>
            BY SubSeqRecursiveSecond
          <5> QED
            BY <5>1, <5>2
        <4>3. SubSeq(t, 0 + 1, 0 + k) \in Seq(A)
          BY <1>2, <3>1, Parts, SMTT(30)
        <4> QED
          BY <4>1, <4>2, <4>3
      <3>5. f[(k + 1) + 1] \in Seq(A) /\ <<t[k + 1]>> \in Seq(A)
        <4>1. (k + 1) + 1 \in 1..(Len(t) + 1)
          BY <1>2, <3>1
        <4> QED
          BY <1>1, <1>3, <3>1, <4>1
      <3>6. f[1] = SubSeq(t, 1, k + 1) \o f[(k + 1) + 1]
        <4>1. PICK a, b, c : /\ a = SubSeq(t, 1, k) /\ b = <<t[k + 1]>> /\ c = f[(k + 1) + 1]
                             /\ a \in Seq(A) /\ b \in Seq(A) /\ c \in Seq(A)
          BY <3>4, <3>5
        <4>2. a \o (b \o c) = (a \o b) \o c
          <5>1. a \in Seq(A) /\ b \in Seq(A) /\ c \in Seq(A)
            BY <4>1
          <5>2. Joins(a, b, c)
            BY <5>1, Joined
          <5> QED
            BY <5>2 DEF Joins
        <4> QED
          BY <3>2, <3>3, <3>4, <4>1, <4>2
      <3> QED
        BY <1>8, <1>9, <3>1, <3>6
    <2>3. k >= n \/ k < n
      BY <1>3
    <2> QED
      BY <2>1, <2>2, <2>3
  <1>6. n \in T
    <2>1. Nat \subseteq H
      <3> HIDE DEF H
      <3> QED
        BY <1>4, <1>5, InductionOnNat
    <2> QED
      BY <1>3, <1>9, <2>1
  <1>7. f[n + 1] = Without(s, u)
    BY <1>1, WithoutBehind
  <1> QED
    BY <1>1, <1>6, <1>7, <1>8 DEF Begins

\* Nothing is left of nothing, and everything when there is no occurrence.
LEMMA WithoutNone ==
    ASSUME NEW A, NEW t \in Seq(A), NEW u \in Seq(A),
           \A i \in 1..Len(t) : ~Matches(t, u, i)
    PROVE  Without(t, u) = t
  <1>1. Behind(<<>>, t, Len(t)) /\ <<>> \in Seq(A)
    BY DEF Behind
  <1>2. Without(<<>>, u) = <<>>
    <2>1. PICK f : Takes(<<>>, u, f) /\ Without(<<>>, u) = f[1]
      BY <1>1, WithoutIs
    <2>2. 1 \in 1..(Len(<<>>) + 1) /\ 1 > Len(<<>>)
      OBVIOUS
    <2>3. f[1] = <<>>
      BY <2>1, <2>2 DEF Takes
    <2> QED
      BY <2>1, <2>3
  <1>3. PICK n : n = Len(t)
    OBVIOUS
  <1>4. Without(t, u) = SubSeq(t, 1, n) \o Without(<<>>, u)
    <2>1. PICK s : s = <<>> /\ s \in Seq(A)
      BY <1>1
    <2>2. Behind(s, t, n) /\ NoneBefore(t, u, n)
      BY <1>1, <1>3, <2>1 DEF NoneBefore
    <2>4. s \in Seq(A)
      BY <2>1
    <2>3. Begins(Without(t, u), t, n, Without(s, u))
      BY <2>2, <2>4, WithoutBefore
    <2> QED
      BY <2>1, <2>3 DEF Begins
  <1>5. SubSeq(t, 1, n) = t
    BY <1>3, SubSeqFull
  <1>6. t \o <<>> = t
    BY ConcatEmptySeq
  <1> QED
    BY <1>2, <1>4, <1>5, <1>6

\* Parts that follow each other.
LEMMA PartsJoin ==
    ASSUME NEW A, NEW t \in Seq(A), NEW i \in Nat, NEW n \in Nat, NEW e \in Nat,
           i + n <= e, e <= Len(t)
    PROVE  SubSeq(t, 1, i) \o SubSeq(SubSeq(t, i + 1, e), 1, n) = SubSeq(t, 1, i + n)
  <1>1. PICK a : a = SubSeq(t, 0 + 1, 0 + i)
    OBVIOUS
  <1>2. a \in Seq(A) /\ Len(a) = i /\ \A k \in 1..i : a[k] = t[0 + k]
    BY <1>1, Parts, SMTT(30)
  <1>3. PICK m : m = e - i /\ m \in Nat /\ i + m = e /\ n <= m
    OBVIOUS
  <1>4. PICK b : b = SubSeq(t, i + 1, i + m)
    OBVIOUS
  <1>5. b \in Seq(A) /\ Len(b) = m /\ \A k \in 1..m : b[k] = t[i + k]
    <2>1. i + m <= Len(t)
      BY <1>3
    <2>2. /\ SubSeq(t, i + 1, i + m) \in Seq(A) /\ Len(SubSeq(t, i + 1, i + m)) = m
          /\ \A k \in 1..m : SubSeq(t, i + 1, i + m)[k] = t[i + k]
      BY <1>3, <2>1, Parts, SMTT(30)
    <2> QED
      BY <1>4, <2>2
  <1>6. PICK c : c = SubSeq(b, 0 + 1, 0 + n)
    OBVIOUS
  <1>7. c \in Seq(A) /\ Len(c) = n /\ \A k \in 1..n : c[k] = b[0 + k]
    BY <1>3, <1>5, <1>6, Parts, SMTT(30)
  <1>8. PICK d : d = SubSeq(t, 0 + 1, 0 + (i + n))
    OBVIOUS
  <1>9. d \in Seq(A) /\ Len(d) = i + n /\ \A k \in 1..(i + n) : d[k] = t[0 + k]
    BY <1>8, Parts, SMTT(30)
  <1>10. a \o c = d
    <2>1. a \o c \in Seq(A) /\ Len(a \o c) = i + n
      BY <1>2, <1>7, ConcatProperties
    <2>2. \A k \in 1..(i + n) : (a \o c)[k] = IF k <= i THEN a[k] ELSE c[k - i]
      <3>1. \A k \in 1..(Len(a) + Len(c)) :
              (a \o c)[k] = IF k <= Len(a) THEN a[k] ELSE c[k - Len(a)]
        BY <1>2, <1>7, ConcatProperties
      <3> QED
        BY <1>2, <1>7, <3>1
    <2>3. ASSUME NEW k \in 1..(i + n)
          PROVE  (a \o c)[k] = d[k]
      <3>1. d[k] = t[k]
        BY <1>9
      <3>2. k <= i => a[k] = t[k]
        BY <1>2
      <3>3. k > i => c[k - i] = t[k]
        <4>1. ASSUME k > i
              PROVE  k - i \in 1..n /\ k - i \in 1..m /\ 0 + (k - i) = k - i /\ i + (k - i) = k
          BY <1>3, <4>1
        <4> QED
          BY <1>5, <1>7, <4>1
      <3>4. k <= i \/ k > i
        OBVIOUS
      <3>5. (a \o c)[k] = IF k <= i THEN a[k] ELSE c[k - i]
        BY <2>2
      <3>6. CASE k <= i
        BY <3>1, <3>2, <3>5, <3>6
      <3>7. CASE k > i
        <4>1. ~(k <= i)
          BY <3>7
        <4> QED
          BY <3>1, <3>3, <3>5, <3>7, <4>1
      <3> QED
        BY <3>4, <3>6, <3>7
    <2>4. PICK w : w = a \o c
      OBVIOUS
    <2>5. w \in Seq(A) /\ Len(w) = Len(d) /\ \A k \in 1..Len(w) : w[k] = d[k]
      BY <1>9, <2>1, <2>3, <2>4
    <2>6. w = d
      BY <1>9, <2>5, SeqEqual
    <2> QED
      BY <2>4, <2>6
  <1>11. 0 + 1 = 1 /\ 0 + i = i /\ 0 + n = n /\ 0 + (i + n) = i + n
    OBVIOUS
  <1> QED
    BY <1>1, <1>3, <1>4, <1>6, <1>8, <1>10, <1>11

(***************************************************************************)
(* The string in memory.                                                   *)
(***************************************************************************)
StrChars == Letters \cup {Nul}
EndsAt(s, e) == e \in 0..(Len(s) - 1) /\ s[e + 1] = Nul /\ \A k \in 1..e : s[k] \in Letters

\* strlen, and the C string, from any place before the terminator.
LEMMA LengthInMemory ==
    ASSUME NEW s \in Seq(StrChars), NEW e, EndsAt(s, e), NEW i \in 0..e
    PROVE  StrLen(s, i) = e - i /\ CString(s, i) = SubSeq(s, i + 1, e)
  <1>1. e \in Nat /\ Len(s) \in Nat /\ e <= Len(s) - 1 /\ i \in Nat /\ s[e + 1] = Nul
    BY DEF EndsAt
  <1>2. \A k \in 1..e : s[k] # Nul
    BY StringAssumption DEF EndsAt
  <1> DEFINE P(l) == s[l + 1] = Nul /\ \A k \in i..(l - 1) : s[k + 1] # Nul
             D == i..(Len(s) - 1)
  <1>3. e \in D /\ P(e)
    BY <1>1, <1>2
  <1>4. ASSUME NEW l \in D, P(l)
        PROVE  l = e
    <2>1. ~(l < e)
      <3>1. ASSUME l < e
            PROVE  l + 1 \in 1..e
        BY <1>1, <3>1
      <3> QED
        BY <1>2, <1>4, <3>1
    <2>2. ~(e < l)
      <3>1. ASSUME e < l
            PROVE  e \in i..(l - 1)
        BY <1>1, <3>1
      <3> QED
        BY <1>1, <1>4, <3>1
    <2> QED
      BY <1>1, <2>1, <2>2
  <1>5. (CHOOSE l \in D : P(l)) = e
    <2> HIDE DEF D, P
    <2> QED
      BY <1>3, <1>4
  <1>6. StrLen(s, i) = e - i
    BY <1>5 DEF StrLen
  <1>7. i + (e - i) = e
    BY <1>1
  <1> QED
    BY <1>6, <1>7 DEF CString

\* The occurrences strstr finds are those in what stands from p to the terminator.
LEMMA OccursIsMatches ==
    ASSUME NEW s \in Seq(StrChars), NEW e, EndsAt(s, e), NEW u \in Seq(StrChars), Len(u) > 0,
           NEW i \in 0..e
    PROVE  /\ OccursAt(s, u, i) <=> i + Len(u) <= e /\ \A k \in 1..Len(u) : s[i + k] = u[k]
           /\ \A q \in 0..i : OccursAt(s, u, i) <=> Matches(SubSeq(s, q + 1, e), u, i - q + 1)
  <1>1. e \in Nat /\ Len(s) \in Nat /\ e <= Len(s) - 1 /\ i \in Nat
    BY DEF EndsAt
  <1>2. PICK n : n = Len(u) /\ n \in Nat
    OBVIOUS
  <1>3. StrLen(s, i) = e - i
    BY LengthInMemory
  <1>4. OccursAt(s, u, i) <=> i + Len(u) <= e /\ \A k \in 1..Len(u) : s[i + k] = u[k]
    <2>1. CASE i + n <= e
      <3>1. PICK a : a = SubSeq(s, i + 1, i + n)
        OBVIOUS
      <3>2. a \in Seq(StrChars) /\ Len(a) = n /\ \A k \in 1..n : a[k] = s[i + k]
        <4>1. i + n <= Len(s)
          BY <1>1, <1>2, <2>1
        <4>2. /\ SubSeq(s, i + 1, i + n) \in Seq(StrChars) /\ Len(SubSeq(s, i + 1, i + n)) = n
              /\ \A k \in 1..n : SubSeq(s, i + 1, i + n)[k] = s[i + k]
          BY <1>1, <1>2, <4>1, Parts, SMTT(30)
        <4> QED
          BY <3>1, <4>2
      <3>3. a = u <=> \A k \in 1..n : a[k] = u[k]
        BY <1>2, <3>2, SeqEqual
      <3>4. n <= e - i
        BY <1>1, <1>2, <2>1
      <3> QED
        BY <1>2, <1>3, <2>1, <3>1, <3>2, <3>3, <3>4 DEF OccursAt
    <2>2. CASE ~(i + n <= e)
      <3>1. ~(n <= e - i)
        BY <1>1, <1>2, <2>2
      <3> QED
        BY <1>2, <1>3, <2>2, <3>1 DEF OccursAt
    <2> QED
      BY <2>1, <2>2
  <1>5. ASSUME NEW q \in 0..i
        PROVE  OccursAt(s, u, i) <=> Matches(SubSeq(s, q + 1, e), u, i - q + 1)
    <2>1. PICK m : m = e - q /\ m \in Nat /\ q + m = e /\ q \in Nat
      BY <1>1
    <2>2. PICK w : w = SubSeq(s, q + 1, q + m)
      OBVIOUS
    <2>3. Len(w) = m /\ \A k \in 1..m : w[k] = s[q + k]
      <3>1. q + m <= Len(s)
        BY <1>1, <2>1
      <3>2. /\ Len(SubSeq(s, q + 1, q + m)) = m
            /\ \A k \in 1..m : SubSeq(s, q + 1, q + m)[k] = s[q + k]
        BY <2>1, <3>1, Parts, SMTT(30)
      <3> QED
        BY <2>2, <3>2
    <2>4. (i - q + 1) + n - 1 <= m <=> i + n <= e
      BY <1>1, <1>2, <2>1
    <2>5. ASSUME i + n <= e, NEW k \in 1..n
          PROVE  w[(i - q + 1) + k - 1] = s[i + k]
      <3>1. (i - q + 1) + k - 1 \in 1..m /\ q + ((i - q + 1) + k - 1) = i + k
        BY <1>1, <1>2, <2>1, <2>5
      <3> QED
        BY <2>3, <3>1
    <2>6. Matches(w, u, i - q + 1) <=> /\ Len(u) > 0 /\ (i - q + 1) + n - 1 <= m
                                       /\ \A k \in 1..n : w[(i - q + 1) + k - 1] = u[k]
      BY <1>2, <2>3 DEF Matches
    <2>7. Matches(w, u, i - q + 1) <=> i + n <= e /\ \A k \in 1..n : s[i + k] = u[k]
      BY <2>4, <2>5, <2>6
    <2> QED
      BY <1>2, <1>4, <2>1, <2>2, <2>7
  <1> QED
    BY <1>4, <1>5

\* The same part by where it ends.
LEMMA PartsTo ==
    ASSUME NEW A, NEW t \in Seq(A), NEW i \in Nat, NEW e \in Nat, i <= e, e <= Len(t)
    PROVE  /\ SubSeq(t, i + 1, e) \in Seq(A) /\ Len(SubSeq(t, i + 1, e)) = e - i
           /\ \A k \in 1..(e - i) : SubSeq(t, i + 1, e)[k] = t[i + k]
  <1>1. PICK m : m = e - i
    OBVIOUS
  <1>2. m \in Nat /\ i + m = e
    BY <1>1
  <1>3. i + m <= Len(t)
    BY <1>2
  <1>4. /\ SubSeq(t, i + 1, i + m) \in Seq(A) /\ Len(SubSeq(t, i + 1, i + m)) = m
        /\ \A k \in 1..m : SubSeq(t, i + 1, i + m)[k] = t[i + k]
    BY <1>2, <1>3, Parts, SMTT(30)
  <1> QED
    BY <1>1, <1>2, <1>4

\* What is left of a string is one.
LEMMA WithoutType ==
    ASSUME NEW A, NEW t \in Seq(A), NEW u \in Seq(A)
    PROVE  Without(t, u) \in Seq(A)
  <1>1. PICK f : f \in [1..(Len(t) + 1) -> Seq(A)] /\ Without(t, u) = f[1]
    BY WithoutIs
  <1>2. 1 \in 1..(Len(t) + 1)
    OBVIOUS
  <1> QED
    BY <1>1, <1>2

\* A beginning and a beginning of what follows it.
LEMMA BeginsLater ==
    ASSUME NEW A, NEW t \in Seq(A), NEW i \in Nat, NEW n \in Nat, NEW e \in Nat,
           i + n <= e, e <= Len(t), NEW r, NEW x, NEW y \in Seq(A),
           Begins(r, t, i, x), Begins(x, SubSeq(t, i + 1, e), n, y)
    PROVE  Begins(r, t, i + n, y)
  <1>1. PICK a, b, m : /\ a = SubSeq(t, 1, i) /\ b = SubSeq(SubSeq(t, i + 1, e), 1, n)
                       /\ m = e - i
    OBVIOUS
  <1>2. a \in Seq(A)
    <2>1. i + 0 <= Len(t) /\ 0 + i <= Len(t) /\ 0 + 1 = 1 /\ 0 + i = i
      OBVIOUS
    <2>2. SubSeq(t, 0 + 1, 0 + i) \in Seq(A)
      BY <2>1, Parts, SMTT(30)
    <2> QED
      BY <1>1, <2>1, <2>2
  <1>3. b \in Seq(A)
    <2>1. m \in Nat /\ i + m = e /\ n <= m /\ 0 + n <= m /\ 0 + 1 = 1 /\ 0 + n = n
      BY <1>1
    <2>2. PICK w : w = SubSeq(t, i + 1, i + m)
      OBVIOUS
    <2>3. w \in Seq(A) /\ Len(w) = m
      BY <2>1, <2>2, Parts, SMTT(30)
    <2>4. SubSeq(w, 0 + 1, 0 + n) \in Seq(A)
      BY <2>1, <2>3, Parts, SMTT(30)
    <2> QED
      BY <1>1, <2>1, <2>2, <2>4
  <1>4. a \o b = SubSeq(t, 1, i + n)
    <2>1. SubSeq(t, 1, i) \o SubSeq(SubSeq(t, i + 1, e), 1, n) = SubSeq(t, 1, i + n)
      BY PartsJoin
    <2> QED
      BY <1>1, <2>1
  <1>5. r = a \o x /\ x = b \o y
    BY <1>1 DEF Begins
  <1>6. a \o (b \o y) = (a \o b) \o y
    <2>1. a \in Seq(A) /\ b \in Seq(A) /\ y \in Seq(A)
      BY <1>2, <1>3
    <2>2. Joins(a, b, y)
      BY <2>1, Joined
    <2> QED
      BY <2>2 DEF Joins
  <1> QED
    BY <1>4, <1>5, <1>6 DEF Begins

\* What the loop keeps: with the terminator at e, what stands before p is final
\* and what Without leaves of the rest completes it.
RemoveInv ==
    /\ given \in Seq(Letters) /\ sub \in Seq(Letters) /\ str \in Seq(StrChars)
    /\ p \in Nat /\ size \in Nat
    /\ \E e \in Nat :
         /\ EndsAt(str, e) /\ p <= e
         /\ Begins(Without(given, sub), str, p, Without(SubSeq(str, p + 1, e), sub))
         /\ size # 0 => size = e + 1
         /\ found => Len(sub) > 0 /\ OccursAt(str, sub, p)
         /\ done => ~found /\ SubSeq(str, 1, e) = Without(given, sub)

\* What strremove is called with.
LEMMA RemoveBegins ==
    ASSUME RemoveInit
    PROVE  RemoveInv
  <1>1. given \in Seq(Letters)
    <2>1. PICK n \in 0..MaxLength : given \in [1..n -> Letters]
      BY DEF RemoveInit, Words
    <2>2. n \in Nat
      BY StringAssumption
    <2> QED
      BY <2>1, <2>2
  <1>2. sub \in Seq(Letters)
    BY StringAssumption DEF RemoveInit
  <1>3. PICK n : n = Len(given) /\ n \in Nat
    BY <1>1
  <1>4. /\ str \in Seq(StrChars) /\ Len(str) = n + 1 /\ str[n + 1] = Nul
        /\ \A k \in 1..n : str[k] = given[k] /\ str[k] \in Letters
    <2>1. given \in Seq(StrChars) /\ Nul \in StrChars
      BY <1>1 DEF StrChars
    <2>2. str = Append(given, Nul)
      BY DEF RemoveInit
    <2>3. \A k \in 1..n : given[k] \in Letters
      BY <1>1, <1>3
    <2> QED
      BY <1>3, <2>1, <2>2, <2>3, AppendProperties
  <1>5. EndsAt(str, n)
    BY <1>3, <1>4 DEF EndsAt
  <1>6. SubSeq(str, 0 + 1, n) = given
    <2>1. PICK a : a = SubSeq(str, 0 + 1, 0 + n)
      OBVIOUS
    <2>2. a \in Seq(StrChars) /\ Len(a) = n /\ \A k \in 1..n : a[k] = str[0 + k]
      BY <1>3, <1>4, <2>1, Parts, SMTT(30)
    <2>3. \A k \in 1..n : a[k] = given[k]
      BY <1>3, <1>4, <2>2
    <2>4. given \in Seq(StrChars)
      BY <1>1 DEF StrChars
    <2>5. a = given
      BY <1>3, <2>2, <2>3, <2>4, SeqEqual
    <2> QED
      BY <1>3, <2>1, <2>5
  <1>7. Begins(Without(given, sub), str, 0, Without(given, sub))
    <2>1. SubSeq(str, 1, 0) = <<>>
      BY SubSeqEmpty
    <2>2. Without(given, sub) \in Seq(Letters)
      BY <1>1, <1>2, WithoutType
    <2>3. <<>> \o Without(given, sub) = Without(given, sub)
      BY <2>2, ConcatEmptySeq
    <2> QED
      BY <2>1, <2>3 DEF Begins
  <1>8. p = 0 /\ size = 0 /\ ~found /\ ~done
    BY DEF RemoveInit
  <1>9. Begins(Without(given, sub), str, p, Without(SubSeq(str, p + 1, n), sub))
    BY <1>6, <1>7, <1>8
  <1>10. \E e \in Nat :
           /\ EndsAt(str, e) /\ p <= e
           /\ Begins(Without(given, sub), str, p, Without(SubSeq(str, p + 1, e), sub))
           /\ size # 0 => size = e + 1
           /\ found => Len(sub) > 0 /\ OccursAt(str, sub, p)
           /\ done => ~found /\ SubSeq(str, 1, e) = Without(given, sub)
    <2>1. n \in Nat /\ p <= n
      BY <1>3, <1>8
    <2> QED
      BY <1>5, <1>8, <1>9, <2>1
  <1>11. p \in Nat /\ size \in Nat
    BY <1>8
  <1> QED
    BY <1>1, <1>2, <1>4, <1>10, <1>11 DEF RemoveInv

\* strstr moves p to the first occurrence, over characters that stay.
LEMMA StrstrKeeps ==
    ASSUME RemoveInv, Strstr
    PROVE  RemoveInv'
  <1>1. PICK e \in Nat :
          /\ EndsAt(str, e) /\ p <= e
          /\ Begins(Without(given, sub), str, p, Without(SubSeq(str, p + 1, e), sub))
          /\ size # 0 => size = e + 1
    BY DEF RemoveInv
  <1>2. /\ given \in Seq(Letters) /\ sub \in Seq(StrChars) /\ str \in Seq(StrChars) /\ p \in Nat
        /\ sub \in Seq(Letters) /\ size \in Nat /\ Len(sub) > 0 /\ p \in 0..e
    BY <1>1 DEF RemoveInv, StrChars, Strstr
  <1>3. StrLen(str, p) = e - p /\ p + (e - p) = e
    <2>1. EndsAt(str, e) /\ p \in 0..e
      BY <1>1, <1>2
    <2>2. StrLen(str, p) = e - p
      BY <1>2, <2>1, LengthInMemory
    <2>3. p + (e - p) = e
      BY <1>1, <1>2
    <2> QED
      BY <2>2, <2>3
  <1>4. PICK i \in p..e : /\ OccursAt(str, sub, i) /\ p' = i
                          /\ \A k \in p..(i - 1) : ~OccursAt(str, sub, k)
    BY <1>3 DEF Strstr
  <1>5. PICK n : n = i - p /\ n \in Nat /\ p + n = i /\ i \in Nat /\ i <= e
    BY <1>2, <1>4
  <1>6. e <= Len(str) /\ Len(str) \in Nat
    BY <1>1, <1>2 DEF EndsAt
  <1>7. PICK w : w = SubSeq(str, p + 1, e)
    OBVIOUS
  <1>8. PICK s : s = SubSeq(str, i + 1, e)
    OBVIOUS
  <1>9. w \in Seq(StrChars) /\ Len(w) = e - p /\ \A k \in 1..(e - p) : w[k] = str[p + k]
    <2>1. p <= e
      BY <1>1
    <2> QED
      BY <1>2, <1>6, <1>7, <2>1, PartsTo
  <1>10. s \in Seq(StrChars) /\ Len(s) = e - i /\ \A k \in 1..(e - i) : s[k] = str[i + k]
    BY <1>2, <1>5, <1>6, <1>8, PartsTo
  <1>11. Behind(s, w, n)
    <2>1. n + Len(s) = Len(w)
      BY <1>2, <1>5, <1>9, <1>10
    <2>2. ASSUME NEW k \in 1..Len(s)
          PROVE  s[k] = w[n + k]
      <3>1. k \in 1..(e - i) /\ n + k \in 1..(e - p) /\ p + (n + k) = i + k
        BY <1>2, <1>5, <1>10
      <3> QED
        BY <1>9, <1>10, <3>1
    <2> QED
      BY <1>5, <2>1, <2>2 DEF Behind
  <1>12. NoneBefore(w, sub, n)
    <2> SUFFICES ASSUME NEW k \in 1..n
                 PROVE  ~Matches(w, sub, k)
      BY DEF NoneBefore
    <2>1. PICK q : q = p + k - 1 /\ q \in p..(i - 1) /\ q \in 0..e /\ q - p + 1 = k /\ p \in 0..q
      BY <1>2, <1>5
    <2>2. ~OccursAt(str, sub, q)
      BY <1>4, <2>1
    <2>3. OccursAt(str, sub, q) <=> Matches(SubSeq(str, p + 1, e), sub, q - p + 1)
      BY <1>1, <1>2, <2>1, OccursIsMatches
    <2> QED
      BY <1>7, <2>1, <2>2, <2>3
  <1>13. Begins(Without(w, sub), w, n, Without(s, sub))
    BY <1>2, <1>9, <1>10, <1>11, <1>12, WithoutBefore
  <1>14. Begins(Without(given, sub), str, i, Without(s, sub))
    <2>1. Without(s, sub) \in Seq(StrChars)
      BY <1>2, <1>10, WithoutType
    <2>2. p + n <= e
      BY <1>5
    <2>3. Begins(Without(given, sub), str, p + n, Without(s, sub))
      BY <1>1, <1>2, <1>5, <1>6, <1>7, <1>13, <2>1, <2>2, BeginsLater
    <2> QED
      BY <1>5, <2>3
  <1>15. UNCHANGED <<str, sub, size, given, done>> /\ ~done
    BY DEF Strstr
  <1>16. \E d \in Nat :
           /\ EndsAt(str, d) /\ i <= d
           /\ Begins(Without(given, sub), str, i, Without(SubSeq(str, i + 1, d), sub))
           /\ size # 0 => size = d + 1
           /\ Len(sub) > 0 /\ OccursAt(str, sub, i)
    BY <1>1, <1>2, <1>4, <1>5, <1>8, <1>14
  <1>17. RemoveInv' <=>
           /\ given \in Seq(Letters) /\ sub \in Seq(Letters) /\ str \in Seq(StrChars)
           /\ i \in Nat /\ size \in Nat
           /\ \E d \in Nat :
                /\ EndsAt(str, d) /\ i <= d
                /\ Begins(Without(given, sub), str, i, Without(SubSeq(str, i + 1, d), sub))
                /\ size # 0 => size = d + 1
                /\ found' => Len(sub) > 0 /\ OccursAt(str, sub, i)
                /\ done => ~found' /\ SubSeq(str, 1, d) = Without(given, sub)
    BY <1>4, <1>15 DEF RemoveInv
  <1> QED
    BY <1>2, <1>5, <1>15, <1>16, <1>17

\* What is left of the string when an occurrence is found, and its new size.
LEMMA NewSizeIs ==
    ASSUME NEW e \in Nat, EndsAt(str, e), str \in Seq(StrChars), p \in Nat,
           size # 0 => size = e + 1, NEW n \in Nat, n = Len(sub), p + n <= e
    PROVE  NewSize = e + 1 - n
  <1>1. CASE size = 0
    <2>1. p + n \in 0..e
      OBVIOUS
    <2>2. StrLen(str, p + n) = e - (p + n)
      BY <2>1, LengthInMemory
    <2>3. p + (e - (p + n)) + 1 = e + 1 - n
      OBVIOUS
    <2> QED
      BY <1>1, <2>2, <2>3 DEF NewSize
  <1>2. CASE size # 0
    BY <1>2 DEF NewSize
  <1> QED
    BY <1>1, <1>2

\* memmove closes the gap: what stood behind the occurrence stands at p.
LEMMA OccurrenceKeeps ==
    ASSUME RemoveInv, RemoveOccurrence
    PROVE  RemoveInv'
  <1>1. PICK e \in Nat :
          /\ EndsAt(str, e) /\ p <= e
          /\ Begins(Without(given, sub), str, p, Without(SubSeq(str, p + 1, e), sub))
          /\ size # 0 => size = e + 1
          /\ Len(sub) > 0 /\ OccursAt(str, sub, p)
          /\ done => ~found
    BY DEF RemoveInv, RemoveOccurrence
  <1>2. /\ given \in Seq(Letters) /\ sub \in Seq(StrChars) /\ str \in Seq(StrChars) /\ p \in Nat
        /\ sub \in Seq(Letters) /\ Len(sub) > 0 /\ p \in 0..e /\ ~done
    BY <1>1 DEF RemoveInv, StrChars, RemoveOccurrence
  <1>3. PICK n : n = Len(sub) /\ n \in Nat /\ n > 0
    BY <1>2
  <1>4. p + n <= e /\ Matches(SubSeq(str, p + 1, e), sub, 1)
    <2>1. OccursAt(str, sub, p) <=> p + Len(sub) <= e /\ \A k \in 1..Len(sub) : str[p + k] = sub[k]
      BY <1>1, <1>2, OccursIsMatches
    <2>2. p \in 0..p /\ p - p + 1 = 1
      BY <1>2
    <2>3. \A q \in 0..p : OccursAt(str, sub, p) <=> Matches(SubSeq(str, q + 1, e), sub, p - q + 1)
      BY <1>1, <1>2, OccursIsMatches
    <2> QED
      BY <1>1, <1>3, <2>1, <2>2, <2>3
  <1>5. PICK N, d : N = Len(str) /\ d = e - n
    OBVIOUS
  <1>6. /\ N \in Nat /\ e <= N - 1 /\ str[e + 1] = Nul /\ \A k \in 1..e : str[k] \in Letters
        /\ d \in Nat /\ p <= d /\ d + n = e /\ e <= Len(str)
    BY <1>1, <1>2, <1>3, <1>4, <1>5 DEF EndsAt
  <1>7. NewSize = d + 1
    <2>1. NewSize = e + 1 - n
      BY <1>1, <1>2, <1>3, <1>4, NewSizeIs
    <2> QED
      BY <1>3, <1>5, <2>1
  <1>8. UNCHANGED <<sub, p, given, done>> /\ ~found' /\ size' = d + 1
    BY <1>7 DEF RemoveOccurrence
  <1>9. PICK t : t = str'
    OBVIOUS
  <1>10. t = [l \in 1..N |-> IF l - 1 \in p..d THEN str[l + n] ELSE str[l]]
    <2>1. t = Memmove(str, p, p + n, (d + 1) - p)
      <3>1. str' = Memmove(str, p, p + Len(sub), NewSize - p)
        BY DEF RemoveOccurrence
      <3>2. Len(sub) = n /\ t = str'
        BY <1>3, <1>9
      <3> QED
        BY ONLY <1>7, <3>1, <3>2, Zenon
    <2>2. p + ((d + 1) - p) - 1 = d
      BY <1>2, <1>6
    <2>3. \A l \in 1..N : l + (p + n) - p = l + n
      BY <1>2, <1>3, <1>6
    <2> QED
      BY <1>5, <2>1, <2>2, <2>3 DEF Memmove
  <1>11. t \in Seq(StrChars) /\ Len(t) = N
    <2>1. ASSUME NEW l \in 1..N
          PROVE  (IF l - 1 \in p..d THEN str[l + n] ELSE str[l]) \in StrChars
      <3>1. l - 1 \in p..d => l + n \in 1..N
        BY <1>2, <1>3, <1>6
      <3> QED
        BY <1>2, <1>5, <3>1
    <2> QED
      BY <1>6, <1>10, <2>1
  <1>12. EndsAt(t, d)
    <2>1. d \in 0..(Len(t) - 1)
      BY <1>3, <1>6, <1>11
    <2>2. t[d + 1] = Nul
      <3>1. d + 1 \in 1..N /\ (d + 1) - 1 \in p..d /\ (d + 1) + n = e + 1
        BY <1>2, <1>3, <1>6
      <3> QED
        BY <1>6, <1>10, <3>1
    <2>3. ASSUME NEW k \in 1..d
          PROVE  t[k] \in Letters
      <3>1. k \in 1..N /\ k \in 1..e /\ k + n \in 1..e
        BY <1>3, <1>6
      <3> QED
        BY <1>6, <1>10, <3>1
    <2> QED
      BY <2>1, <2>2, <2>3 DEF EndsAt
  <1>13. SubSeq(t, 1, p) = SubSeq(str, 1, p)
    <2>1. PICK a, b : a = SubSeq(t, 0 + 1, p) /\ b = SubSeq(str, 0 + 1, p)
      OBVIOUS
    <2>2. 0 \in Nat /\ 0 <= p /\ p <= Len(t) /\ p <= Len(str) /\ p - 0 = p /\ p <= N
      BY <1>2, <1>5, <1>6, <1>11
    <2>3. a \in Seq(StrChars) /\ Len(a) = p /\ \A k \in 1..p : a[k] = t[0 + k]
      BY <1>2, <1>11, <2>1, <2>2, PartsTo
    <2>4. b \in Seq(StrChars) /\ Len(b) = p /\ \A k \in 1..p : b[k] = str[0 + k]
      BY <1>2, <2>1, <2>2, PartsTo
    <2>5. ASSUME NEW k \in 1..p
          PROVE  a[k] = b[k]
      <3>1. k \in 1..N /\ ~(k - 1 \in p..d) /\ 0 + k = k
        BY <1>2, <1>6, <2>2
      <3>2. t[k] = str[k]
        BY <1>10, <3>1
      <3> QED
        BY <2>3, <2>4, <3>1, <3>2
    <2>6. a = b
      BY <2>3, <2>4, <2>5, SeqEqual
    <2>7. 0 + 1 = 1
      OBVIOUS
    <2> QED
      BY <2>1, <2>6, <2>7
  <1>14. PICK w, s : w = SubSeq(str, p + 1, e) /\ s = SubSeq(t, p + 1, d)
    OBVIOUS
  <1>15. w \in Seq(StrChars) /\ Len(w) = e - p /\ \A k \in 1..(e - p) : w[k] = str[p + k]
    <2>1. w = SubSeq(str, p + 1, e) /\ p <= e /\ e <= Len(str)
      BY <1>1, <1>6, <1>14
    <2> QED
      BY <1>2, <2>1, PartsTo
  <1>16. s \in Seq(StrChars) /\ Len(s) = d - p /\ \A k \in 1..(d - p) : s[k] = t[p + k]
    <2>1. s = SubSeq(t, p + 1, d) /\ p <= d /\ d <= Len(t) /\ d \in Nat
      BY <1>3, <1>6, <1>11, <1>14
    <2> QED
      BY <1>2, <1>11, <2>1, PartsTo
  <1>17. Behind(s, w, n)
    <2>1. n + Len(s) = Len(w)
      BY <1>2, <1>3, <1>6, <1>15, <1>16
    <2>2. ASSUME NEW k \in 1..Len(s)
          PROVE  s[k] = w[n + k]
      <3>1. /\ k \in 1..(d - p) /\ n + k \in 1..(e - p) /\ p + (n + k) = (p + k) + n
            /\ p + k \in 1..N /\ (p + k) - 1 \in p..d
        BY <1>2, <1>3, <1>6, <1>16
      <3>2. s[k] = t[p + k] /\ w[n + k] = str[p + (n + k)]
        BY <1>15, <1>16, <3>1
      <3>3. t[p + k] = str[(p + k) + n]
        BY <1>10, <3>1
      <3> QED
        BY <3>1, <3>2, <3>3
    <2> QED
      BY <1>3, <2>1, <2>2 DEF Behind
  <1>18. Without(w, sub) = Without(s, sub)
    <2>1. Matches(w, sub, 1)
      BY <1>4, <1>14
    <2> QED
      BY <1>2, <1>3, <1>15, <1>16, <1>17, <2>1, WithoutOccurrence
  <1>19. Begins(Without(given, sub), t, p, Without(SubSeq(t, p + 1, d), sub))
    BY <1>1, <1>13, <1>14, <1>18 DEF Begins
  <1>20. RemoveInv' <=>
           /\ given \in Seq(Letters) /\ sub \in Seq(Letters) /\ t \in Seq(StrChars)
           /\ p \in Nat /\ d + 1 \in Nat
           /\ \E k \in Nat :
                /\ EndsAt(t, k) /\ p <= k
                /\ Begins(Without(given, sub), t, p, Without(SubSeq(t, p + 1, k), sub))
                /\ d + 1 # 0 => d + 1 = k + 1
                /\ found' => Len(sub) > 0 /\ OccursAt(t, sub, p)
                /\ done => ~found' /\ SubSeq(t, 1, k) = Without(given, sub)
    BY <1>8, <1>9 DEF RemoveInv
  <1> QED
    BY <1>2, <1>6, <1>8, <1>11, <1>12, <1>19, <1>20

\* Nothing is left to remove when strstr finds nothing.
LEMMA ReturnKeeps ==
    ASSUME RemoveInv, Return
    PROVE  RemoveInv'
  <1>1. PICK e \in Nat :
          /\ EndsAt(str, e) /\ p <= e
          /\ Begins(Without(given, sub), str, p, Without(SubSeq(str, p + 1, e), sub))
          /\ size # 0 => size = e + 1
    BY DEF RemoveInv
  <1>2. /\ given \in Seq(Letters) /\ sub \in Seq(StrChars) /\ str \in Seq(StrChars) /\ p \in Nat
        /\ sub \in Seq(Letters) /\ size \in Nat /\ p \in 0..e /\ ~found
    BY <1>1 DEF RemoveInv, StrChars, Return
  <1>3. e <= Len(str) /\ Len(str) \in Nat
    BY <1>1, <1>2 DEF EndsAt
  <1>4. PICK w : w = SubSeq(str, p + 1, e)
    OBVIOUS
  <1>5. w \in Seq(StrChars) /\ Len(w) = e - p
    BY <1>1, <1>2, <1>3, <1>4, PartsTo
  <1>6. ASSUME NEW i \in 1..Len(w)
        PROVE  ~Matches(w, sub, i)
    <2>1. CASE Len(sub) > 0
      <3>1. StrLen(str, p) = e - p
        BY <1>1, <1>2, LengthInMemory
      <3>2. PICK q : q = p + i - 1 /\ q \in p..(p + (e - p)) /\ q \in 0..e /\ q - p + 1 = i /\ p \in 0..q
        BY <1>2, <1>5
      <3>3. ~OccursAt(str, sub, q)
        BY <2>1, <3>1, <3>2 DEF Return
      <3>4. OccursAt(str, sub, q) <=> Matches(SubSeq(str, p + 1, e), sub, q - p + 1)
        BY <1>1, <1>2, <2>1, <3>2, OccursIsMatches
      <3> QED
        BY <1>4, <3>2, <3>3, <3>4
    <2> QED
      BY <2>1 DEF Matches
  <1>7. Without(w, sub) = w
    BY <1>2, <1>5, <1>6, WithoutNone
  <1>8. SubSeq(str, 1, e) = Without(given, sub)
    <2>1. Without(given, sub) = SubSeq(str, 1, p) \o w
      BY <1>1, <1>4, <1>7 DEF Begins
    <2>2. PICK m : m = e - p /\ m \in Nat /\ p + m = e /\ m = Len(w)
      BY <1>1, <1>2, <1>5
    <2>3. SubSeq(str, 1, p) \o SubSeq(SubSeq(str, p + 1, e), 1, m) = SubSeq(str, 1, p + m)
      <3>1. p + m <= e
        BY <2>2
      <3> QED
        BY <1>2, <1>3, <2>2, <3>1, PartsJoin
    <2>4. SubSeq(w, 1, m) = w
      BY <1>5, <2>2, SubSeqFull
    <2> QED
      BY <1>4, <2>1, <2>2, <2>3, <2>4
  <1>9. UNCHANGED <<str, sub, p, size, found, given>>
    BY DEF Return
  <1>10. RemoveInv' <=>
           /\ given \in Seq(Letters) /\ sub \in Seq(Letters) /\ str \in Seq(StrChars)
           /\ p \in Nat /\ size \in Nat
           /\ \E k \in Nat :
                /\ EndsAt(str, k) /\ p <= k
                /\ Begins(Without(given, sub), str, p, Without(SubSeq(str, p + 1, k), sub))
                /\ size # 0 => size = k + 1
                /\ found => Len(sub) > 0 /\ OccursAt(str, sub, p)
                /\ done' => ~found /\ SubSeq(str, 1, k) = Without(given, sub)
    BY <1>9 DEF RemoveInv
  <1> QED
    BY <1>1, <1>2, <1>8, <1>10

\* The invariant of the loop.
LEMMA RemoveInvariant == RemoveSpec => []RemoveInv
  <1>1. ASSUME RemoveInv, [RemoveNext]_removeVars
        PROVE  RemoveInv'
    <2>1. CASE Strstr
      BY <1>1, <2>1, StrstrKeeps
    <2>2. CASE RemoveOccurrence
      BY <1>1, <2>2, OccurrenceKeeps
    <2>3. CASE Return
      BY <1>1, <2>3, ReturnKeeps
    <2>4. CASE UNCHANGED removeVars
      BY <1>1, <2>4 DEF removeVars, RemoveInv
    <2> QED
      BY <1>1, <2>1, <2>2, <2>3, <2>4 DEF RemoveNext, RemoveStep
  <1> QED
    BY <1>1, RemoveBegins, PTL DEF RemoveSpec

\* Lines 85-88: throughout the loop the string is terminated within its array,
\* size is its length once it is set, memmove stays within the array, and what
\* stands before p and what is to be left of the rest make up what is to be
\* left of the string that was given, for strings of every length.
THEOREM LoopKeeps == RemoveSpec => []LoopInvariant
  <1>1. ASSUME RemoveInv
        PROVE  LoopInvariant
    <2>1. PICK e \in Nat :
            /\ EndsAt(str, e) /\ p <= e
            /\ Begins(Without(given, sub), str, p, Without(SubSeq(str, p + 1, e), sub))
            /\ size # 0 => size = e + 1
            /\ found => Len(sub) > 0 /\ OccursAt(str, sub, p)
      BY <1>1 DEF RemoveInv
    <2>2. /\ sub \in Seq(StrChars) /\ str \in Seq(StrChars) /\ p \in Nat /\ p \in 0..e
          /\ Len(str) \in Nat /\ e \in p..(Len(str) - 1) /\ str[e + 1] = Nul
      BY <1>1, <2>1 DEF RemoveInv, StrChars, EndsAt
    <2>3. StrLen(str, p) = e - p /\ CString(str, p) = SubSeq(str, p + 1, e)
      BY <2>1, <2>2, LengthInMemory
    <2>4. SubSeq(str, 1, p) \o Without(CString(str, p), sub) = Without(given, sub)
      BY <2>1, <2>3 DEF Begins
    <2>5. size # 0 => size = p + StrLen(str, p) + 1
      BY <2>1, <2>2, <2>3
    <2>6. ASSUME found
          PROVE  p + Len(sub) + (NewSize - p) <= Len(str) /\ NewSize >= p + 1
      <3>1. PICK n : n = Len(sub) /\ n \in Nat
        BY <2>2
      <3>2. p + n <= e
        BY <2>1, <2>2, <2>6, <3>1, OccursIsMatches
      <3>3. NewSize = e + 1 - n
        BY <2>1, <2>2, <3>1, <3>2, NewSizeIs
      <3> QED
        BY <2>2, <3>1, <3>2, <3>3
    <2> QED
      BY <2>2, <2>4, <2>5, <2>6 DEF LoopInvariant
  <1> QED
    BY <1>1, RemoveInvariant, PTL

\* Line 90: what strremove returns is the string without the occurrences of sub
\* in it, whatever the two are: what ReturnsWithout says but for the loop's end.
THEOREM ReturnedIsWithout == RemoveSpec => [](done => CString(str, 0) = Without(given, sub))
  <1>1. ASSUME RemoveInv, done
        PROVE  CString(str, 0) = Without(given, sub)
    <2>1. PICK e \in Nat : EndsAt(str, e) /\ SubSeq(str, 1, e) = Without(given, sub)
      BY <1>1 DEF RemoveInv
    <2>2. str \in Seq(StrChars) /\ 0 \in 0..e /\ 0 + 1 = 1
      BY <1>1, <2>1 DEF RemoveInv
    <2>3. CString(str, 0) = SubSeq(str, 0 + 1, e)
      BY <2>1, <2>2, LengthInMemory
    <2> QED
      BY <2>1, <2>2, <2>3
  <1>2. RemoveInv => (done => CString(str, 0) = Without(given, sub))
    BY <1>1
  <1> QED
    BY <1>2, RemoveInvariant, PTL
=============================================================================
