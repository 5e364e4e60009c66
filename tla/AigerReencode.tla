--------------------------- MODULE AigerReencode ---------------------------
(***************************************************************************)
(* aiger_reencode: inputs, latches and ands get consecutive variables in   *)
(* this order, and each and a larger one than those it reads.  The ands    *)
(* are numbered as a depth first search from the latches and the symbols   *)
(* leaves them; those it does not reach are dropped.                       *)
(***************************************************************************)
EXTENDS Aiger

VARIABLES
    code,   \* the new literal of each variable, 0 as long as it has none
    new,    \* the next new literal
    visit   \* how many of the literals the search starts from are done

Sources(a) == a.inputs \o LatchLits(a)
NoCode == [v \in {0} |-> 0]

IsReencoded(a) ==
    LET sources == Len(a.inputs) + Len(a.latches) IN
    /\ \A k \in 1..sources : Sources(a)[k] = 2 * k
    /\ \A k \in 1..Len(a.ands) :
         /\ a.ands[k].lhs = 2 * (sources + k)
         /\ a.ands[k].lhs >= a.ands[k].rhs0 /\ a.ands[k].rhs0 >= a.ands[k].rhs1

StartReencode ==
    /\ at = "reencode"
    /\ IF IsReencoded(aig)
       THEN at' = "reencoded" /\ UNCHANGED <<code, new>>
       ELSE /\ at' = "recode"
            /\ code' = [v \in 0..aig.maxvar |-> 2 * SelectInSeq(Sources(aig), LAMBDA lit : lit = 2 * v)]
            /\ new' = 2 * Len(Sources(aig)) + 2
    /\ visit' = 0
    /\ UNCHANGED <<aig, types, stack>>

\* Latch by latch its next literal and its reset literal, then the symbols.
Starts ==
    FlattenSeq([k \in 1..Len(aig.latches) |-> <<aig.latches[k].next, aig.latches[k].reset>>])
      \o SymbolLits(aig)

\* Mutant: the sign of a literal gets lost.
RecodeUnsigned(lit) == IF lit < 2 THEN lit ELSE code[Var(lit)]

Recode(lit) == IF lit < 2 THEN lit
               ELSE IF code[Var(lit)] = 0 THEN 0 ELSE code[Var(lit)] + (lit % 2)

\* A reset literal may be of a variable that nothing defines; such a literal
\* stays as it is, and nothing else reads its code.
RecodeReset(lit) == IF lit > 1 /\ types[Var(lit)].is = "none" THEN lit ELSE Recode(lit)

\* aiger_reencode_lit: only an and without a code starts a search.
Searched(lit) == lit > 1 /\ code[Var(lit)] = 0 /\ types[Var(lit)].is = "and"

\* Beyond the last variable, where only a reset literal can be, there is no code
\* to look up; what the program does then is not defined.
NextStart ==
    /\ at = "recode" /\ stack = <<>> /\ visit < Len(Starts)
    /\ visit' = visit + 1
    /\ LET lit == Starts[visit + 1] IN
       IF Var(lit) > aig.maxvar
       THEN at' = "undefined" /\ stack' = <<>>
       ELSE at' = at /\ stack' = IF Searched(lit) THEN <<Var(lit)>> ELSE <<>>
    /\ UNCHANGED <<aig, types, code, new>>

Recoding == at = "recode" /\ stack # <<>>

PopCoded ==
    /\ Recoding /\ Last(stack) # 0
    /\ code[Last(stack)] # 0 \/ types[Last(stack)].onstack
    /\ stack' = Front(stack)
    /\ UNCHANGED <<aig, types, at, code, new, visit>>

\* The larger child is pushed first, so the smaller one is numbered first.
Expand ==
    /\ Recoding
    /\ LET old == Last(stack)
           pair == {Var(Gate(old).rhs0), Var(Gate(old).rhs1)}
           push(v) == IF \/ v = 0 \/ types[v].is \in {"input", "latch"}
                         \/ types[v].onstack \/ v = old
                      THEN <<>> ELSE <<v>> IN
         /\ old # 0 /\ code[old] = 0 /\ ~types[old].onstack
         /\ types' = [types EXCEPT ![old].onstack = TRUE]
         /\ stack' = stack \o <<0>> \o push(Max(pair)) \o push(Min(pair))
    /\ UNCHANGED <<aig, at, code, new, visit>>

\* aiger_new_code
Number ==
    /\ Recoding /\ Last(stack) = 0
    /\ LET old == stack[Len(stack) - 1] IN
         /\ stack' = SubSeq(stack, 1, Len(stack) - 2)
         /\ types' = [types EXCEPT ![old].onstack = FALSE]
         /\ code' = [code EXCEPT ![old] = new]
    /\ new' = new + 2
    /\ UNCHANGED <<aig, at, visit>>

RecodedAnd(g) ==
    LET pair == {Recode(g.rhs0), Recode(g.rhs1)} IN
    [lhs |-> Recode(g.lhs), rhs0 |-> Max(pair), rhs1 |-> Min(pair)]
\* Mutant: the ands are not sorted.
RecodedAndsUnsorted(a) ==
    LET kept == SelectSeq(a.ands, LAMBDA g : code[Var(g.lhs)] # 0) IN
    [k \in 1..Len(kept) |-> RecodedAnd(kept[k])]
\* The ands with a number, in the order of their numbers, which differ.
RecodedAnds(a) ==
    LET kept == {RecodedAnd(g) : g \in {h \in ToSet(a.ands) : code[Var(h.lhs)] # 0}} IN
    [k \in 1..Cardinality(kept) |->
       CHOOSE g \in kept : Cardinality({h \in kept : h.lhs < g.lhs}) = k - 1]

RecodedGraph(a) ==
    [ maxvar  |-> Var(new - 1),
      inputs  |-> [k \in 1..Len(a.inputs) |-> Recode(a.inputs[k])],
      latches |-> [k \in 1..Len(a.latches) |->
                     [lit |-> Recode(a.latches[k].lit), next |-> Recode(a.latches[k].next),
                      reset |-> RecodeReset(a.latches[k].reset)]],
      symbols |-> [kind \in ToSet(Kinds) |->
                     [k \in 1..Len(a.symbols[kind]) |->
                        [m \in 1..Len(a.symbols[kind][k]) |-> Recode(a.symbols[kind][k][m])]]],
      ands    |-> RecodedAnds(a),
      names   |-> a.names ]

\* Mutant: the places from before the sorting stay.
TypesOfUnsorted(a, old) ==
    [v \in DOMAIN old |->
       IF v = 0 \/ v > a.maxvar THEN old[v]
       ELSE LET typed(is) == [old[v] EXCEPT !.is = is] IN
            IF 2 * v \in ToSet(a.inputs) THEN typed("input")
            ELSE IF 2 * v \in ToSet(LatchLits(a)) THEN typed("latch") ELSE typed("and")]

\* What the types say of a graph; a mark stays with the number of a variable,
\* and so does everything beyond the new maximum.
TypesOf(a, old) ==
    [v \in DOMAIN old |->
       IF v = 0 \/ v > a.maxvar THEN old[v]
       ELSE LET place(lits) == SelectInSeq(lits, LAMBDA lit : lit = 2 * v)
                lhs == [k \in 1..Len(a.ands) |-> a.ands[k].lhs]
                typed(is, idx) == [old[v] EXCEPT !.is = is, !.idx = idx] IN
            IF place(a.inputs) # 0 THEN typed("input", place(a.inputs))
            ELSE IF place(LatchLits(a)) # 0 THEN typed("latch", place(LatchLits(a)))
            ELSE IF place(lhs) # 0 THEN typed("and", place(lhs))
            ELSE typed("none", 0)]

Rebuild ==
    /\ at = "recode" /\ stack = <<>> /\ visit = Len(Starts)
    /\ aig' = RecodedGraph(aig)
    /\ types' = TypesOf(aig', types)
    /\ at' = "reencoded"
    /\ UNCHANGED <<stack, code, new, visit>>

ReencodeStep == \/ StartReencode \/ NextStart \/ PopCoded \/ Expand
                \/ Number \/ Rebuild
=============================================================================
