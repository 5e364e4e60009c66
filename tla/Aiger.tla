------------------------------- MODULE Aiger -------------------------------
(***************************************************************************)
(* The and-inverter graph of src/include/aiger/aiger.c: struct aiger, what *)
(* the library records of every variable, and the functions that add to    *)
(* them.  A literal is twice a variable plus its sign; variable 0 is the   *)
(* constant false.  Arrays are sequences, so a place counts from 1 here.   *)
(*                                                                         *)
(* The assertions of the library say what its callers owe it; they are     *)
(* guards of the callers, and no outcome here.  Memory is not modelled.    *)
(***************************************************************************)
EXTENDS Integers, Sequences, FiniteSets, SequencesExt

VARIABLES
    aig,    \* maxvar, inputs, latches, symbols, ands, names
    types,  \* of the variables up to the last one, or beyond: what each is,
            \* its place in that array, marks
    stack,  \* the stack of the search that is running
    at      \* the call that is running

Var(lit) == lit \div 2
IsNeg(lit) == lit % 2 = 1

\* The literals a graph names besides those of its inputs, latches and ands.
\* Each entry is a sequence of literals, one literal long but for justice.
Kinds == <<"output", "bad", "constraint", "justice", "fairness">>

EmptyGraph ==
    [ maxvar |-> 0, inputs |-> <<>>, latches |-> <<>>, ands |-> <<>>,
      symbols |-> [k \in ToSet(Kinds) |-> <<>>], names |-> {} ]
Untyped == [is |-> "none", idx |-> 0, mark |-> FALSE, onstack |-> FALSE]
NoTypes == [v \in {0} |-> Untyped]

(***************************************************************************)
(* Adding.                                                                 *)
(***************************************************************************)
\* aiger_import_literal: a variable beyond the last one becomes the last one.
Import(a, lits) ==
    [a EXCEPT !.maxvar = Max({@} \cup {Var(lit) : lit \in lits})]

\* Mutant: types is not enlarged.
EnlargedNot(lits) == types

\* What it makes of types.
Enlarged(lits) ==
    [v \in DOMAIN types \cup 0..Import(aig, lits).maxvar |->
       IF v \in DOMAIN types THEN types[v] ELSE Untyped]

\* Of the literals that an entry names the first is defined by it.
Define(lit, lits, what, place) ==
    types' = [Enlarged({lit} \cup lits) EXCEPT ![Var(lit)].is = what, ![Var(lit)].idx = place]

AddInput(lit) ==
    /\ aig' = [Import(aig, {lit}) EXCEPT !.inputs = Append(@, lit)]
    /\ Define(lit, {}, "input", Len(aig.inputs) + 1)

\* aiger_add_latch and, where the file gives a reset value, aiger_add_reset.
AddLatch(lit, next, reset) ==
    /\ aig' = [Import(aig, {lit, next}) EXCEPT
                 !.latches = Append(@, [lit |-> lit, next |-> next, reset |-> reset])]
    /\ Define(lit, {next}, "latch", Len(aig.latches) + 1)

AddAnd(lhs, rhs0, rhs1) ==
    /\ aig' = [Import(aig, {lhs, rhs0, rhs1}) EXCEPT
                 !.ands = Append(@, [lhs |-> lhs, rhs0 |-> rhs0, rhs1 |-> rhs1])]
    /\ Define(lhs, {rhs0, rhs1}, "and", Len(aig.ands) + 1)

\* aiger_add_output, _bad, _constraint, _justice and _fairness.
AddSymbol(kind, lits) ==
    /\ aig' = [Import(aig, ToSet(lits)) EXCEPT !.symbols[kind] = Append(@, lits)]
    /\ types' = Enlarged(ToSet(lits))

(***************************************************************************)
(* Reading off a graph.                                                    *)
(***************************************************************************)
LatchLits(a) == [k \in 1..Len(a.latches) |-> a.latches[k].lit]
MaxInputOrLatch(a) == Max({0} \cup ToSet(a.inputs) \cup ToSet(LatchLits(a)))

SymbolLits(a) == FlattenSeq([k \in 1..Len(Kinds) |-> FlattenSeq(a.symbols[Kinds[k]])])

GateVars == {v \in 1..aig.maxvar : types[v].is = "and"}
Gate(v) == aig.ands[types[v].idx]
Fanin(v) == {Var(Gate(v).rhs0), Var(Gate(v).rhs1)} \ {0}

LiteralDefined(lit) == Var(lit) = 0 \/ types[Var(lit)].is # "none"

(***************************************************************************)
(* Reference definitions.                                                  *)
(***************************************************************************)
\* In a cycle, and in no other set, every gate reads a gate of the set.
Acyclic ==
    \A S \in SUBSET GateVars : S # {} => \E v \in S : Fanin(v) \cap S = {}

\* The value of every variable of a graph without a cycle, when w gives the
\* values of the inputs and, after them, of the latches.  What nothing defines
\* is FALSE, as the constant.
Values(a, w) ==
    LET sources == a.inputs \o LatchLits(a)
        value[v \in 0..a.maxvar] ==
          IF v = 0 THEN FALSE
          ELSE IF 2 * v \in ToSet(sources)
               THEN w[SelectInSeq(sources, LAMBDA lit : lit = 2 * v)]
          ELSE LET place == SelectInSeq(a.ands, LAMBDA gate : gate.lhs = 2 * v)
                   holds(lit) == value[Var(lit)] # IsNeg(lit) IN
               place # 0 /\ holds(a.ands[place].rhs0) /\ holds(a.ands[place].rhs1)
    IN  value

\* Two graphs have the same inputs, latches, resets, outputs and functions.
\* A reset literal that is its latch means "uninitialized"; one that is neither
\* this nor a constant means nothing.
SameFunctions(a, b, kinds) ==
    /\ Len(a.inputs) = Len(b.inputs) /\ Len(a.latches) = Len(b.latches)
    /\ \A k \in 1..Len(a.latches) :
         IF a.latches[k].reset <= 1 THEN b.latches[k].reset = a.latches[k].reset
         ELSE /\ b.latches[k].reset > 1
              /\ a.latches[k].reset = a.latches[k].lit => b.latches[k].reset = b.latches[k].lit
    /\ \A kind \in kinds : Len(a.symbols[kind]) = Len(b.symbols[kind])
    /\ \A w \in [1..(Len(a.inputs) + Len(a.latches)) -> BOOLEAN] :
         LET va == Values(a, w)  vb == Values(b, w)
             same(la, lb) == (va[Var(la)] # IsNeg(la)) <=> (vb[Var(lb)] # IsNeg(lb)) IN
         /\ \A k \in 1..Len(a.latches) : same(a.latches[k].next, b.latches[k].next)
         /\ \A kind \in kinds : \A k \in 1..Len(a.symbols[kind]) :
              /\ Len(a.symbols[kind][k]) = Len(b.symbols[kind][k])
              /\ \A m \in 1..Len(a.symbols[kind][k]) :
                   same(a.symbols[kind][k][m], b.symbols[kind][k][m])
=============================================================================
