----------------------------- MODULE AigerCheck -----------------------------
(***************************************************************************)
(* aiger_check: every literal that is used is defined, and no and depends  *)
(* on itself.  The cycles are searched depth first with a stack of its own *)
(* instead of recursion: a gate that is entered is pushed a second marker, *)
(* 0, above it, and is left when that marker comes up again.               *)
(***************************************************************************)
EXTENDS Aiger

VARIABLE root  \* the variable the search has started from last

\* aiger_check_next_defined to aiger_check_right_hand_sides_defined.
AllDefined ==
    /\ \A k \in 1..Len(aig.latches) : LiteralDefined(aig.latches[k].next)
    /\ \A lit \in ToSet(SymbolLits(aig)) : LiteralDefined(lit)
    /\ \A k \in 1..Len(aig.ands) :
         LiteralDefined(aig.ands[k].rhs0) /\ LiteralDefined(aig.ands[k].rhs1)

CheckDefined ==
    /\ at = "check"
    /\ at' = IF AllDefined THEN "cycles" ELSE "failed"
    /\ root' = 0
    /\ UNCHANGED <<aig, types, stack>>

\* The loop over all variables; it starts a search at an and without a mark.
NextRoot ==
    /\ at = "cycles" /\ stack = <<>> /\ root < aig.maxvar
    /\ root' = root + 1
    /\ stack' = IF types[root + 1].is = "and" /\ ~types[root + 1].mark
                THEN <<root + 1>> ELSE <<>>
    /\ UNCHANGED <<aig, types, at>>

Searching == at = "cycles" /\ stack # <<>>
Top == Last(stack)

\* A gate comes up that has been entered and not left.
CycleFound ==
    /\ Searching /\ Top # 0 /\ types[Top].mark /\ types[Top].onstack
    /\ at' = "failed"
    /\ stack' = <<>>
    /\ UNCHANGED <<aig, types, root>>

\* Mutant: the search goes on without popping.
PopVisitedNot ==
    /\ Searching /\ Top # 0
    /\ ~(types[Top].mark /\ types[Top].onstack)
    /\ types[Top].is # "and" \/ types[Top].mark
    /\ UNCHANGED <<aig, types, stack, at, root>>

PopVisited ==
    /\ Searching /\ Top # 0
    /\ ~(types[Top].mark /\ types[Top].onstack)
    /\ types[Top].is # "and" \/ types[Top].mark
    /\ stack' = Front(stack)
    /\ UNCHANGED <<aig, types, at, root>>

NonZero(v) == IF v = 0 THEN <<>> ELSE <<v>>

Enter ==
    /\ Searching /\ Top # 0 /\ types[Top].is = "and" /\ ~types[Top].mark
    /\ types' = [types EXCEPT ![Top].mark = TRUE, ![Top].onstack = TRUE]
    /\ stack' = stack \o <<0>> \o NonZero(Var(Gate(Top).rhs0)) \o NonZero(Var(Gate(Top).rhs1))
    /\ UNCHANGED <<aig, at, root>>

\* Mutant: the gate still counts as entered when it has been left.
LeaveMarked ==
    /\ Searching /\ Top = 0
    /\ stack' = SubSeq(stack, 1, Len(stack) - 2)
    /\ UNCHANGED <<aig, types, at, root>>

Leave ==
    /\ Searching /\ Top = 0
    /\ stack' = SubSeq(stack, 1, Len(stack) - 2)
    /\ types' = [types EXCEPT ![stack[Len(stack) - 1]].onstack = FALSE]
    /\ UNCHANGED <<aig, at, root>>

CheckPassed ==
    /\ at = "cycles" /\ stack = <<>> /\ root = aig.maxvar
    /\ at' = "checked"
    /\ UNCHANGED <<aig, types, stack, root>>

CheckStep == \/ CheckDefined \/ NextRoot \/ CycleFound \/ PopVisited
             \/ Enter \/ Leave \/ CheckPassed
=============================================================================
