------------------------------- MODULE AigSim -------------------------------
(***************************************************************************)
(* aigsim.c as networkSimulatorAiger calls it: a model and a stimulus file *)
(* and no option.  Vectors are read character by character, the model is   *)
(* evaluated in three-valued logic on a two-bit encoding (0, 1, and 2 or 3 *)
(* for x), and a line is printed per vector.                               *)
(*                                                                         *)
(* The model is as aiger_reencode leaves it: variables 1, 2, ... are the   *)
(* inputs, then the latches, then the ands, each after those it reads.     *)
(***************************************************************************)
EXTENDS Integers, Sequences

CONSTANTS
    Models,    \* [inputs, latches, resets, ands, outputs, bad, constraints,
               \* fairness, justice]: the number of inputs, and the literals of
               \* the others (for the latches, their next ones)
    MaxChars(_) \* bound on the number of characters of the stimulus of a model

\* A model is what aiger_reencode makes of a graph that aiger_check accepts:
\* literals are of its variables, and ands read what stands before them.
IsModel(m) ==
    LET sources == m.inputs + Len(m.latches)
        Lit == 0..(2 * (sources + Len(m.ands)) + 1) IN
    /\ m.inputs \in Nat
    /\ m.latches \in Seq(Lit) /\ m.resets \in [1..Len(m.latches) -> Nat]
    /\ m.ands \in Seq([rhs0 : Lit, rhs1 : Lit])
    /\ \A k \in 1..Len(m.ands) :
         m.ands[k].rhs0 < 2 * (sources + k) /\ m.ands[k].rhs1 < 2 * (sources + k)
    /\ m.outputs \in Seq(Lit) /\ m.bad \in Seq(Lit) /\ m.constraints \in Seq(Lit)
    /\ m.fairness \in Seq(Lit) /\ m.justice \in Seq(Seq(Lit))
ASSUME ModelsAssumption ==
    \A m \in Models : IsModel(m) /\ MaxChars(m) \in Nat

Chars == {"0", "1", "x", ".", "c", "newline", "other", "EOF"}

VARIABLES
    model,
    current,  \* value of each variable
    j,        \* position in the vector being read
    ch,       \* last character read
    comment,  \* is nxtc skipping a comment?
    bad,      \* bad states that were reached
    states,   \* the values of the latches in each state passed
    last,     \* for each literal of fairness and justice the last time it was 1
    lines,    \* the lines printed
    told,     \* the bad states named in the trailer
    toldJustice, \* the justice properties named there
    status,   \* "running", "done" (a '.' was read), "violated" (a constraint
              \* was, which ends the trace too) or "died" (exit 1)
    chars     \* characters read

loopVars == <<states, last>>
toldVars == <<told, toldJustice>>
vars == <<model, current, j, ch, comment, bad, loopVars, lines, toldVars, status, chars>>

Var(lit) == lit \div 2
LatchVar(k) == model.inputs + k
AndVar(k) == model.inputs + Len(model.latches) + k
MaxVar == AndVar(Len(model.ands))

(***************************************************************************)
(* Values.                                                                 *)
(***************************************************************************)
\* A code is the set of its bits that are set, so that '&' is the intersection
\* and '|' the union: 0, 1, 2 and 3.
Codes == SUBSET {0, 1}
Zero == {}
One  == {0}
X    == {1}

\* '^ 1' and '<< 1'
Inverted(code) == IF 0 \in code THEN code \ {0} ELSE code \cup {0}
Shifted(code) == {bit + 1 : bit \in code}

Deref(values, lit) == IF lit % 2 = 1 THEN Inverted(values[Var(lit)]) ELSE values[Var(lit)]

\* Mutant: the code is shifted the other way, so that x & 1 is 1.
AndOfSwapped(l, r) ==
    (l \cap r) \cup (l \cap {bit - 1 : bit \in r}) \cup (r \cap {bit - 1 : bit \in l})

AndOf(l, r) == (l \cap r) \cup (l \cap Shifted(r)) \cup (r \cap Shifted(l))

\* What put prints for a code, and for a literal.
CharOf(code) == IF 1 \in code THEN "x" ELSE IF code = Zero THEN "0" ELSE "1"
Put(values, lit) == CharOf(Deref(values, lit))

\* The variables after the ands were evaluated in their order.
AfterAnds(values) ==
    LET after[k \in 0..Len(model.ands)] ==
          IF k = 0 THEN values
          ELSE [after[k - 1] EXCEPT ![AndVar(k)] =
                  AndOf(Deref(after[k - 1], model.ands[k].rhs0),
                        Deref(after[k - 1], model.ands[k].rhs1))]
    IN  after[Len(model.ands)]

\* Mutant: each latch sees the new values of those before it.
AfterLatchesInPlace(values) ==
    LET after[k \in 0..Len(model.latches)] ==
          IF k = 0 THEN values
          ELSE [after[k - 1] EXCEPT ![LatchVar(k)] =
                  Deref(after[k - 1], model.latches[k])]
    IN  after[Len(model.latches)]

\* The variables after all latches took their next values together.
AfterLatches(values) ==
    [v \in DOMAIN values |->
       IF v > model.inputs /\ v < AndVar(1)
       THEN Deref(values, model.latches[v - model.inputs]) ELSE values[v]]

\* The line of a vector: state, inputs, outputs, next state.  The outputs are
\* printed when the latches have their next values already.
Line(before, after) ==
    [ state  |-> [k \in 1..Len(model.latches) |-> Put(before, 2 * LatchVar(k))],
      input  |-> [k \in 1..model.inputs |-> Put(after, 2 * k)],
      output |-> [k \in 1..Len(model.outputs) |-> Put(after, model.outputs[k])],
      next   |-> [k \in 1..Len(model.latches) |-> Put(after, 2 * LatchVar(k))] ]

(***************************************************************************)
(* Reading.                                                                *)
(***************************************************************************)
\* getc: any character as long as the file may go on; the file ends for good.
Getc == /\ status = "running" /\ chars < MaxChars(model)
        /\ chars' = chars + 1
        /\ ch' \in Chars

\* nxtc: from a 'c', wherever it stands, to the end of the line, the newline
\* included, nothing is read.
Skip ==
    /\ Getc
    /\ \/ ~comment /\ ch' = "c" /\ comment' = TRUE
       \/ comment /\ ch' # "EOF" /\ comment' = (ch' # "newline")
    /\ UNCHANGED <<model, current, j, bad, loopVars, lines, toldVars, status>>

\* Mutant: the digit is not tested first, so x is stored as its distance to 0,
\* which is 72.
ReadInputUntested ==
    /\ Getc /\ ~comment
    /\ j <= model.inputs /\ ch' \in {"0", "1", "x"}
    /\ current' = [current EXCEPT ![j] =
                     IF ch' = "x" THEN {3, 6} ELSE IF ch' = "1" THEN One ELSE Zero]
    /\ j' = j + 1
    /\ UNCHANGED <<model, comment, bad, loopVars, lines, toldVars, status>>

\* A digit for input j.
ReadInput ==
    /\ Getc /\ ~comment
    /\ j <= model.inputs /\ ch' \in {"0", "1", "x"}
    /\ current' = [current EXCEPT ![j] =
                     IF ch' = "x" THEN X ELSE IF ch' = "1" THEN One ELSE Zero]
    /\ j' = j + 1
    /\ UNCHANGED <<model, comment, bad, loopVars, lines, toldVars, status>>

NewLine == Getc /\ ~comment /\ j > model.inputs /\ ch' = "newline"

Violated(values) == \E k \in 1..Len(model.constraints) : Deref(values, model.constraints[k]) = Zero

\* "Handling loops": what the trailer needs to know of a vector.
FindLoop == model.fairness # <<>> \/ model.justice # <<>>
LatchValues(values) == [k \in 1..Len(model.latches) |-> values[LatchVar(k)]]
RememberFor(values) ==
    IF ~FindLoop THEN UNCHANGED loopVars
    ELSE /\ states' = Append(states, LatchValues(values))
         /\ last' = [lit \in DOMAIN last |->
                       IF Deref(values, lit) = One THEN Len(states) + 1 ELSE last[lit]]

\* Mutant: an unknown value counts as a bad state.
SimulateAnyX ==
    /\ NewLine
    /\ LET before == AfterAnds(current)
           after  == AfterLatches(before) IN
         /\ ~Violated(before)
         /\ RememberFor(before)
         /\ bad' = bad \cup {k \in 1..Len(model.bad) : Deref(before, model.bad[k]) # Zero}
         /\ current' = after
         /\ lines' = Append(lines, Line(before, after))
    /\ j' = 1
    /\ UNCHANGED <<model, comment, toldVars, status>>

\* The newline after the last input: the vector is simulated.
Simulate ==
    /\ NewLine
    /\ LET before == AfterAnds(current)
           after  == AfterLatches(before) IN
         /\ ~Violated(before)
         /\ RememberFor(before)
         /\ bad' = bad \cup {k \in 1..Len(model.bad) : Deref(before, model.bad[k]) = One}
         /\ current' = after
         /\ lines' = Append(lines, Line(before, after))
    /\ j' = 1
    /\ UNCHANGED <<model, comment, toldVars, status>>

\* A vector that makes a constraint 0 ends the trace, and no loop is found.
ViolateConstraint ==
    /\ NewLine
    /\ current' = AfterAnds(current)
    /\ Violated(current')
    /\ told' = bad
    /\ status' = "violated"
    /\ UNCHANGED <<model, j, comment, bad, loopVars, lines, toldJustice>>

\* Mutant: the last point that closes a loop is taken.
LoopPointLast ==
    LET closes == {i \in 1..Len(states) :
                     /\ states[i] = LatchValues(current)
                     /\ \A k \in 1..Len(model.fairness) : last[model.fairness[k]] >= i} IN
    IF closes = {} THEN 0 ELSE CHOOSE i \in closes : \A h \in closes : i >= h

\* The first state that is the one reached now, and since when every fairness
\* constraint has held; 0 if there is none.
LoopPoint ==
    LET closes == {i \in 1..Len(states) :
                     /\ states[i] = LatchValues(current)
                     /\ \A k \in 1..Len(model.fairness) : last[model.fairness[k]] >= i} IN
    IF closes = {} THEN 0 ELSE CHOOSE i \in closes : \A h \in closes : i <= h

\* '.' at the start of a line: "Trace is a witness for: { ... }".
EndOfTrace ==
    /\ Getc /\ ~comment
    /\ j = 1 /\ ch' = "."
    /\ told' = bad
    /\ toldJustice' = {i \in 1..Len(model.justice) :
                         /\ LoopPoint # 0
                         /\ \A k \in 1..Len(model.justice[i]) :
                              last[model.justice[i][k]] >= LoopPoint}
    /\ status' = "done"
    /\ UNCHANGED <<model, current, j, comment, bad, loopVars, lines>>

\* Anything else, the end of the file too, is fatal.
DieReading ==
    /\ Getc
    /\ \/ comment /\ ch' = "EOF"
       \/ /\ ~comment /\ ch' # "c" /\ ~(j = 1 /\ ch' = ".")
          /\ IF j <= model.inputs THEN ch' \notin {"0", "1", "x"}
                                  ELSE ch' # "newline"
    /\ status' = "died"
    /\ UNCHANGED <<model, current, j, comment, bad, loopVars, lines, toldVars>>

(***************************************************************************)
(* The specification.                                                      *)
(***************************************************************************)
\* A latch is reset to 0, to 1, or to itself: then it is not initialised.
ResetValue(k) == IF model.resets[k] = 0 THEN Zero
                 ELSE IF model.resets[k] = 1 THEN One ELSE X

LoopLits == {model.fairness[k] : k \in 1..Len(model.fairness)}
              \cup UNION { {model.justice[i][k] : k \in 1..Len(model.justice[i])} :
                           i \in 1..Len(model.justice) }

Init ==
    /\ model \in Models
    /\ current = [v \in 0..MaxVar |-> IF v > model.inputs /\ v < AndVar(1)
                                     THEN ResetValue(v - model.inputs) ELSE Zero]
    /\ j = 1 /\ ch = "newline" /\ comment = FALSE
    /\ bad = {} /\ states = <<>> /\ last = [lit \in LoopLits |-> 0]
    /\ lines = <<>> /\ told = {} /\ toldJustice = {}
    /\ status = "running" /\ chars = 0

Ended == (status # "running" \/ chars = MaxChars(model)) /\ UNCHANGED vars
Next == \/ Skip \/ ReadInput \/ Simulate \/ ViolateConstraint
        \/ EndOfTrace \/ DieReading \/ Ended

Spec == Init /\ [][Next]_vars

(***************************************************************************)
(* Properties.                                                             *)
(***************************************************************************)
IsLatch(lit) == Var(lit) > model.inputs /\ Var(lit) < AndVar(1)

\* FORMAT:594-597, the operations on 0, 1 and x.
Not3(a) == IF a = "x" THEN "x" ELSE IF a = "0" THEN "1" ELSE "0"
And3(a, b) == IF a = "0" \/ b = "0" THEN "0"
              ELSE IF a = "x" \/ b = "x" THEN "x" ELSE "1"

\* The value of a literal in a state, under an input vector.
Value(state, input, lit) ==
    LET signed(v, l) == IF l % 2 = 1 THEN Not3(v) ELSE v
        value[v \in 0..MaxVar] ==
          IF v = 0 THEN "0"
          ELSE IF v <= model.inputs THEN input[v]
          ELSE IF v < AndVar(1) THEN state[v - model.inputs]
          ELSE LET and == model.ands[v - AndVar(1) + 1] IN
               And3(signed(value[Var(and.rhs0)], and.rhs0),
                    signed(value[Var(and.rhs1)], and.rhs1))
    IN  signed(value[Var(lit)], lit)

\* Every variable has its type; x has two encodings, and no other value
\* comes up.
AigSimTypeOK ==
    /\ current \in [0..MaxVar -> Codes]
    /\ j \in 1..(model.inputs + 1)
    /\ ch \in Chars /\ comment \in BOOLEAN
    /\ bad \subseteq 1..Len(model.bad) /\ told \subseteq bad
    /\ toldJustice \subseteq 1..Len(model.justice)
    /\ \A i \in 1..Len(states) : states[i] \in [1..Len(model.latches) -> Codes]
    /\ last \in [LoopLits -> 0..Len(states)]
    /\ status \in {"running", "done", "violated", "died"}
    /\ chars \in 0..MaxChars(model)

ResetChar(k) == CASE model.resets[k] = 0 -> "0" [] model.resets[k] = 1 -> "1" [] OTHER -> "x"
ValueAt(i, lit) == Value(lines[i].state, lines[i].input, lit)

\* FORMAT:613-628 and 637-638, "produces an initialized and consistent trace":
\* the first state is the reset one, every line has the outputs and the next state of its
\* state and inputs and violates no constraint, and the next line goes on from
\* there.  Not so an output that is a latch, which is printed as it will be
\* next (lines 619-636).
ConsistentTrace ==
    \A i \in 1..Len(lines) :
      LET l == lines[i] IN
      /\ l.state = IF i = 1 THEN [k \in 1..Len(model.latches) |-> ResetChar(k)]
                            ELSE lines[i - 1].next
      /\ \A k \in 1..Len(model.outputs) :
           ~IsLatch(model.outputs[k]) =>
             l.output[k] = Value(l.state, l.input, model.outputs[k])
      /\ \A k \in 1..Len(model.latches) :
           l.next[k] = Value(l.state, l.input, model.latches[k])
      /\ \A k \in 1..Len(model.constraints) : ValueAt(i, model.constraints[k]) # "0"

\* The trailer names exactly the bad states that some transition reached; one
\* that violates a constraint is none.
TrailerTellsOutputs ==
    status \in {"done", "violated"} =>
      told = {k \in 1..Len(model.bad) :
                \E i \in 1..Len(lines) : ValueAt(i, model.bad[k]) = "1"}

\* In a trace without x, the trailer names exactly the justice properties the
\* trace is a witness of: it can be closed to a loop in which every fairness
\* constraint and every literal of the property is 1 at some time.
NoX == \A i \in 1..Len(lines) : \A k \in 1..Len(model.latches) : lines[i].state[k] # "x" /\ lines[i].next[k] # "x"
JusticeWitnessed ==
    status = "done" /\ NoX =>
      toldJustice = {p \in 1..Len(model.justice) :
                       \E start \in 1..Len(lines) :
                         LET inLoop(lit) == \E i \in start..Len(lines) : ValueAt(i, lit) = "1" IN
                         /\ lines[start].state = lines[Len(lines)].next
                         /\ \A k \in 1..Len(model.fairness) : inLoop(model.fairness[k])
                         /\ \A k \in 1..Len(model.justice[p]) : inLoop(model.justice[p][k])}

\* An output printed as 0 or 1 under a vector with x keeps its value under
\* every instance of the vector (FORMAT:582-585, solutions with x are meant so):
\* a bit of the joined file does not hang on inputs the stimulus left open.
InstancesAgree ==
    \A i \in 1..Len(lines) :
      LET l == lines[i]
          instances == {v \in [1..model.inputs -> {"0", "1"}] :
                          \A k \in 1..model.inputs : l.input[k] \in {"x", v[k]}} IN
      \A k \in 1..Len(model.outputs), v \in instances :
        IsLatch(model.outputs[k])
          \/ l.output[k] \in {"x", Value(l.state, v, model.outputs[k])}
=============================================================================
