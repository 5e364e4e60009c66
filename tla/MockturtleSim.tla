--------------------------- MODULE MockturtleSim ---------------------------
(***************************************************************************)
(* networkSimulatorMockturtle.cpp and what it uses: lorina reads a binary  *)
(* AIG, mockturtle builds a network of it and simulates one assignment per *)
(* line of a CSV file, and csvUtilities reads the lines and writes a row   *)
(* of output values for each.                                              *)
(*                                                                         *)
(* A signal of the network is twice its node plus its complement bit, as   *)
(* an AIGER literal is of a variable.  A file is [inputs, ands, outputs]   *)
(* in the order of the binary format, without latches: the network class   *)
(* has none.                                                               *)
(***************************************************************************)
EXTENDS Integers, Sequences, Functions

CONSTANTS
    AigFiles,  \* the files that may be simulated
    MaxLines   \* bound on the lines of the CSV file

\* The files are binary AIGs as ABC writes them: the children of an and stand
\* before it, and the outputs name variables of the file.  (lorina takes the
\* differences of literals from the file without a test.)
ASSUME FilesAssumption ==
    \A f \in AigFiles :
      /\ f.inputs \in Nat
      /\ f.ands \in Seq([rhs0 : Nat, rhs1 : Nat])
      /\ f.outputs \in Seq(Nat)
      /\ \A k \in 1..Len(f.ands) :
           /\ f.ands[k].rhs0 < 2 * (f.inputs + k)
           /\ f.ands[k].rhs1 <= f.ands[k].rhs0
      /\ \A k \in 1..Len(f.outputs) :
           f.outputs[k] < 2 * (f.inputs + Len(f.ands) + 1)

VARIABLES
    file,
    nodes,    \* the children of each node but the constant, which is node 0
    signals,  \* for each variable of the file its signal; 0 comes first
    pos,      \* the signals of the primary outputs
    words,    \* the first word of each line simulated
    rows,     \* the rows written
    step      \* "open", "ands", "lines" or "finished"

mockVars == <<file, nodes, signals, pos, words, rows, step>>

NodeOf(signal) == signal \div 2
Complemented(signal) == signal % 2
Complement(signal) == signal + 1 - 2 * Complemented(signal)

\* The signal of a literal of the file.
SignalOf(lit) == IF lit % 2 = 1 THEN Complement(signals[lit \div 2 + 1]) ELSE signals[lit \div 2 + 1]

(***************************************************************************)
(* Reading: the callbacks of aiger_reader.                                 *)
(***************************************************************************)
\* create_pi: both children of an input are its place, which is_ci tests.
Pi(k) == <<k - 1, k - 1>>
IsCi(n) == nodes[n][1] = nodes[n][2]

OnHeader ==
    /\ step = "open"
    /\ nodes' = [k \in 1..file.inputs |-> Pi(k)]
    /\ signals' = [k \in 1..(file.inputs + 1) |-> 2 * (k - 1)]
    /\ step' = "ands"
    /\ UNCHANGED <<file, pos, words, rows>>

\* The file cannot be opened or its first line is no header.  The code that
\* read_aiger returns is not looked at, and the network stays empty.
OnError ==
    /\ step = "open"
    /\ step' = "lines"
    /\ UNCHANGED <<file, nodes, signals, pos, words, rows>>

\* Mutant: a node with the same children is not found again.
CreateAndUnhashed(a, b) ==
    LET low  == IF NodeOf(a) > NodeOf(b) THEN b ELSE a
        high == IF NodeOf(a) > NodeOf(b) THEN a ELSE b IN
    IF NodeOf(a) = NodeOf(b) THEN [nodes |-> nodes, signal |-> IF a = b THEN low ELSE 0]
    ELSE IF NodeOf(low) = 0 THEN [nodes |-> nodes, signal |-> IF low = 1 THEN high ELSE 0]
    ELSE [nodes |-> Append(nodes, <<low, high>>), signal |-> 2 * (Len(nodes) + 1)]

\* create_and: the nodes it leaves and the signal it returns.
CreateAnd(a, b) ==
    LET low  == IF NodeOf(a) > NodeOf(b) THEN b ELSE a
        high == IF NodeOf(a) > NodeOf(b) THEN a ELSE b
        equal == {n \in DOMAIN nodes : nodes[n] = <<low, high>>}
        kept(signal) == [nodes |-> nodes, signal |-> signal] IN
    IF NodeOf(a) = NodeOf(b) THEN kept(IF a = b THEN low ELSE 0)
    ELSE IF NodeOf(low) = 0 THEN kept(IF low = 1 THEN high ELSE 0)
    ELSE IF equal # {} THEN kept(2 * (CHOOSE n \in equal : TRUE))
    ELSE [nodes |-> Append(nodes, <<low, high>>), signal |-> 2 * (Len(nodes) + 1)]

OnAnd ==
    /\ step = "ands" /\ Len(signals) <= file.inputs + Len(file.ands)
    /\ LET and == file.ands[Len(signals) - file.inputs]
           made == CreateAnd(SignalOf(and.rhs0), SignalOf(and.rhs1)) IN
         /\ nodes' = made.nodes
         /\ signals' = Append(signals, made.signal)
    /\ UNCHANGED <<file, pos, words, rows, step>>

\* The outputs are created when the reader is destroyed.
ReaderGone ==
    /\ step = "ands" /\ Len(signals) > file.inputs + Len(file.ands)
    /\ pos' = [k \in 1..Len(file.outputs) |-> SignalOf(file.outputs[k])]
    /\ step' = "lines"
    /\ UNCHANGED <<file, nodes, signals, words, rows>>

(***************************************************************************)
(* Simulating.                                                             *)
(***************************************************************************)
Inputs == {n \in DOMAIN nodes : IsCi(n)}

\* Mutant: the weight of the second child is forgotten.
SimulateNodesUnweighted(w) ==
    LET value[n \in 0..Len(nodes)] ==
          IF n = 0 THEN FALSE
          ELSE IF IsCi(n) THEN w[nodes[n][1] + 1]
          ELSE value[NodeOf(nodes[n][1])] # (Complemented(nodes[n][1]) = 1) /\
               value[NodeOf(nodes[n][2])]
    IN  value

\* simulate_nodes, for an assignment w of the inputs.
SimulateNodes(w) ==
    LET value[n \in 0..Len(nodes)] ==
          IF n = 0 THEN FALSE
          ELSE IF IsCi(n) THEN w[nodes[n][1] + 1]
          ELSE \A c \in {nodes[n][1], nodes[n][2]} : value[NodeOf(c)] # (Complemented(c) = 1)
    IN  value

\* simulate
Outputs(w) ==
    LET value == SimulateNodes(w) IN
    [k \in 1..Len(pos) |-> value[NodeOf(pos[k])] # (Complemented(pos[k]) = 1)]

\* readNextLine returns inside its loop over the words of a line, so it reads
\* the first word only; a word that is neither "0" nor "1" leaves the bit
\* uninitialised.  The assignment has this one bit, and compute_pi takes the
\* other inputs from behind its end: they may be anything.
ReadBit(word) == IF word = "1" THEN {TRUE} ELSE IF word = "0" THEN {FALSE} ELSE BOOLEAN

\* Mutant: the bit of the line before is still there.
SimulateLineLate ==
    /\ step = "lines" /\ Len(words) < MaxLines
    /\ \E word \in {"0", "1", "other"}, w \in [Inputs -> BOOLEAN] :
         /\ Inputs # {} => w[1] \in ReadBit(IF words = <<>> THEN "0" ELSE words[Len(words)])
         /\ words' = Append(words, word)
         /\ rows' = Append(rows, Outputs(w))
    /\ UNCHANGED <<file, nodes, signals, pos, step>>

SimulateLine ==
    /\ step = "lines" /\ Len(words) < MaxLines
    /\ \E word \in {"0", "1", "other"}, w \in [Inputs -> BOOLEAN] :
         /\ Inputs # {} => w[1] \in ReadBit(word)
         /\ words' = Append(words, word)
         /\ rows' = Append(rows, Outputs(w))
    /\ UNCHANGED <<file, nodes, signals, pos, step>>

\* A line without a word, or the end of the file: readNextLine returns 0.
NoLine ==
    /\ step = "lines"
    /\ step' = "finished"
    /\ UNCHANGED <<file, nodes, signals, pos, words, rows>>

MockInit ==
    /\ file \in AigFiles
    /\ nodes = <<>> /\ signals = <<0>> /\ pos = <<>>
    /\ words = <<>> /\ rows = <<>> /\ step = "open"

MockStep == OnHeader \/ OnError \/ OnAnd \/ ReaderGone \/ SimulateLine \/ NoLine
MockSpec == MockInit /\ [][MockStep]_mockVars

(***************************************************************************)
(* Properties.                                                             *)
(***************************************************************************)
\* What the file says: the value of each variable under a vector.
FileValues(w) ==
    LET value[v \in 0..(file.inputs + Len(file.ands))] ==
          IF v = 0 THEN FALSE
          ELSE IF v <= file.inputs THEN w[v]
          ELSE \A lit \in {file.ands[v - file.inputs].rhs0, file.ands[v - file.inputs].rhs1} :
                 value[lit \div 2] # (lit % 2 = 1)
    IN  value

\* aig.hpp:236-262: a new node has different children, none of them constant,
\* in the order of their nodes and before it, and no second node has the same.
NetworkReduced ==
    /\ \A n \in DOMAIN nodes : n > file.inputs =>
         0 < NodeOf(nodes[n][1]) /\ NodeOf(nodes[n][1]) < NodeOf(nodes[n][2])
           /\ NodeOf(nodes[n][2]) < n
    /\ IsInjective(nodes)

\* Whatever was simplified and shared, the signal of a variable has the
\* function of the variable in the file.
SignalsKeepFunctions ==
    step # "open" => \A w \in [1..file.inputs -> BOOLEAN] :
      LET values == FileValues(w)  nodeValues == SimulateNodes(w) IN
      \A v \in 1..(Len(signals) - 1) :
        values[v] = (nodeValues[NodeOf(signals[v + 1])] # (Complemented(signals[v + 1]) = 1))

\* There is a row for every line, and it holds the outputs of the file under
\* some vector that begins with the line's first word: the whole row comes
\* from one vector, and for a file with one input from the line's.
\* "Simulate all inputs" (networkSimulatorMockturtle.cpp:27) promises more.
RowsOfVectors ==
    /\ Len(rows) = Len(words)
    /\ \A k \in DOMAIN rows : pos # <<>> =>
         \E w \in [1..file.inputs -> BOOLEAN] :
           /\ file.inputs > 0 => w[1] \in ReadBit(words[k])
           /\ \A o \in 1..Len(file.outputs) :
                rows[k][o] = (FileValues(w)[file.outputs[o] \div 2] # (file.outputs[o] % 2 = 1))
=============================================================================
