------------------------------ MODULE MCAigSim ------------------------------
(***************************************************************************)
(* Instances of AigSim for TLC.                                            *)
(***************************************************************************)
EXTENDS AigSim

Gate(a, b) == [rhs0 |-> a, rhs1 |-> b]

\* A model whose latches start at 0 and whose outputs are its bad states, as
\* they are for a file that names none.
Model(inputs, latches, ands, outputs) ==
    [ inputs |-> inputs, latches |-> latches, resets |-> [k \in 1..Len(latches) |-> 0],
      ands |-> ands, outputs |-> outputs, bad |-> outputs,
      constraints |-> <<>>, fairness |-> <<>>, justice |-> <<>> ]

\* Every circuit of two inputs and two ands; the second and is the output,
\* once as it is and once inverted.
Neurons ==
    { Model(2, <<>>, <<Gate(a, b), Gate(c, d)>>, <<8, 9>>) :
        a \in 0..5, b \in 0..5, c \in 0..7, d \in 0..7 }
NeuronModels ==
    {m \in Neurons : \A k \in 1..2 : m.ands[k].rhs0 >= m.ands[k].rhs1}

\* A shift register of two latches behind an input, with the conjunction of
\* both as output; two latches that change places, one of them inverted.
Register == Model(1, <<2, 4>>, <<Gate(4, 6)>>, <<8>>)
Ring     == Model(1, <<7, 4>>, <<Gate(2, 4)>>, <<8, 9>>)

\* A toggle flip-flop with its state and the inverse as outputs, and no input.
Toggle == Model(0, <<3>>, <<>>, <<2, 3>>)

\* Latches reset to 1 and not at all, and constraints on state and input.
Constrained == [Register EXCEPT !.resets = <<1, 6>>, !.constraints = <<3, 9>>]
Held        == [Ring EXCEPT !.resets = <<0, 1>>, !.constraints = <<7>>]
Filling     == [Ring EXCEPT !.constraints = <<7>>]

\* Loops: through both states of a flip-flop, through a state that a latch
\* leaves for ever, and through as many as an input decides.
Flips   == [Toggle EXCEPT !.fairness = <<2>>, !.justice = << <<3>>, <<2, 3>>, <<0>>, <<>> >>]
Leaves  == [Model(0, <<1>>, <<>>, <<2>>) EXCEPT !.justice = << <<2>>, <<3>> >>]
Decides == [Model(1, <<2>>, <<>>, <<4>>) EXCEPT !.justice = << <<4>>, <<5, 2>> >>]
Fair    == [Decides EXCEPT !.fairness = <<4>>]
Unknown == [Flips EXCEPT !.resets = <<2>>]

LatchModels == {Register, Ring, Toggle, Constrained, Held, Filling,
                Flips, Leaves, Decides, Fair, Unknown}
AllModels == NeuronModels \cup LatchModels

\* One vector of a neuron, three of a register.
OneVector == 3
ThreeVectors == 7
MCMaxChars(m) == IF m.latches = <<>> THEN OneVector ELSE ThreeVectors
=============================================================================
