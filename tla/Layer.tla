------------------------------- MODULE Layer -------------------------------
(***************************************************************************)
(* What a pass of workflow.sh over one layer promises: every neuron of the *)
(* layer is evaluated once, and when all of them are, the stimulus of the  *)
(* next layer appears, row after row, with the bits they computed.         *)
(***************************************************************************)
EXTENDS Integers, Sequences

CONSTANTS
    Neurons,  \* the neurons of the layer
    Target    \* the rows of the next layer's stimulus

VARIABLES
    pending,  \* neurons still to be evaluated
    result    \* rows of the next layer's stimulus

layerVars == <<pending, result>>

Init == pending = Neurons /\ result = <<>>

Evaluate ==
    /\ \E n \in pending : pending' = pending \ {n}
    /\ UNCHANGED result

Combine ==
    /\ pending = {} /\ Len(result) < Len(Target)
    /\ result' = Append(result, Target[Len(result) + 1])
    /\ UNCHANGED pending

Next == Evaluate \/ Combine

\* What may happen, without the promise that it does.
SafeSpec == Init /\ [][Next]_layerVars
Spec == SafeSpec /\ WF_layerVars(Next)
=============================================================================
