------------------------------ MODULE Workflow ------------------------------
(***************************************************************************)
(* workflow.sh: the simulator and then the join, over one layer.  The      *)
(* script has no `set -e': the join is started whatever the simulator      *)
(* returned.  They share the output folder; the script may be interrupted, *)
(* with the program it is running, and started again.                      *)
(***************************************************************************)
EXTENDS Integers, Sequences, FiniteSets

CONSTANTS AigFiles, Others, OutNames, Stem, NumVectors, Value, BannerCode, Tty,
          Dot, Corrupt, MayFail, FdLimit, KillPoints, MaxRuns, Terminal, NoFile,
          SortedNames, Garbage, Unreadable, JoinMayFail, JoinKillPoints

VARIABLES
    simFiles, simOut,                                  \* the output folder
    aig, pc, toList, cur, used, stdout, saved, buffer, printed, runs,
    joined, joinPc, names, numSims, matrix, stale, sim, joins,
    stage  \* "idle", "simulate", "join"; "end" after the last line

simPrivate  == <<aig, pc, toList, cur, used, stdout, saved, buffer, printed, runs>>
joinPrivate == <<joined, joinPc, names, numSims, matrix, stale, sim, joins>>
vars == <<simFiles, simOut, simPrivate, joinPrivate, stage>>

Sim  == INSTANCE NeuronSimulator
Join == INSTANCE JoinOutputs WITH MaxJoins <- MaxRuns

\* The files, the neurons and the environment of the simulator, and those of the
\* join: the assumptions of the two modules.
ASSUME SimulatorAssumption ==
    /\ IsFiniteSet(AigFiles)
    /\ AigFiles \cap Others = {}
    /\ NoFile \notin AigFiles \cup OutNames \cup {Terminal}
    /\ Terminal \notin OutNames
    /\ Stem \in [AigFiles -> OutNames]
    /\ NumVectors \in Nat
    /\ Value \in [AigFiles -> [1..NumVectors -> Int]]
    /\ BannerCode \in [AigFiles -> Int]
    /\ Tty \in BOOLEAN /\ Dot \in BOOLEAN
    /\ Corrupt \subseteq AigFiles
    /\ MayFail \subseteq Sim!Calls
    /\ KillPoints \subseteq Sim!ProgramPoints
    /\ FdLimit \in Nat /\ MaxRuns \in Nat
ASSUME JoinerAssumption ==
    /\ SortedNames \in Seq(OutNames)
    /\ \A n \in OutNames : \E i \in 1..Len(SortedNames) : SortedNames[i] = n
    /\ \A i, j \in 1..Len(SortedNames) : SortedNames[i] = SortedNames[j] => i = j
    /\ Garbage \subseteq Int /\ Garbage # {}
    /\ Unreadable \subseteq OutNames
    /\ JoinMayFail \subseteq Join!JoinCalls
    /\ JoinKillPoints \subseteq Join!JoinPoints

Init == Sim!Init /\ Join!JoinInit /\ stage = "idle"

(***************************************************************************)
(* The script.                                                             *)
(***************************************************************************)
StartScript ==
    /\ stage \in {"idle", "end"}
    /\ Sim!Launch
    /\ stage' = "simulate"
    /\ UNCHANGED joinPrivate

Simulating ==
    /\ stage = "simulate"
    /\ Sim!Step
    /\ UNCHANGED stage /\ UNCHANGED joinPrivate

\* Mutant: the simulator runs in the background.
StartJoinEarly ==
    /\ stage = "simulate" /\ pc \in {"off", "readdir"}
    /\ Join!JoinLaunch
    /\ stage' = "join"
    /\ UNCHANGED simPrivate

\* Mutant: the join waits until no AIG is left.
StartJoinWaiting ==
    /\ stage = "simulate" /\ pc = "off"
    /\ IF aig # {} THEN UNCHANGED vars
       ELSE /\ Join!JoinLaunch
            /\ stage' = "join"
            /\ UNCHANGED simPrivate

\* The exit status of the simulator is not looked at.
StartJoin ==
    /\ stage = "simulate" /\ pc = "off"
    /\ Join!JoinLaunch
    /\ stage' = "join"
    /\ UNCHANGED simPrivate

Joining ==
    /\ stage = "join"
    /\ Join!JoinStep
    /\ UNCHANGED stage /\ UNCHANGED simPrivate

EndScript ==
    /\ stage = "join" /\ joinPc = "off"
    /\ stage' = "end"
    /\ UNCHANGED <<simFiles, simOut, simPrivate, joinPrivate>>

\* Interruptions come to an end: the last run has none.
Interrupt ==
    /\ runs < MaxRuns
    /\ \/ stage = "simulate" /\ Sim!Kill /\ UNCHANGED joinPrivate
       \/ stage = "join" /\ Join!JoinKill /\ UNCHANGED simPrivate
    /\ stage' = "idle"

\* Nobody starts the script again.
Rest == stage \in {"idle", "end"} /\ runs = MaxRuns /\ UNCHANGED vars

Progress == Simulating \/ StartJoin \/ Joining \/ EndScript
Next == StartScript \/ Progress \/ Interrupt \/ Rest

Spec == Init /\ [][Next]_vars
FairSpec == Spec /\ WF_vars(Progress)
\* Somebody does start the script.
StartedSpec == FairSpec /\ WF_vars(StartScript)

(***************************************************************************)
(* Properties.                                                             *)
(***************************************************************************)
\* The neurons of S in the order of their output files, and the rows of the
\* next layer's stimulus they make up.
NeuronOf(n) == CHOOSE f \in AigFiles : Stem[f] = n
ColumnsOf(S) == Join!InOrder({Stem[f] : f \in S})
RowsOf(S) ==
    [s \in 1..NumVectors |->
       [k \in 1..Len(ColumnsOf(S)) |-> Value[NeuronOf(ColumnsOf(S)[k])][s]]]
Target == RowsOf(AigFiles)

\* When the script has ended the joined file is the layer's output: the bit of
\* every neuron for every vector, in its place -- in one go or after
\* interruptions, as long as these come before aigsim's first line or before
\* the join's first deletion.
JoinedCorrect == stage = "end" => joined = Target

\* An AIG that cannot be read or an output that cannot be opened stops the
\* simulator and the join goes on with what there is: the joined file lacks
\* columns, but those it has are complete and belong to one neuron each, even
\* if the join fails or is killed before it writes.
PartialButTrue ==
    stage = "end" => joined = <<>> \/ \E S \in SUBSET AigFiles : joined = RowsOf(S)

\* The script ends, unless it is interrupted.
ScriptEnds == stage = "simulate" ~> stage \in {"end", "idle"}

\* createInputsFromSimulated.cpp:30, "Get the number of simulations".
NumberOfSimulations ==
    joinPc \in {"read", "delete", "write"} => numSims = NumVectors

\* workflow.sh:9, "Joining outputs for next layer inputs": the rows are vectors
\* that aigsim accepts, a 0 or a 1 per neuron.
NextLayerInputs ==
    stage = "end" =>
      \A s \in 1..Len(joined), k \in 1..Cardinality(AigFiles) : joined[s][k] \in {0, 1}

\* A pass over the layer does what Layer promises.  Once the joined file is
\* complete no later run of the script changes it, although there is nothing
\* left to simulate or to join (only because simFiles[0],
\* createInputsFromSimulated.cpp:31, kills the join in time).
Abstract == INSTANCE Layer WITH Neurons <- AigFiles, pending <- aig, result <- joined
RefinesLayer == Abstract!Spec
=============================================================================
