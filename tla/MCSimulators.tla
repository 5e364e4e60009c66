---------------------------- MODULE MCSimulators ----------------------------
(***************************************************************************)
(* The two simulators of a synthesised network, aigsim and the program on  *)
(* mockturtle, and strremove, which names the file of aigsim's rows, each  *)
(* on instances of its own: one of them runs.                              *)
(***************************************************************************)
EXTENDS MCAigSim, MockturtleSim, StrRemove

CONSTANTS x, y

\* The empty string, one like ".aig" that cannot overlap itself, two that can.
MCSubs == { <<>>, <<x, y>>, <<x, x>>, <<x, y, x>> }

\* One input and three ands, of which none becomes a node of the network.
Trivial == Model(1, <<>>, <<Gate(3, 1), Gate(3, 3), Gate(6, 5)>>, <<4, 7, 8, 3>>)
MockNetworks == NeuronModels \cup {Trivial}

\* Two lines: the second must not depend on the first.
TwoLines == 2

Idle == /\ model = Toggle
        /\ current = [v \in 0..MaxVar |-> Zero] /\ j = 1 /\ ch = "EOF" /\ comment = FALSE
        /\ bad = {} /\ states = <<>> /\ last = <<>>
        /\ lines = <<>> /\ told = {} /\ toldJustice = {} /\ status = "done" /\ chars = 0
MockIdle == /\ file = Trivial /\ nodes = <<>> /\ signals = <<0>> /\ pos = <<>>
            /\ words = <<>> /\ rows = <<>> /\ step = "finished"

NoString == /\ given = <<>> /\ sub = <<>> /\ str = <<Nul>>
            /\ p = 0 /\ size = 0 /\ found = FALSE /\ done = TRUE

SimulatorsInit == \/ Init /\ MockIdle /\ NoString
                  \/ Idle /\ MockInit /\ NoString
                  \/ Idle /\ MockIdle /\ RemoveInit

Others == UNCHANGED <<mockVars, removeVars>>
SimulatorsNext ==
    \/ Skip /\ Others
    \/ ReadInput /\ Others
    \/ Simulate /\ Others
    \/ ViolateConstraint /\ Others
    \/ EndOfTrace /\ Others
    \/ DieReading /\ Others
    \/ MockStep /\ UNCHANGED <<vars, removeVars>>
    \/ RemoveStep /\ UNCHANGED <<vars, mockVars>>
    \/ Ended /\ step = "finished" /\ done /\ Others
SimulatorsSpec == /\ SimulatorsInit /\ [][SimulatorsNext]_<<vars, mockVars, removeVars>>
                  /\ WF_removeVars(RemoveStep /\ UNCHANGED <<vars, mockVars>>)
=============================================================================
