---------------------------- MODULE AbcSynthesis ----------------------------
(***************************************************************************)
(* abcSynthesis.cpp: reads every PLA of a folder into ABC, minimises it,   *)
(* writes it as an AIG and deletes the PLA.  ABC holds one network at a    *)
(* time; every command can fail and ends the program when it does.         *)
(***************************************************************************)
EXTENDS Integers, FiniteSets

CONSTANTS
    PlaFiles,     \* regular files the PLA folder may hold
    AigNames,     \* names of AIG files
    AigName,      \* AigName[f]: what lines 99-101 make of the path of f
    Nameless,     \* files without "output" in their path: substr throws
    OptGiven,     \* is the first argument "-opt"?
    CommandFails, \* the commands that may fail
    SynthKills,   \* where the process may be killed
    MaxSyntheses  \* bound on the number of times it is started

SynthPoints == {"source", "next", "print", "optimize", "write", "remove"}
Commands == {"list", "source", "read_pla", "print_stats", "resyn2", "strash",
             "write_aiger", "remove"}

ASSUME SynthesisAssumption ==
    /\ AigName \in [PlaFiles -> AigNames]
    /\ Nameless \subseteq PlaFiles
    /\ OptGiven \in BOOLEAN
    /\ CommandFails \subseteq Commands
    /\ SynthKills \subseteq SynthPoints
    /\ MaxSyntheses \in Nat

NoNetwork == [of |-> {}, form |-> "none"]

VARIABLES
    pla,      \* PLA files in the folder
    aigs,     \* the network each AIG file holds
    optimize,
    network,  \* ABC's current network
    todo,     \* files of the list plaFiles not reached yet
    synthPc,  \* program point; "off" when the program is not running
    syntheses \* times the program was started

synthVars == <<pla, aigs, optimize, network, todo, synthPc, syntheses>>

\* A network stands for the functions of one file (a singleton), as read from
\* the PLA, minimised or translated; "torn" is an AIG file half written.
Networks == [of : {{}} \cup {{f} : f \in PlaFiles},
             form : {"none", "sop", "min", "hash", "torn"}]

SynthGone ==
    /\ synthPc' = "off"
    /\ todo' = {} /\ network' = NoNetwork /\ optimize' = TRUE

\* The program returns 1: a command failed.
Fails(command) ==
    /\ command \in CommandFails
    /\ SynthGone
    /\ UNCHANGED <<pla, aigs, syntheses>>

(***************************************************************************)
(* The program.                                                            *)
(***************************************************************************)
\* argv[1] == "-opt" compares two addresses and is false: optimize stays what
\* it was initialised to, and "-opt", if given, is taken for the PLA folder.
ParseArguments ==
    /\ synthPc = "off" /\ syntheses < MaxSyntheses
    /\ syntheses' = syntheses + 1
    /\ optimize' = TRUE
    /\ ~OptGiven /\ todo' = pla /\ synthPc' = "source"
    /\ UNCHANGED <<pla, aigs, network>>

\* directory_iterator throws for a folder that is not there.
ParseArgumentsFails ==
    /\ synthPc = "off" /\ syntheses < MaxSyntheses
    /\ OptGiven \/ "list" \in CommandFails
    /\ syntheses' = syntheses + 1
    /\ UNCHANGED <<pla, aigs, optimize, network, todo, synthPc>>

SourceAliases ==
    /\ synthPc = "source"
    /\ \/ /\ synthPc' = "next"
          /\ UNCHANGED <<pla, aigs, optimize, network, todo, syntheses>>
       \/ Fails("source")

ReadPla ==
    /\ synthPc = "next"
    /\ \E f \in todo :
         \/ /\ todo' = todo \ {f}
            /\ network' = [of |-> {f}, form |-> "sop"]
            /\ synthPc' = "print"
            /\ UNCHANGED <<pla, aigs, optimize, syntheses>>
         \/ Fails("read_pla")

PrintStats ==
    /\ synthPc = "print"
    /\ \/ /\ synthPc' = "optimize"
          /\ UNCHANGED <<pla, aigs, optimize, network, todo, syntheses>>
       \/ Fails("print_stats")

\* resyn2 or strash, as optimize says.
Optimize ==
    /\ synthPc = "optimize"
    /\ \/ /\ network' = [network EXCEPT !.form = IF optimize THEN "min" ELSE "hash"]
          /\ synthPc' = "write"
          /\ UNCHANGED <<pla, aigs, optimize, todo, syntheses>>
       \/ Fails(IF optimize THEN "resyn2" ELSE "strash")

\* The file of the current network: its name is cut out of the path first.
NetworkFile == CHOOSE f \in PlaFiles : network.of = {f}

\* Mutant: a PLA goes although its AIG could not be written.
WriteAigerUnchecked ==
    /\ synthPc = "write" /\ NetworkFile \notin Nameless
    /\ \/ aigs' = [aigs EXCEPT ![AigName[NetworkFile]] = network]
       \/ "write_aiger" \in CommandFails /\ UNCHANGED aigs
    /\ synthPc' = "remove"
    /\ UNCHANGED <<pla, optimize, network, todo, syntheses>>

\* Mutant: the AIG keeps the name of the PLA file.
WriteAigerMisnamed ==
    /\ synthPc = "write" /\ NetworkFile \notin Nameless
    /\ aigs' = [a \in AigNames \cup {NetworkFile} |->
                  IF a = NetworkFile THEN network ELSE aigs[a]]
    /\ synthPc' = "remove"
    /\ UNCHANGED <<pla, optimize, network, todo, syntheses>>

WriteAiger ==
    /\ synthPc = "write" /\ NetworkFile \notin Nameless
    /\ \/ /\ aigs' = [aigs EXCEPT ![AigName[NetworkFile]] = network]
          /\ synthPc' = "remove"
          /\ UNCHANGED <<pla, optimize, network, todo, syntheses>>
       \/ Fails("write_aiger")

\* std::out_of_range ends the program.
NoName ==
    /\ synthPc = "write" /\ NetworkFile \in Nameless
    /\ SynthGone
    /\ UNCHANGED <<pla, aigs, syntheses>>

\* Mutant: the list is made again after a removal.
RemovePlaRelists ==
    /\ synthPc = "remove"
    /\ \/ pla' = pla \ {NetworkFile}
       \/ "remove" \in CommandFails /\ UNCHANGED pla
    /\ todo' = pla'
    /\ synthPc' = "next"
    /\ UNCHANGED <<aigs, optimize, network, syntheses>>

RemovePla ==
    /\ synthPc = "remove"
    /\ \/ pla' = pla \ {NetworkFile}
       \/ "remove" \in CommandFails /\ UNCHANGED pla
    /\ synthPc' = "next"
    /\ UNCHANGED <<aigs, optimize, network, todo, syntheses>>

EndSynthesis ==
    /\ synthPc = "next" /\ todo = {}
    /\ SynthGone
    /\ UNCHANGED <<pla, aigs, syntheses>>

\* Killed while write_aiger runs, the program may leave half a file.
SynthKill ==
    /\ synthPc \in SynthKills
    /\ SynthGone
    /\ \/ UNCHANGED aigs
       \/ /\ synthPc = "write" /\ NetworkFile \notin Nameless
          /\ aigs' = [aigs EXCEPT ![AigName[NetworkFile]] =
                        [network EXCEPT !.form = "torn"]]
    /\ UNCHANGED <<pla, syntheses>>

(***************************************************************************)
(* The specification.                                                      *)
(***************************************************************************)
SynthInit ==
    /\ pla \in SUBSET PlaFiles /\ aigs = [a \in AigNames |-> NoNetwork]
    /\ optimize = TRUE /\ network = NoNetwork /\ todo = {}
    /\ synthPc = "off" /\ syntheses = 0

SynthStep == \/ SourceAliases \/ ReadPla \/ PrintStats \/ Optimize \/ WriteAiger
             \/ NoName \/ RemovePla \/ EndSynthesis
SynthIdle == synthPc = "off" /\ syntheses = MaxSyntheses /\ UNCHANGED synthVars
SynthNext == ParseArguments \/ ParseArgumentsFails \/ SynthStep \/ SynthKill \/ SynthIdle

SynthSpec == SynthInit /\ [][SynthNext]_synthVars
FairSynthSpec == SynthSpec /\ WF_synthVars(SynthStep)

(***************************************************************************)
(* Properties.                                                             *)
(***************************************************************************)
\* Every variable has its type; ABC holds a network from read to removal.
SynthTypeOK ==
    /\ pla \subseteq PlaFiles
    /\ aigs \in [AigNames -> Networks]
    /\ optimize \in BOOLEAN
    /\ network \in Networks
    /\ todo \subseteq PlaFiles
    /\ synthPc \in SynthPoints \cup {"off"}
    /\ synthPc \in {"print", "optimize", "write", "remove"} =>
         \E f \in PlaFiles : network.of = {f}
    /\ syntheses \in 0..MaxSyntheses

\* No function is lost: a PLA goes only when the AIG of its name holds the whole
\* of its network, and while no PLA claims the name that AIG stays -- whatever
\* command fails and wherever the program is killed and started again, half
\* written AIGs included (lines 104-112).
Whole(f) == [of |-> {f}, form |-> "min"]
PlaConserved ==
    [][\A f \in PlaFiles \ pla' :
         f \in pla \/ aigs[AigName[f]] = Whole(f) =>
           aigs'[AigName[f]] = Whole(f)]_synthVars

\* Every run of the program comes to an end.
SynthEnds == synthPc # "off" ~> synthPc = "off"
=============================================================================
