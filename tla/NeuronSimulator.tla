-------------------------- MODULE NeuronSimulator --------------------------
(***************************************************************************)
(* networkSimulatorAiger.c: simulates every AIG of a layer folder.  The    *)
(* program walks the folder, and for each AIG points its own file          *)
(* descriptor 1 at the neuron's output file, lets aigsim print one row per *)
(* stimulus vector there, restores descriptor 1 and deletes the AIG.       *)
(*                                                                         *)
(* A line of an output file is abstracted to its kind and to the number    *)
(* createInputsFromSimulated will later read out of it (its next to last   *)
(* character minus '0'); a blank line has no such character.               *)
(***************************************************************************)
EXTENDS Integers, Sequences, FiniteSets

CONSTANTS
    AigFiles,    \* the folder's entries whose name contains ".aig"
    Others,      \* its other entries: ".", "..", ...
    OutNames,    \* names of output files
    Stem,        \* Stem[f]: what strremove(f, ".aig") leaves of the name
    NumVectors,  \* vectors in the stimulus file
    Value,       \* Value[f][s]: last output of neuron f under vector s
    BannerCode,  \* BannerCode[f]: what the join reads out of "Simulating f"
    Tty,         \* is standard output a terminal, hence line buffered?
    Dot,         \* does the stimulus end with a '.' line?
    Corrupt,     \* AIGs that aiger_read_from_file rejects
    MayFail,     \* the calls that may fail
    FdLimit,     \* RLIMIT_NOFILE
    KillPoints,  \* where the process may be killed
    MaxRuns,     \* bound on the number of times it is started
    Terminal,    \* what descriptor 1 refers to when the program starts
    NoFile       \* no file, no descriptor

ProgramPoints ==
    {"readdir", "read", "open", "redirect", "aigsim", "flush", "restore", "remove"}
Calls == {"opendir", "fopen", "open", "dup2", "aigsim", "remove"}

ASSUME FilesAssumption ==
    /\ IsFiniteSet(AigFiles)
    /\ AigFiles \cap Others = {}
    /\ NoFile \notin AigFiles \cup OutNames \cup {Terminal}
    /\ Terminal \notin OutNames
ASSUME NeuronAssumption ==
    /\ Stem \in [AigFiles -> OutNames]
    /\ NumVectors \in Nat
    /\ Value \in [AigFiles -> [1..NumVectors -> Int]]
    /\ BannerCode \in [AigFiles -> Int]
ASSUME EnvironmentAssumption ==
    /\ Tty \in BOOLEAN /\ Dot \in BOOLEAN
    /\ Corrupt \subseteq AigFiles
    /\ MayFail \subseteq Calls
    /\ KillPoints \subseteq ProgramPoints
    /\ FdLimit \in Nat /\ MaxRuns \in Nat

VARIABLES
    aig,       \* AIG files still in the folder
    simFiles,  \* output files that exist
    simOut,    \* lines of each output file
    pc,        \* program point; "off" when the program is not running
    toList,    \* directory entries readdir has not returned yet
    cur,       \* the AIG at hand
    used,      \* open descriptors of the process
    stdout,    \* what descriptor 1 refers to
    saved,     \* what save_out refers to
    buffer,    \* lines still in the stdio buffer of stdout
    printed,   \* rows the running aigsim has printed
    runs       \* times the program was started

disk     == <<aig, simFiles, simOut>>
iteration == <<cur, saved, printed>>
process  == <<pc, toList, cur, used, stdout, saved, buffer, printed>>
simVars  == <<aig, simFiles, simOut, pc, toList, cur, used, stdout, saved,
              buffer, printed, runs>>

(***************************************************************************)
(* Lines.                                                                  *)
(***************************************************************************)
LineKinds == {"row", "trailer", "blank", "banner", "error"}
Lines == [kind : LineKinds, val : Int]

\* What aigsim prints for vector s, and after a '.': "Trace is a witness ..."
\* (its next to last character is a blank).
Row(f, s) == [kind |-> "row", val |-> Value[f][s]]
Rows(f)   == [s \in 1..NumVectors |-> Row(f, s)]
Trailer   == IF Dot THEN <<[kind |-> "trailer", val |-> 32 - 48]>> ELSE <<>>

\* printf("\nSimulating %s\n") and printf("Error reading from file\n").
Banner(f) == << [kind |-> "blank", val |-> 0],
                [kind |-> "banner", val |-> BannerCode[f]] >>
ErrorLine == << [kind |-> "error", val |-> 108 - 48] >>

(***************************************************************************)
(* Output.  A write reaches whatever descriptor 1 refers to; output files  *)
(* are opened with O_APPEND, what goes to the terminal is not kept.        *)
(***************************************************************************)
WriteTo(target, lines) ==
    simOut' = [n \in OutNames |->
                 IF n = target THEN simOut[n] \o lines ELSE simOut[n]]

\* printf: through at once on a terminal, else it waits in the buffer.
Emit(lines) ==
    IF Tty THEN /\ WriteTo(stdout, lines)
                /\ UNCHANGED buffer
           ELSE /\ buffer' = buffer \o lines
                /\ UNCHANGED simOut

(***************************************************************************)
(* The end of the process: Exit flushes the buffer, Die does not.          *)
(***************************************************************************)
Gone ==
    /\ pc' = "off" /\ toList' = {} /\ cur' = NoFile /\ used' = 0
    /\ stdout' = Terminal /\ saved' = NoFile /\ buffer' = <<>> /\ printed' = 0

Exit(lines) == WriteTo(stdout, buffer \o lines) /\ Gone
Die         == UNCHANGED simOut /\ Gone

\* Descriptors 0, 1 and 2 and the directory's are open inside the loop.
LoopFds == 4
FdFree(n) == used + n <= FdLimit

(***************************************************************************)
(* The program.                                                            *)
(***************************************************************************)
OpenDir ==
    /\ pc = "off" /\ runs < MaxRuns
    /\ runs' = runs + 1
    /\ LoopFds <= FdLimit
    /\ pc' = "readdir"
    /\ toList' = aig \cup Others
    /\ used' = LoopFds
    /\ UNCHANGED <<aig, simFiles, simOut, cur, stdout, saved, buffer, printed>>

\* if (d) fails: the loop is skipped and the program returns 0.
OpenDirFails ==
    /\ pc = "off" /\ runs < MaxRuns
    /\ "opendir" \in MayFail \/ LoopFds > FdLimit
    /\ runs' = runs + 1
    /\ UNCHANGED disk /\ UNCHANGED process

\* Mutant: the next entry is read only at the end of the branch for AIGs.
SkipEntryAgain ==
    /\ pc = "readdir"
    /\ toList \ AigFiles # {}
    /\ UNCHANGED simVars

SkipEntry ==
    /\ pc = "readdir"
    /\ \E e \in toList \ AigFiles : toList' = toList \ {e}
    /\ UNCHANGED disk
    /\ UNCHANGED <<pc, cur, used, stdout, saved, buffer, printed, runs>>

TakeEntry ==
    /\ pc = "readdir"
    /\ \E f \in toList \cap AigFiles :
         /\ toList' = toList \ {f}
         /\ cur' = f
         /\ Emit(Banner(f))
    /\ pc' = "read"
    /\ UNCHANGED <<aig, simFiles, used, stdout, saved, printed, runs>>

EndOfDir ==
    /\ pc = "readdir" /\ toList = {}
    /\ Exit(<<>>)
    /\ UNCHANGED <<aig, simFiles, runs>>

\* fopen's stream is never closed: one descriptor is lost per AIG.
ReadAig ==
    /\ pc = "read"
    /\ FdFree(1) /\ cur \notin Corrupt
    /\ used' = used + 1
    /\ pc' = "open"
    /\ UNCHANGED disk
    /\ UNCHANGED <<toList, cur, stdout, saved, buffer, printed, runs>>

\* Mutant: the output file is created before the AIG is read.
ReadAigRejectedLate ==
    /\ pc = "read"
    /\ FdFree(1) /\ cur \in Corrupt
    /\ Exit(ErrorLine)
    /\ simFiles' = simFiles \cup {Stem[cur]}
    /\ UNCHANGED <<aig, runs>>

ReadAigRejected ==
    /\ pc = "read"
    /\ FdFree(1) /\ cur \in Corrupt
    /\ Exit(ErrorLine)
    /\ UNCHANGED <<aig, simFiles, runs>>

\* fopen returns NULL, unchecked: aiger_read_from_file dereferences it.
ReadAigNull ==
    /\ pc = "read"
    /\ "fopen" \in MayFail \/ ~FdFree(1)
    /\ Die
    /\ UNCHANGED <<aig, simFiles, runs>>

\* Mutant: the ".aig" suffix is not removed from the output's name.
OpenOutUnstripped ==
    /\ pc = "open"
    /\ FdFree(1)
    /\ simFiles' = simFiles \cup {cur}
    /\ used' = used + 1
    /\ pc' = "redirect"
    /\ UNCHANGED <<aig, simOut, toList, runs, stdout, buffer>>
    /\ UNCHANGED iteration

\* Mutant: O_TRUNC in the place of O_APPEND.
OpenOutTruncates ==
    /\ pc = "open"
    /\ FdFree(1)
    /\ simFiles' = simFiles \cup {Stem[cur]}
    /\ simOut' = [simOut EXCEPT ![Stem[cur]] = <<>>]
    /\ used' = used + 1
    /\ pc' = "redirect"
    /\ UNCHANGED <<aig, toList, runs, stdout, buffer>>
    /\ UNCHANGED iteration

OpenOut ==
    /\ pc = "open"
    /\ FdFree(1)
    /\ simFiles' = simFiles \cup {Stem[cur]}
    /\ used' = used + 1
    /\ pc' = "redirect"
    /\ UNCHANGED <<aig, simOut, toList, runs, stdout, buffer>>
    /\ UNCHANGED iteration

OpenOutFails ==
    /\ pc = "open"
    /\ "open" \in MayFail \/ ~FdFree(1)
    /\ Exit(<<>>)
    /\ UNCHANGED <<aig, simFiles, runs>>

\* dup is not checked: without a free descriptor save_out is -1.
Redirect ==
    /\ pc = "redirect"
    /\ IF FdFree(1) THEN saved' = stdout /\ used' = used + 1
                    ELSE saved' = NoFile /\ UNCHANGED used
    /\ stdout' = Stem[cur]
    /\ pc' = "aigsim"
    /\ UNCHANGED disk
    /\ UNCHANGED <<toList, cur, buffer, printed, runs>>

RedirectFails ==
    /\ pc = "redirect" /\ "dup2" \in MayFail
    /\ Exit(<<>>)
    /\ UNCHANGED <<aig, simFiles, runs>>

\* The child aigsim inherits descriptor 1: one row per stimulus vector ...
AigsimPrint ==
    /\ pc = "aigsim" /\ printed < NumVectors
    /\ WriteTo(stdout, <<Row(cur, printed + 1)>>)
    /\ printed' = printed + 1
    /\ UNCHANGED <<aig, simFiles, pc, toList, cur, used, stdout, saved, buffer, runs>>

\* ... until the stimulus ends; without a '.' it then dies at the end of file,
\* with the rows printed.  The status system() returns is ignored either way.
AigsimEnd ==
    /\ pc = "aigsim" /\ printed = NumVectors
    /\ WriteTo(stdout, Trailer)
    /\ pc' = "flush" /\ printed' = 0
    /\ UNCHANGED <<aig, simFiles, toList, cur, used, stdout, saved, buffer, runs>>

AigsimFails ==
    /\ pc = "aigsim" /\ "aigsim" \in MayFail
    /\ pc' = "flush" /\ printed' = 0
    /\ UNCHANGED disk
    /\ UNCHANGED <<toList, cur, used, stdout, saved, buffer, runs>>

\* Mutant: no fflush before descriptor 1 is pointed back.
FlushStdoutForgotten ==
    /\ pc = "flush"
    /\ pc' = "restore"
    /\ UNCHANGED disk
    /\ UNCHANGED <<toList, used, stdout, buffer, runs>>
    /\ UNCHANGED iteration

FlushStdout ==
    /\ pc = "flush"
    /\ WriteTo(stdout, buffer)
    /\ buffer' = <<>>
    /\ pc' = "restore"
    /\ UNCHANGED <<aig, simFiles, toList, used, stdout, runs>>
    /\ UNCHANGED iteration

\* Mutant: save_out is not closed.
RestoreStdoutLeaks ==
    /\ pc = "restore"
    /\ used' = used - 1
    /\ stdout' = IF saved = NoFile THEN stdout ELSE saved
    /\ saved' = NoFile
    /\ pc' = "remove"
    /\ UNCHANGED disk
    /\ UNCHANGED <<toList, cur, buffer, printed, runs>>

\* Mutant: the second dup2 is missing.
RestoreStdoutForgotten ==
    /\ pc = "restore"
    /\ used' = IF saved = NoFile THEN used - 1 ELSE used - 2
    /\ saved' = NoFile
    /\ pc' = "remove"
    /\ UNCHANGED disk
    /\ UNCHANGED <<toList, cur, stdout, buffer, printed, runs>>

\* close(out); dup2(save_out, 1); close(save_out) -- the last two do nothing
\* when save_out is -1.
RestoreStdout ==
    /\ pc = "restore"
    /\ IF saved = NoFile THEN UNCHANGED stdout /\ used' = used - 1
                         ELSE stdout' = saved /\ used' = used - 2
    /\ saved' = NoFile
    /\ pc' = "remove"
    /\ UNCHANGED disk
    /\ UNCHANGED <<toList, cur, buffer, printed, runs>>

RemoveAig ==
    /\ pc = "remove"
    /\ \/ aig' = aig \ {cur}
       \/ "remove" \in MayFail /\ UNCHANGED aig
    /\ cur' = NoFile
    /\ pc' = "readdir"
    /\ UNCHANGED <<simFiles, simOut, toList, used, stdout, saved, buffer, printed, runs>>

Kill ==
    /\ pc \in KillPoints
    /\ Die
    /\ UNCHANGED <<aig, simFiles, runs>>

(***************************************************************************)
(* The specification.                                                      *)
(***************************************************************************)
DiskInit ==
    aig = AigFiles /\ simFiles = {} /\ simOut = [n \in OutNames |-> <<>>]
ProcessInit ==
    /\ pc = "off" /\ toList = {} /\ cur = NoFile /\ used = 0
    /\ stdout = Terminal /\ saved = NoFile /\ buffer = <<>> /\ printed = 0
    /\ runs = 0
Init == DiskInit /\ ProcessInit

Launch == OpenDir \/ OpenDirFails
Iterate == SkipEntry \/ TakeEntry \/ EndOfDir
Prepare == \/ ReadAig \/ ReadAigRejected \/ ReadAigNull
           \/ OpenOut \/ OpenOutFails \/ Redirect \/ RedirectFails
Simulate == AigsimPrint \/ AigsimEnd \/ AigsimFails
Finish == FlushStdout \/ RestoreStdout \/ RemoveAig
Step == Iterate \/ Prepare \/ Simulate \/ Finish

\* Nobody starts the program again.
Idle == pc = "off" /\ runs = MaxRuns /\ UNCHANGED simVars

Next == Launch \/ Step \/ Kill \/ Idle

Spec == Init /\ [][Next]_simVars
\* The process runs as long as it has something to do; who starts it need not.
FairSpec == Spec /\ WF_simVars(Step)
(***************************************************************************)
(* Properties.                                                             *)
(***************************************************************************)
\* Every variable has its type; the program point tells what is defined.
TypeOK ==
    /\ aig \subseteq AigFiles
    /\ simFiles \subseteq OutNames
    /\ simOut \in [OutNames -> Seq(Lines)]
    /\ pc \in ProgramPoints \cup {"off"}
    /\ toList \subseteq AigFiles \cup Others
    /\ cur \in AigFiles \cup {NoFile}
    /\ cur = NoFile <=> pc \in {"off", "readdir"}
    /\ used \in 0..FdLimit
    /\ stdout \in OutNames \cup {Terminal}
    /\ saved \in OutNames \cup {Terminal, NoFile}
    /\ buffer \in Seq(Lines)
    /\ printed \in 0..NumVectors
    /\ runs \in 0..MaxRuns

\* The rows of neuron n stand, complete and together, in its output file.
Recorded(n) ==
    \E i \in 0..Len(simOut[Stem[n]]) :
      /\ i + NumVectors <= Len(simOut[Stem[n]])
      /\ \A s \in 1..NumVectors : simOut[Stem[n]][i + s] = Row(n, s)

\* No neuron is lost: its AIG is there to be simulated again, or its output
\* file has all its rows -- whatever kills, starts again, runs out of
\* descriptors or shares an output name (lines 59-71: the AIG is deleted
\* without a look at what system() returned).
NeuronsConserved == \A n \in AigFiles : n \in aig \/ Recorded(n)

\* What aigsim leaves in the output file of n.  If it fails, some of the rows
\* are missing and the trailer with them.
Simulated(n) ==
    {Rows(n) \o Trailer} \cup
    {SubSeq(Rows(n), 1, k) : k \in IF "aigsim" \in MayFail THEN 0..NumVectors ELSE {}}

\* What the file holds in the end.  The banner printed before the redirection is
\* flushed into it (line 63) unless stdout is line buffered.
Expected(n) == {rows \o (IF Tty THEN <<>> ELSE Banner(n)) : rows \in Simulated(n)}

\* Apart from the neuron at hand, an output file is empty while its AIG
\* exists and exactly as expected afterwards: interrupting the program before
\* aigsim starts and running it again duplicates and mixes up nothing.
OutputsExact ==
    \A n \in AigFiles \ {cur} :
      IF n \in aig THEN simOut[Stem[n]] = <<>> ELSE simOut[Stem[n]] \in Expected(n)

\* Once its AIG is deleted nothing is ever written to a neuron's file again:
\* not by later neurons, not by later runs (lines 51-68, O_APPEND of 48).
FinishedFilesFrozen ==
    [][\A n \in AigFiles \ aig : simOut'[Stem[n]] = simOut[Stem[n]]]_simVars

\* Line 62, "Back to normal terminal output": between two simulations
\* descriptor 1 is the terminal.
StdoutRestored ==
    pc \in {"remove", "readdir", "read", "open"} => stdout = Terminal

\* fopen, open and dup find a free descriptor for every neuron of the layer.
DescriptorsSuffice == pc \in {"read", "open", "redirect"} => FdFree(1)

\* Every run of the program comes to an end.
RunEnds == pc # "off" ~> pc = "off"
=============================================================================
